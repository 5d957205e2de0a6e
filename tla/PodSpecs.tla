------------------------------ MODULE PodSpecs ------------------------------
(***************************************************************************)
(* The pod specifications that a job's creation builds from the request    *)
(* (internal/handler/vcjob: util.go, jupyter.go, custom.go, tensorflow.go, *)
(* pytorch.go): volumes and their mounts, node affinity, tolerations.  The *)
(* tasks of a parallel job are built one after the other from one base     *)
(* affinity, which is a pointer that they share.                           *)
(***************************************************************************)
EXTENDS Naturals, Sequences, FiniteSets, SequencesExt

CONSTANTS ReadOnlyClaim,  \* storage.pvc.readOnlyMany; SharedClaim when it is not set
          SelectorKeys,   \* labels that users select nodes by
          MaxMounts,      \* bound: mounts of a request
          MaxTasks        \* bound: tasks of a parallel job

SharedClaim == "rwx"    \* storage.pvc.readWriteMany

\* The volumes of a fixed name have names of their own, and what is required of the
\* architecture comes from the images.
ASSUME PodSpecsAssumption ==
    /\ MaxMounts \in Nat /\ MaxTasks \in Nat
    /\ {ReadOnlyClaim, SharedClaim} \cap {"cache", "start", "bash"} = {}
    /\ SelectorKeys \cap {"amd64", "arm64"} = {}

VARIABLES
    order,  \* the request, with what the token and the tables say
    built   \* the specification so far

podSpecVars == <<order, built>>

-----------------------------------------------------------------------------
AccessModes == {"NA", "RO", "RW", "AO"}
Machine == {"amd64", "arm64"}
JobKinds == {"jupyter", "ngc", "custom", "parallel"}

\* A mount: of the public, the account's or the user's space, or of a dataset, at
\* a path of its own.
Mounts == [space : {"public", "account", "user", "dataset", "editable"}]
GPUCounts == {0, 1, 2}

Orders == [kind     : JobKinds,
           mounts   : SeqOf(Mounts, MaxMounts),
           public   : AccessModes,
           account  : AccessModes,
           selector : SUBSET SelectorKeys,
           gpus     : GPUCounts,
           default  : BOOLEAN,  \* the job is of the default account
           images   : SeqOf(SUBSET Machine, MaxTasks) \ {<<>>}]

-----------------------------------------------------------------------------
(* Volumes *)

isReadOnly(mode) == mode # "RW"

\* resolveVolumeMount: the claim, and whether it is mounted read only.
resolveVolumeMount(o, vm) ==
    LET readOnly == \/ vm.space = "public" /\ isReadOnly(o.public)
                    \/ vm.space = "account" /\ isReadOnly(o.account)
                    \/ vm.space = "dataset"
    IN  [name |-> IF readOnly THEN ReadOnlyClaim ELSE SharedClaim,
         space |-> vm.space, readOnly |-> readOnly]

\* A claim becomes a volume of the pod once (pvcMap).
AddVolume(volumes, name) == IF Contains(volumes, name) THEN volumes ELSE Append(volumes, name)

\* GenerateVolumeMounts: the cache, the claims, the start script; a jupyter job
\* whose image does not start by itself gets a script more.
GenerateVolumes(o) ==
    LET claims == FoldLeft(LAMBDA vs, vm : AddVolume(vs, resolveVolumeMount(o, vm).name),
                           <<"cache">>, o.mounts)
    IN  claims \o <<"start">> \o (IF o.kind = "ngc" THEN <<"bash">> ELSE <<>>)

GenerateVolumeMounts(o) ==
    <<"cache">> \o [i \in DOMAIN o.mounts |-> resolveVolumeMount(o, o.mounts[i]).name]
                \o <<"start">> \o (IF o.kind = "ngc" THEN <<"bash">> ELSE <<>>)

-----------------------------------------------------------------------------
(* Affinity: what is required of a node, as a set of terms of which one has to *)
(* hold, each a set of requirements.  No required term at all is no affinity.  *)

NoAffinity == [required |-> {}, preferred |-> {}]

GenerateNodeAffinity(o) ==
    CASE o.selector # {}                -> [required |-> {o.selector}, preferred |-> {}]
      [] o.selector = {} /\ o.gpus = 0  -> [required |-> {}, preferred |-> {"no-gpu", "no-infiniband"}]
      [] o.selector = {} /\ o.gpus = 1  -> [required |-> {}, preferred |-> {"no-infiniband"}]
      [] o.selector = {} /\ o.gpus > 1  -> NoAffinity

\* DetermineArchitectureType: no known architecture is amd64.
DetermineArchitectureType(archs) ==
    CASE archs = Machine   -> {}
      [] archs = {"arm64"} -> {"arm64"}
      [] OTHER             -> {"amd64"}

GenerateArchitectureNodeAffinity(archs, base) ==
    LET arch == DetermineArchitectureType(archs)
    IN  CASE arch = {}                           -> base
          [] arch # {} /\ base.required = {}     -> [base EXCEPT !.required = {arch}]
          [] arch # {} /\ base.required # {}     -> [base EXCEPT !.required = {t \cup arch : t \in @}]

\* GenerateTaintTolerationsForAccount
Tolerations(o) == IF o.default THEN {} ELSE {"crater.raids.io/account"}

-----------------------------------------------------------------------------
NothingBuilt == [volumes |-> <<>>, mounts |-> <<>>, base |-> NoAffinity, tolerations |-> {}, tasks |-> <<>>]

PodSpecInit ==
    /\ order \in Orders
    /\ order.kind # "parallel" => Len(order.images) = 1
    /\ built = NothingBuilt

\* What all tasks of the job share.
BuildCommon ==
    /\ built = NothingBuilt
    /\ built' = [volumes |-> GenerateVolumes(order), mounts |-> GenerateVolumeMounts(order),
                 base |-> GenerateNodeAffinity(order), tolerations |-> Tolerations(order), tasks |-> <<>>]
    /\ UNCHANGED order

TasksLeft == built # NothingBuilt /\ Len(built.tasks) < Len(order.images)

\* Mutant: the base affinity is changed in place (no DeepCopy).
BuildTask_InPlace ==
    /\ TasksLeft
    /\ LET new == GenerateArchitectureNodeAffinity(order.images[Len(built.tasks) + 1], built.base)
       IN  built' = [built EXCEPT !.base = new, !.tasks = Append(@, new)]
    /\ UNCHANGED order

\* generatePodSpecForParallelJob, or the one pod of the other jobs.
BuildTask ==
    /\ TasksLeft
    /\ built' = [built EXCEPT !.tasks = Append(@, GenerateArchitectureNodeAffinity(
                                                    order.images[Len(@) + 1], built.base))]
    /\ UNCHANGED order

PodSpecNext == BuildCommon \/ BuildTask

PodSpecSpec == PodSpecInit /\ [][PodSpecNext]_podSpecVars

-----------------------------------------------------------------------------
(* Properties *)

\* A node: its architecture, and the keys of the request's selector that it has.
Admits(affinity, node) ==
    affinity.required = {} \/ \E term \in affinity.required : term \subseteq node

\* The pods of a job can run.  The API server takes a pod only if its volumes have
\* names of their own and every mount has its volume; and each task runs on the
\* nodes that the user selected and that its own image can run on, whatever the
\* images of the tasks built before it.
PodsCanRun ==
    /\ built # NothingBuilt => /\ IsInjective(built.volumes)
                               /\ ToSet(built.mounts) = ToSet(built.volumes)
    /\ \A i \in DOMAIN built.tasks, arch \in Machine, keys \in SUBSET SelectorKeys :
          LET runs == order.images[i] = Machine \/ order.images[i] = {arch}
                      \/ (order.images[i] = {} /\ arch = "amd64")
          IN  Admits(built.tasks[i], keys \cup {arch}) <=> runs /\ order.selector \subseteq keys

-----------------------------------------------------------------------------
(* What is inductive of it. *)

VolumeNames == {ReadOnlyClaim, SharedClaim, "cache", "start", "bash"}
Affinities  == [required : SUBSET SUBSET (SelectorKeys \cup Machine),
                preferred : SUBSET {"no-gpu", "no-infiniband"}]
PodSpec     == [volumes : Seq(VolumeNames), mounts : Seq(VolumeNames), base : Affinities,
                tolerations : SUBSET {"crater.raids.io/account"}, tasks : Seq(Affinities)]

PodSpecTypeOK == order \in Orders /\ built \in PodSpec

\* What is built is what the request asks for, and each task starts from the base.
BuiltAsOrdered ==
    /\ built # NothingBuilt => /\ built.volumes = GenerateVolumes(order)
                               /\ built.mounts = GenerateVolumeMounts(order)
                               /\ built.base = GenerateNodeAffinity(order)
    /\ Len(built.tasks) <= Len(order.images)
    /\ \A i \in DOMAIN built.tasks :
          built.tasks[i] = GenerateArchitectureNodeAffinity(order.images[i], GenerateNodeAffinity(order))

PodSpecInv == PodSpecTypeOK /\ BuiltAsOrdered
=============================================================================
