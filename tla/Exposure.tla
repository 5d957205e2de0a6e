------------------------------ MODULE Exposure ------------------------------
(***************************************************************************)
(* How the ports of a job's pods are reached from outside: services and    *)
(* ingresses, made by pkg/crclient/service.go for the creation of a job    *)
(* (vcjob/jupyter.go), for OpenSSH (vcjob/vcjob.go) and for the rules that *)
(* users make for a pod (tool/podcontainer.go).                            *)
(*                                                                         *)
(* A rule is one service and, unless it is a node port, the ingress that   *)
(* names it.  The two are separate objects; what one request makes or      *)
(* deletes of them is not undone when it fails.  All pods here belong to   *)
(* one job and carry the labels GenerateLabels keeps, so each of them sees *)
(* the rules of all.                                                       *)
(***************************************************************************)
EXTENDS Naturals, Sequences, FiniteSets

CONSTANTS Pods,         \* incarnations of the job's pod
          Ports,        \* container ports
          SSHPort,      \* the port of OpenSSH
          JobPorts,     \* the notebook's port and the ports forwarded by the job, in order
          Clients,      \* HTTP requests in progress at one time
          MaxRules,     \* bound: rules ever made
          MaxSlips      \* bound: calls to the API server that fail

ASSUME ExposureAssumption ==
    /\ "job" \notin Pods
    /\ SSHPort \in Ports /\ JobPorts \in Seq(Ports) \ {<<>>}
    /\ MaxRules \in Nat /\ MaxSlips \in Nat

VARIABLES
    workload,  \* the job: none, live, gone
    pod,       \* each incarnation: none, pending, running, gone
    sshRule,   \* the pod annotation with the SSH address: the rule it names
    rule,      \* services and ingresses
    client,    \* requests
    slips,     \* failing calls left
    seen,      \* pods whose annotation the manager's cache has
    crowded    \* history: pods for which two OpenSSH ran at one time, or one whose copy
               \* of the pod was older than the pod

exposureVars == <<workload, pod, sshRule, rule, client, slips, crowded, seen>>

-----------------------------------------------------------------------------
RuleIds == 1..MaxRules
NoRule == 0
TheJob == "job"
Unmade == [svc |-> "none", ing |-> FALSE, port |-> SSHPort, owner |-> TheJob, opened |-> TheJob]
AtRest == [pc |-> "idle"]

ExposureInit ==
    /\ workload = "none"
    /\ pod = [p \in Pods |-> "none"]
    /\ sshRule = [p \in Pods |-> NoRule]
    /\ rule = [r \in RuleIds |-> Unmade]
    /\ client = [c \in Clients |-> AtRest]
    /\ slips = MaxSlips
    /\ crowded = {} /\ seen = {}

Unused == {r \in RuleIds : rule[r].svc = "none"}
Exists(p) == pod[p] \in {"pending", "running"}
OwnerGone(r) == IF rule[r].owner = TheJob THEN workload = "gone" ELSE ~Exists(rule[r].owner)
SetClient(c, new) == client' = [client EXCEPT ![c] = new]

\* A call to the API server fails and the request is answered with the error.
Slip(c) ==
    /\ slips > 0
    /\ slips' = slips - 1
    /\ SetClient(c, AtRest)
    /\ UNCHANGED rule

\* A service with its own name; the owner reference is the job's or the pod's.
NewService(r, type, port, owner, opened) ==
    /\ r \in Unused /\ \A q \in Unused : r <= q
    /\ rule' = [rule EXCEPT ![r] = [svc |-> type, ing |-> FALSE, port |-> port,
                                    owner |-> owner, opened |-> opened]]

-----------------------------------------------------------------------------
(* The cluster *)

StartPod(p) ==
    /\ workload = "live" /\ pod[p] = "none" /\ \A q \in Pods : ~Exists(q)
    /\ pod' = [pod EXCEPT ![p] = "pending"]
    /\ UNCHANGED <<workload, sshRule, rule, client, slips, crowded, seen>>

RunPod(p) ==
    /\ pod[p] = "pending"
    /\ pod' = [pod EXCEPT ![p] = "running"]
    /\ UNCHANGED <<workload, sshRule, rule, client, slips, crowded, seen>>

LosePod(p) ==
    /\ Exists(p)
    /\ pod' = [pod EXCEPT ![p] = "gone"]
    /\ UNCHANGED <<workload, sshRule, rule, client, slips, crowded, seen>>

DeleteWorkload ==
    /\ workload = "live"
    /\ workload' = "gone"
    /\ pod' = [p \in Pods |-> IF Exists(p) THEN "gone" ELSE pod[p]]
    /\ UNCHANGED <<sshRule, rule, client, slips, crowded, seen>>

\* The garbage collector removes what has lost its owner.
CollectService(r) ==
    /\ rule[r].svc \in {"ClusterIP", "NodePort"} /\ OwnerGone(r)
    /\ rule' = [rule EXCEPT ![r].svc = "deleted"]
    /\ UNCHANGED <<workload, pod, sshRule, client, slips, crowded, seen>>

CollectIngress(r) ==
    /\ rule[r].ing /\ OwnerGone(r)
    /\ rule' = [rule EXCEPT ![r].ing = FALSE]
    /\ UNCHANGED <<workload, pod, sshRule, client, slips, crowded, seen>>

-----------------------------------------------------------------------------
(* Rules with an ingress *)

\* CreateJupyterJob: the job is created, then its rules one after the other.
CreateJupyterJob(c) ==
    /\ workload = "none" /\ client[c] = AtRest
    /\ workload' = "live"
    /\ SetClient(c, [pc |-> "service", todo |-> JobPorts, owner |-> TheJob])
    /\ UNCHANGED <<pod, sshRule, rule, slips, crowded, seen>>

\* CreatePodIngress: a name or a port that has a rule is not looked for.
CreatePodIngress(c, p, k) ==
    /\ client[c] = AtRest /\ Exists(p)
    /\ SetClient(c, [pc |-> "service", todo |-> <<k>>, owner |-> p])
    /\ UNCHANGED <<workload, pod, sshRule, rule, slips, crowded, seen>>

\* CreateIngress, CreateIngressWithPrefix: the service ...
CreateService(c, r) ==
    /\ client[c].pc = "service"
    /\ \/ /\ NewService(r, "ClusterIP", Head(client[c].todo), client[c].owner, client[c].owner)
          /\ SetClient(c, [pc |-> "ingress", todo |-> Tail(client[c].todo),
                           owner |-> client[c].owner, made |-> r])
          /\ UNCHANGED slips
       \/ Slip(c)
    /\ UNCHANGED <<workload, pod, sshRule, crowded, seen>>

\* ... and then the ingress, which is made even when the service has gone.
CreateIngress(c) ==
    /\ client[c].pc = "ingress"
    /\ \/ /\ rule' = [rule EXCEPT ![client[c].made].ing = TRUE]
          /\ SetClient(c, IF client[c].todo = <<>> THEN AtRest
                          ELSE [pc |-> "service", todo |-> client[c].todo, owner |-> client[c].owner])
          /\ UNCHANGED slips
       \/ Slip(c)
    /\ UNCHANGED <<workload, pod, sshRule, crowded, seen>>

\* getServiceForPort: some service of the port, of whichever pod of the job.
getServiceForPort(c, p, k, r) ==
    /\ client[c] = AtRest /\ Exists(p)
    /\ rule[r].svc = "ClusterIP" /\ rule[r].port = k
    /\ SetClient(c, [pc |-> "lookup", found |-> r])
    /\ UNCHANGED <<workload, pod, sshRule, rule, slips, crowded, seen>>

\* getIngressForService: without one the rule is not deleted.
getIngressForService(c) ==
    /\ client[c].pc = "lookup"
    /\ SetClient(c, IF rule[client[c].found].ing THEN [pc |-> "unserve", found |-> client[c].found]
                    ELSE AtRest)
    /\ UNCHANGED <<workload, pod, sshRule, rule, slips, crowded, seen>>

\* deleteService, deleteIngress: one that is gone already is a success.
deleteService(c) ==
    /\ client[c].pc = "unserve"
    /\ \/ /\ rule' = [rule EXCEPT ![client[c].found].svc = "deleted"]
          /\ SetClient(c, [pc |-> "unroute", found |-> client[c].found])
          /\ UNCHANGED slips
       \/ Slip(c)
    /\ UNCHANGED <<workload, pod, sshRule, crowded, seen>>

\* Mutant: the service is deleted and that is all.
deleteIngress_Forgotten(c) ==
    /\ client[c].pc = "unroute"
    /\ SetClient(c, AtRest)
    /\ UNCHANGED <<workload, pod, sshRule, rule, slips, crowded, seen>>

deleteIngress(c) ==
    /\ client[c].pc = "unroute"
    /\ \/ /\ rule' = [rule EXCEPT ![client[c].found].ing = FALSE]
          /\ SetClient(c, AtRest)
          /\ UNCHANGED slips
       \/ Slip(c)
    /\ UNCHANGED <<workload, pod, sshRule, crowded, seen>>

-----------------------------------------------------------------------------
(* Node ports *)

\* CreateNodePort, for a pod's rule: with the port kept for the user or with any
\* other.  The service stays when the address is not found, as for a pod that is
\* on no node yet.
CreatePodNodeport(c, p, k, r) ==
    /\ client[c] = AtRest /\ Exists(p)
    /\ NewService(r, "NodePort", k, p, p)
    /\ UNCHANGED <<workload, pod, sshRule, client, slips, crowded, seen>>

\* DeletePodNodeport: the SSH service of the job is a node port as well, and its
\* address stays in the annotation.
DeletePodNodeport(c, p, k, r) ==
    /\ client[c] = AtRest /\ Exists(p)
    /\ rule[r].svc = "NodePort" /\ rule[r].port = k
    /\ rule' = [rule EXCEPT ![r].svc = "deleted"]
    /\ UNCHANGED <<workload, pod, sshRule, client, slips, crowded, seen>>

\* The informer of the manager's client delivers the annotated pod.
CachePod(p) ==
    /\ sshRule[p] # NoRule /\ p \notin seen
    /\ seen' = seen \cup {p}
    /\ UNCHANGED <<workload, pod, sshRule, rule, client, slips, crowded>>

Opening(p) == \E d \in Clients : client[d].pc \in {"ssh", "annotate"} /\ client[d].ofPod = p

\* Mutant: the address that the annotation has is not looked for.
OpenSSH_Again(c, p) ==
    /\ client[c] = AtRest /\ pod[p] = "running"
    /\ SetClient(c, [pc |-> "ssh", ofPod |-> p])
    /\ crowded' = IF Opening(p) \/ (sshRule[p] # NoRule /\ p \notin seen) THEN crowded \cup {p} ELSE crowded
    /\ UNCHANGED <<workload, pod, sshRule, rule, slips, seen>>

\* OpenSSH: the annotation has the address, in the copy of the pod that the cache
\* has, or sshd is started in the pod ...
OpenSSH(c, p) ==
    /\ client[c] = AtRest /\ pod[p] = "running"
    /\ p \notin seen
    /\ SetClient(c, [pc |-> "ssh", ofPod |-> p])
    /\ crowded' = IF Opening(p) \/ sshRule[p] # NoRule THEN crowded \cup {p} ELSE crowded
    /\ UNCHANGED <<workload, pod, sshRule, rule, slips, seen>>

\* ... the service is made, of the job ...
CreateSSHService(c, r) ==
    /\ client[c].pc = "ssh"
    /\ \/ /\ NewService(r, "NodePort", SSHPort, TheJob, client[c].ofPod)
          /\ \/ /\ SetClient(c, [pc |-> "annotate", ofPod |-> client[c].ofPod, made |-> r])
                /\ UNCHANGED slips
             \/ /\ slips > 0 /\ slips' = slips - 1  \* the address is not found
                /\ SetClient(c, AtRest)
       \/ Slip(c)
    /\ UNCHANGED <<workload, pod, sshRule, crowded, seen>>

\* ... and the copy is written with the address, unless the pod is a later version,
\* whatever changed it: an error is logged.
AnnotatePod(c) ==
    /\ client[c].pc = "annotate"
    /\ LET p == client[c].ofPod IN
       \/ /\ Exists(p) /\ sshRule[p] = NoRule
          /\ sshRule' = [sshRule EXCEPT ![p] = client[c].made]
          /\ SetClient(c, AtRest)
          /\ UNCHANGED <<rule, slips, crowded>>
       \/ /\ crowded' = IF Exists(p) THEN crowded \cup {p} ELSE crowded
          /\ SetClient(c, AtRest)
          /\ UNCHANGED <<sshRule, rule, slips>>
       \/ Slip(c) /\ UNCHANGED <<sshRule, crowded>>
    /\ UNCHANGED <<workload, pod, seen>>

-----------------------------------------------------------------------------
ExposureNext ==
    \/ DeleteWorkload
    \/ \E p \in Pods : StartPod(p) \/ RunPod(p) \/ LosePod(p) \/ CachePod(p)
    \/ \E r \in RuleIds : CollectService(r) \/ CollectIngress(r)
    \/ \E c \in Clients : \/ CreateJupyterJob(c) \/ CreateIngress(c) \/ getIngressForService(c)
                          \/ deleteService(c) \/ deleteIngress(c) \/ AnnotatePod(c)
    \/ \E c \in Clients, r \in Unused : CreateService(c, r) \/ CreateSSHService(c, r)
    \/ \E c \in Clients, p \in Pods : OpenSSH(c, p)
    \/ \E c \in Clients, p \in Pods, k \in Ports : CreatePodIngress(c, p, k)
    \/ \E c \in Clients, p \in Pods, k \in Ports, r \in RuleIds :
          getServiceForPort(c, p, k, r) \/ CreatePodNodeport(c, p, k, r) \/ DeletePodNodeport(c, p, k, r)

ExposureSpec == ExposureInit /\ [][ExposureNext]_exposureVars

-----------------------------------------------------------------------------
(* Properties *)

Quiet == \A c \in Clients : client[c] = AtRest
NothingFailed == slips = MaxSlips

\* matchIngressesWithServices: the rules that GetPodIngresses shows for the job.
Shown == {r \in RuleIds : rule[r].svc = "ClusterIP" /\ rule[r].ing}

\* With no request in progress and no call failed, every service of a rule has
\* its ingress and every ingress its service, so that what DeletePodIngress
\* finds for a port is a rule that was shown.  Services and ingresses are made
\* and deleted one by one, by several requests at a time, on the same ports.
RulesWhole ==
    Quiet /\ NothingFailed =>
        \A r \in RuleIds : ~OwnerGone(r) /\ (rule[r].svc = "ClusterIP" \/ rule[r].ing) => r \in Shown

\* OpenSSH opens one node port for a pod, however often it is called, pods are replaced
\* and rules deleted: the service is found again by the annotation alone, so this needs
\* that no call fails, that two requests do not run at one time, and that the copy of the
\* pod that a request reads from the cache is not older than the pod, neither when it
\* looks for the annotation nor when it writes it.
SSHOpenedOnce ==
    NothingFailed => \A p \in Pods \ crowded :
        Cardinality({r \in RuleIds : rule[r].svc = "NodePort" /\ rule[r].opened = p
                                     /\ rule[r].owner = TheJob}) <= 1

-----------------------------------------------------------------------------
(* The inductive invariant *)

Owners == Pods \cup {TheJob}
Rule == [svc : {"none", "ClusterIP", "NodePort", "deleted"}, ing : BOOLEAN, port : Ports,
         owner : Owners, opened : Owners]
Call == [pc : {"service"}, todo : Seq(Ports) \ {<<>>}, owner : Owners]
        \cup [pc : {"ingress"}, todo : Seq(Ports), owner : Owners, made : RuleIds]
        \cup [pc : {"lookup", "unserve", "unroute"}, found : RuleIds]
        \cup [pc : {"ssh"}, ofPod : Pods]
        \cup [pc : {"annotate"}, ofPod : Pods, made : RuleIds]

ExposureTypeOK ==
    /\ workload \in {"none", "live", "gone"}
    /\ pod \in [Pods -> {"none", "pending", "running", "gone"}]
    /\ sshRule \in [Pods -> RuleIds \cup {NoRule}]
    /\ rule \in [RuleIds -> Rule]
    /\ client \in [Clients -> {AtRest} \cup Call]
    /\ slips \in 0..MaxSlips /\ crowded \in SUBSET Pods /\ seen \in SUBSET Pods

\* What owns a rule has been there: when it is gone it stays so.
Begun(o) == IF o = TheJob THEN workload # "none" ELSE pod[o] # "none"
Makes(c, r) == client[c].pc = "ingress" /\ client[c].made = r
Finds(c, r) == client[c].pc \in {"lookup", "unserve", "unroute"} /\ client[c].found = r
Deletes(c, r) == client[c].pc \in {"unserve", "unroute"} /\ client[c].found = r
Opens(c, p) == client[c].pc \in {"ssh", "annotate"} /\ client[c].ofPod = p

OwnersBegun ==
    /\ \A p \in Pods : pod[p] # "none" => workload # "none"
    /\ \A r \in RuleIds : rule[r].svc # "none" => Begun(rule[r].owner)
    /\ \A c \in Clients : client[c].pc \in {"service", "ingress"} => Begun(client[c].owner)
    /\ \A c \in Clients, p \in Pods : Opens(c, p) => pod[p] # "none"

\* Rules with an ingress and node ports are different services.
KindsApart ==
    /\ \A r \in RuleIds : rule[r].ing => rule[r].svc \in {"ClusterIP", "deleted"}
    /\ \A c \in Clients, r \in RuleIds :
          Makes(c, r) \/ Finds(c, r) => rule[r].svc \in {"ClusterIP", "deleted"}
    /\ \A c \in Clients, r \in RuleIds :
          client[c].pc = "unroute" /\ client[c].found = r => rule[r].svc = "deleted"

\* One request makes the ingress of a rule, before another can delete the rule.
OneMaker ==
    \A c \in Clients, r \in RuleIds : Makes(c, r) =>
        /\ ~rule[r].ing /\ (rule[r].svc = "ClusterIP" \/ OwnerGone(r))
        /\ \A d \in Clients \ {c} : ~Makes(d, r) /\ ~Deletes(d, r)

\* A rule of which one half is missing is being made or deleted.
HalvesAreInHand ==
    NothingFailed => \A r \in RuleIds : ~OwnerGone(r) =>
        /\ rule[r].svc = "ClusterIP" /\ ~rule[r].ing => \E c \in Clients : Makes(c, r)
        /\ rule[r].svc = "deleted" /\ rule[r].ing =>
              \E c \in Clients : client[c].pc = "unroute" /\ client[c].found = r

SSHRules(p) == {r \in RuleIds : rule[r].svc = "NodePort" /\ rule[r].opened = p /\ rule[r].owner = TheJob}

\* Two requests that open OpenSSH for one pod make it crowded.
OpenersMeet ==
    \A c, d \in Clients, p \in Pods : c # d /\ Opens(c, p) /\ Opens(d, p) => p \in crowded

\* OpenSSH makes a service when there is none.
OpenedByAnnotation ==
    NothingFailed => \A p \in Pods \ crowded :
        /\ \A c \in Clients : client[c].pc = "ssh" /\ client[c].ofPod = p => SSHRules(p) = {}
        /\ /\ pod[p] # "gone" /\ sshRule[p] = NoRule
           /\ \A c \in Clients : ~(client[c].pc = "annotate" /\ client[c].ofPod = p)
           => SSHRules(p) = {}
        /\ \A q, r \in SSHRules(p) : q = r

ExposureInv ==
    /\ ExposureTypeOK /\ OwnersBegun /\ KindsApart /\ OneMaker /\ HalvesAreInHand
    /\ OpenersMeet /\ OpenedByAnnotation
=============================================================================
