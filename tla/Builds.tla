------------------------------- MODULE Builds -------------------------------
(***************************************************************************)
(* Image builds: the requests that start, cancel and delete them           *)
(* (internal/handler/image/build.go, buildmgr.go, pkg/packer), the build   *)
(* job in the cluster, and BuildKitReconciler                              *)
(* (pkg/reconciler/build-reconciler.go), which keeps the build record (the *)
(* table kanikos) and makes the image row when the build has succeeded.    *)
(*                                                                         *)
(* Nothing is a transaction: each read, write and call is an action.  One  *)
(* name is reconciled by one goroutine at a time and again after an error. *)
(* The informer's delay is left out: an event that comes late comes.  The  *)
(* process may die and is started again: requests, Reconcile calls and the *)
(* queue are lost, and the jobs that are there are queued at the start.    *)
(***************************************************************************)
EXTENDS Naturals, FiniteSets

CONSTANTS Builds,          \* names of builds, unique by their random suffix
          Links,           \* image links; the user may name image and tag
          Platforms,       \* architectures of nodes and of images; "amd64" is one
          ClientSources, \* what clients say the source of an envd build is
          MaxBuildErrors   \* bound: failing calls of database, registry or cluster,
                           \* and deaths of the process

\* model.BuildSource; "Envd" is EnvdAdvanced or EnvdRaw.
Sources == {"PipApt", "Dockerfile", "Envd", "Snapshot"}

ASSUME BuildsAssumption ==
    /\ MaxBuildErrors \in Nat /\ Links # {} /\ "amd64" \in Platforms
    /\ ClientSources \subseteq Sources

VARIABLES
    ask,         \* what the request asks for
    creating,    \* the next call of the request
    made,        \* the image row as it is made; its owner may edit it later
    buildJob,    \* the job in the cluster, and whether its deletion was asked for
    script,      \* its config map
    link,        \* the link it pushes to
    kaniko,      \* the build record
    image,       \* the row of images made for the build
    artifact,    \* links that the registry holds
    buildQueue,  \* names queued for the reconciler
    build,       \* the Reconcile call in progress
    removal,     \* the remove request in progress
    buildErrors, \* failures left
    backend,     \* whether the process runs
    unseen       \* history: builds whose job was gone when the process was started

buildVars == <<ask, creating, made, buildJob, script, link, kaniko, image, artifact, buildQueue, build,
               removal, buildErrors, backend, unseen>>

-----------------------------------------------------------------------------
BuildEnded  == {"Finished", "Failed", "Canceled"}
BuildStatus == {"Initial", "Pending", "Running"} \cup BuildEnded

JobPhases == {"absent", "pending", "running", "succeeded", "failed", "gone"}
InCluster(b) == buildJob[b].phase \notin {"absent", "gone"}
JobEnded(b)  == buildJob[b].phase \in {"succeeded", "failed"}

Noted    == [source : Sources, archs : SUBSET Platforms]
Nothing  == [source |-> "Dockerfile", archs |-> {}]

Kaniko   == [state : {"none", "live", "deleted"}, status : BuildStatus, of : Noted]
NoKaniko == [state |-> "none", status |-> "Initial", of |-> Nothing]
HasRecord(b) == kaniko[b].state = "live"

BuildJob  == [phase : JobPhases, del : BOOLEAN, of : Noted]
Made      == [type : {"none", "custom", "jupyter"}, archs : SUBSET Platforms]
BuildCall == [pc : {"idle", "gone", "record", "insert", "size", "image", "status"},
              status : BuildStatus]
IdleBuild == [pc |-> "idle", status |-> "Initial"]

\* What is built: by which container, from which kind of script by name, for which
\* platforms (none when the request names none), whether the Dockerfile copies
\* requirements.txt, whether that file names the packages, and the platform of the
\* pod of a snapshot.
Builders  == {"buildkit", "envd", "nerdctl"}
BuildAsks == [builder : Builders, source : Sources, archs : SUBSET Platforms, copies : BOOLEAN,
              packages : BOOLEAN, node : Platforms]
NoAsk == [builder |-> "buildkit", source |-> "Dockerfile", archs |-> {}, copies |-> FALSE,
          packages |-> FALSE, node |-> "amd64"]

BuildTypeOK ==
    /\ ask \in [Builds -> BuildAsks]
    /\ creating \in [Builds -> {"new", "map", "job", "owner", "done"}]
    /\ made \in [Builds -> Made]
    /\ buildJob \in [Builds -> BuildJob]
    /\ script \in [Builds -> {"none", "loose", "owned"}]
    /\ link \in [Builds -> Links]
    /\ kaniko \in [Builds -> Kaniko]
    /\ image \in [Builds -> {"none", "live", "deleted"}]
    /\ artifact \subseteq Links
    /\ buildQueue \subseteq Builds
    /\ build \in [Builds -> BuildCall]
    /\ removal \in [Builds -> {"idle", "cancel", "image", "record", "artifact", "ended"}]
    /\ buildErrors \in 0..MaxBuildErrors
    /\ backend \in {"up", "down"} /\ unseen \subseteq Builds

BuildInit ==
    /\ ask = [b \in Builds |-> NoAsk]
    /\ creating = [b \in Builds |-> "new"]
    /\ made = [b \in Builds |-> [type |-> "none", archs |-> {}]]
    /\ buildJob = [b \in Builds |-> [phase |-> "absent", del |-> FALSE, of |-> Nothing]]
    /\ script = [b \in Builds |-> "none"]
    /\ link \in [Builds -> Links]
    /\ kaniko = [b \in Builds |-> NoKaniko]
    /\ image = [b \in Builds |-> "none"]
    /\ artifact = {}
    /\ buildQueue = {}
    /\ build = [b \in Builds |-> IdleBuild]
    /\ removal = [b \in Builds |-> "idle"]
    /\ buildErrors = MaxBuildErrors
    /\ backend = "up" /\ unseen = {}

BuildError == buildErrors > 0 /\ buildErrors' = buildErrors - 1
SameProcess == UNCHANGED <<backend, unseen>>

\* An event of the job.  A process that is down has no informer.
Enqueue(b) == buildQueue' = IF backend = "up" THEN buildQueue \cup {b} ELSE buildQueue

-----------------------------------------------------------------------------
(* Requests that start a build *)

\* generateDockerfile: Python packages make it copy requirements.txt.
generateDockerfile(py) == [NoAsk EXCEPT !.copies = py]

UserCreateByPipApt(archs, py) ==
    [generateDockerfile(py) EXCEPT !.source = "PipApt", !.archs = archs, !.packages = py]
UserCreateByDockerfile(archs) == [NoAsk EXCEPT !.archs = archs]

\* The source of an envd build is what the client says, which nobody checks.
UserCreateByEnvd(archs, source) ==
    [NoAsk EXCEPT !.builder = "envd", !.source = source, !.archs = archs]

\* AdminCreate hands on neither platforms nor requirements.
AdminCreate(py) == generateDockerfile(py)

\* CreateJupyterSnapshot: the pod runs on a node of some platform.
CreateJupyterSnapshot(node) ==
    [NoAsk EXCEPT !.builder = "nerdctl", !.source = "Snapshot", !.node = node]

UserRequests ==
    {UserCreateByPipApt(archs, py) : archs \in SUBSET Platforms, py \in BOOLEAN}
    \cup {UserCreateByDockerfile(archs) : archs \in SUBSET Platforms}
    \cup {UserCreateByEnvd(archs, source) : archs \in SUBSET Platforms, source \in ClientSources}
    \cup {AdminCreate(py) : py \in BOOLEAN}
    \cup {CreateJupyterSnapshot(node) : node \in Platforms}

CreateUnchanged == SameProcess /\ UNCHANGED <<link, kaniko, image, made, artifact, build, removal>>

\* buildFromDockerfile, buildFromEnvd: the user's project in the registry comes
\* first; nothing is made when it cannot be had.
BuildFrom(b, data) ==
    /\ backend = "up" /\ creating[b] = "new"
    /\ \/ /\ ask' = [ask EXCEPT ![b] = data]
          /\ creating' = [creating EXCEPT ![b] = IF data.builder = "nerdctl" THEN "job" ELSE "map"]
          /\ UNCHANGED buildErrors
       \/ BuildError /\ UNCHANGED <<ask, creating>>
    /\ UNCHANGED <<buildJob, script, buildQueue>>
    /\ CreateUnchanged

\* A call of the request fails: it ends, and nothing is undone.
CreateFails(b) ==
    /\ BuildError
    /\ creating' = [creating EXCEPT ![b] = "done"]
    /\ UNCHANGED <<ask, buildJob, script, buildQueue>>

\* createDockerfileConfigMap, createEnvdConfigMap: the script and the requirements.
createConfigMap(b) ==
    /\ creating[b] = "map"
    /\ \/ /\ script' = [script EXCEPT ![b] = "loose"]
          /\ creating' = [creating EXCEPT ![b] = "job"]
          /\ UNCHANGED <<ask, buildJob, buildQueue, buildErrors>>
       \/ CreateFails(b)
    /\ CreateUnchanged

\* createJob, createEnvdJob: its annotations hold all that the record will need.
\* Those of a snapshot name no platform.
Annotations(data) == [source |-> data.source, archs |-> data.archs]

createJob(b) ==
    /\ creating[b] = "job"
    /\ \/ /\ buildJob' = [buildJob EXCEPT ![b] =
                            [@ EXCEPT !.phase = "pending", !.of = Annotations(ask[b])]]
          /\ creating' = [creating EXCEPT ![b] = IF ask[b].builder = "nerdctl" THEN "done" ELSE "owner"]
          /\ Enqueue(b)
          /\ UNCHANGED <<ask, script, buildErrors>>
       \/ CreateFails(b)
    /\ CreateUnchanged

\* updateOwnerReference: from here on the map goes with the job.
updateOwnerReference(b) ==
    /\ creating[b] = "owner"
    /\ \/ /\ script' = [script EXCEPT ![b] = IF InCluster(b) THEN "owned" ELSE "none"]
          /\ creating' = [creating EXCEPT ![b] = "done"]
          /\ UNCHANGED <<ask, buildJob, buildQueue, buildErrors>>
       \/ CreateFails(b)
    /\ CreateUnchanged

\* Mutant: every build is for the builder's own platform.
generateBuildKitContainer_Amd(data) == {"amd64"}

\* What the container pushes.  buildx builds for the platforms of the request (and
\* its command line is broken without one), envd for one platform whatever was
\* asked, and a snapshot is of the pod's node.
generateBuildKitContainer(data) == data.archs
generateEnvdContainer(data)     == {"amd64"}
generateSnapshotContainer(data) == {data.node}

Pushes(data) ==
    CASE data.builder = "envd"    -> generateEnvdContainer(data)
      [] data.builder = "nerdctl" -> generateSnapshotContainer(data)
      [] OTHER                    -> generateBuildKitContainer(data)

\* The pod mounts the map: without it, it does not start.
Mounts(b) == ask[b].builder = "nerdctl" \/ script[b] # "none"

-----------------------------------------------------------------------------
(* The cluster *)

\* The pod starts, fails, or pushes the image and succeeds; it may still do so
\* when the job is to be deleted.
RunBuild(b, phase) ==
    /\ \/ buildJob[b].phase = "pending" /\ Mounts(b) /\ phase \in {"running", "failed"}
       \/ /\ buildJob[b].phase = "running"
          /\ phase \in {"succeeded", "failed"} /\ (phase = "succeeded" => Pushes(ask[b]) # {})
    /\ buildJob' = [buildJob EXCEPT ![b].phase = phase]
    /\ artifact' = IF phase = "succeeded" THEN artifact \cup {link[b]} ELSE artifact
    /\ Enqueue(b)
    /\ UNCHANGED <<ask, creating, made, script, link, kaniko, image, build, removal, buildErrors>>
    /\ SameProcess

\* The job is deleted for good: it was asked for, or it ended JobCleanTime ago.
DropBuildJob(b) ==
    /\ InCluster(b)
    /\ buildJob[b].del \/ JobEnded(b)
    /\ buildJob' = [buildJob EXCEPT ![b].phase = "gone"]
    /\ script' = [script EXCEPT ![b] = IF @ = "owned" THEN "none" ELSE @]
    /\ Enqueue(b)
    /\ UNCHANGED <<ask, creating, made, link, kaniko, image, artifact, build, removal, buildErrors>>
    /\ SameProcess

\* The informer's periodic resync queues every job once more.
Resync(b) ==
    /\ backend = "up" /\ InCluster(b) /\ b \notin buildQueue
    /\ Enqueue(b)
    /\ UNCHANGED <<ask, creating, made, buildJob, script, link, kaniko, image, artifact, build,
                   removal, buildErrors>>
    /\ SameProcess

-----------------------------------------------------------------------------
(* The process *)

\* The process dies: what was in its memory is lost.
StopBackend ==
    /\ backend = "up" /\ BuildError
    /\ backend' = "down"
    /\ creating' = [b \in Builds |-> IF creating[b] = "new" THEN "new" ELSE "done"]
    /\ buildQueue' = {}
    /\ build' = [b \in Builds |-> IdleBuild]
    /\ removal' = [b \in Builds |-> "idle"]
    /\ UNCHANGED <<ask, made, buildJob, script, link, kaniko, image, artifact, unseen>>

\* The manager starts: the informer lists the jobs that are there.
StartBackend ==
    /\ backend = "down"
    /\ backend' = "up"
    /\ buildQueue' = {b \in Builds : InCluster(b)}
    /\ unseen' = unseen \cup {b \in Builds : buildJob[b].phase = "gone"}
    /\ UNCHANGED <<ask, creating, made, buildJob, script, link, kaniko, image, artifact, build,
                   removal, buildErrors>>

-----------------------------------------------------------------------------
(* BuildKitReconciler *)

\* A job that is active is running when one of its pods, if they can be listed, is.
getJobBuildStatus(j, listed) ==
    CASE j.phase = "succeeded" -> "Finished"
      [] j.phase = "failed" -> "Failed"
      [] OTHER -> IF j.del THEN "Canceled"
                  ELSE IF j.phase = "running" /\ listed THEN "Running" ELSE "Pending"

SetBuild(b, pc) == build' = [build EXCEPT ![b].pc = pc]

\* A failed call: the error is returned and the name queued again.
RetryBuild(b) ==
    /\ BuildError
    /\ SetBuild(b, "idle")
    /\ Enqueue(b)
    /\ UNCHANGED <<kaniko, image, made>>

BuildUnchanged == SameProcess /\ UNCHANGED <<ask, creating, buildJob, script, link, artifact, removal>>

\* Reconcile reads the job, and its pods.
ReconcileBuild(b) ==
    /\ b \in buildQueue /\ build[b].pc = "idle"
    /\ buildQueue' = buildQueue \ {b}
    /\ \E listed \in BOOLEAN :
          /\ build' = [build EXCEPT ![b] =
                IF InCluster(b) THEN [pc |-> "record", status |-> getJobBuildStatus(buildJob[b], listed)]
                ELSE [pc |-> "gone", status |-> "Canceled"]]
          /\ IF listed THEN UNCHANGED buildErrors ELSE buildJob[b].phase = "running" /\ BuildError
    /\ UNCHANGED <<kaniko, image, made>>
    /\ BuildUnchanged

\* Mutant: a job that is gone is left as it is.
handleJobNotFound_Ignored(b) ==
    /\ build[b].pc = "gone"
    /\ SetBuild(b, "idle")
    /\ UNCHANGED <<buildQueue, kaniko, image, made, buildErrors>>
    /\ BuildUnchanged

\* The job is gone: a record that has not ended was canceled.
handleJobNotFound(b) ==
    /\ build[b].pc = "gone"
    /\ \/ /\ SetBuild(b, IF HasRecord(b) /\ kaniko[b].status \notin BuildEnded
                         THEN "status" ELSE "idle")
          /\ UNCHANGED <<buildQueue, kaniko, image, made, buildErrors>>
       \/ RetryBuild(b)
    /\ BuildUnchanged

\* Reconcile reads the record.
FetchRecord(b) ==
    /\ build[b].pc = "record"
    /\ \/ /\ SetBuild(b, IF ~HasRecord(b) THEN "insert"
                         ELSE IF build[b].status = "Finished" /\ kaniko[b].status # "Finished"
                              THEN "size" ELSE "status")
          /\ UNCHANGED <<buildQueue, kaniko, image, made, buildErrors>>
       \/ RetryBuild(b)
    /\ BuildUnchanged

\* A record for the job, from its annotations.  A failed insert is only logged, and
\* one for a name whose record was deleted fails on the unique index; without the
\* row of the user the name is tried again.
handleRecordNotFound(b) ==
    /\ build[b].pc = "insert"
    /\ \/ /\ kaniko' = [kaniko EXCEPT ![b] = IF @.state = "none"
                            THEN [NoKaniko EXCEPT !.state = "live", !.of = buildJob[b].of] ELSE @]
          /\ SetBuild(b, "idle")
          /\ UNCHANGED <<buildQueue, image, made, buildErrors>>
       \/ BuildError /\ SetBuild(b, "idle") /\ UNCHANGED <<buildQueue, kaniko, image, made>>
       \/ RetryBuild(b)
    /\ BuildUnchanged

\* GetImageSize and updateKanikoSize.  Without the artifact the registry has no size.
RecordSize(b) ==
    /\ build[b].pc = "size"
    /\ \/ link[b] \in artifact /\ SetBuild(b, "image")
          /\ UNCHANGED <<buildQueue, kaniko, image, made, buildErrors>>
       \/ link[b] \notin artifact /\ SetBuild(b, "idle") /\ Enqueue(b)
          /\ UNCHANGED <<kaniko, image, made, buildErrors>>
       \/ RetryBuild(b)
    /\ BuildUnchanged

\* createImageRecord: skipped when the row is there; the insert fails when the
\* user has deleted the row, whose name the unique index still holds.
createImageRecord(b) ==
    /\ build[b].pc = "image"
    /\ \/ /\ image[b] # "deleted"
          /\ image' = [image EXCEPT ![b] = "live"]
          /\ made' = IF image[b] = "live" THEN made
                     ELSE [made EXCEPT ![b] = [archs |-> kaniko[b].of.archs,
                               type |-> IF kaniko[b].of.source = "Snapshot" THEN "jupyter" ELSE "custom"]]
          /\ SetBuild(b, "status")
          /\ UNCHANGED <<buildQueue, kaniko, buildErrors>>
       \/ /\ image[b] = "deleted"
          /\ SetBuild(b, "idle") /\ Enqueue(b)
          /\ UNCHANGED <<kaniko, image, made, buildErrors>>
       \/ RetryBuild(b)
    /\ BuildUnchanged

\* updateKanikoStatus: no row is written when the record was deleted.
updateKanikoStatus(b) ==
    /\ build[b].pc = "status"
    /\ \/ /\ kaniko' = [kaniko EXCEPT ![b].status = IF HasRecord(b) THEN build[b].status ELSE @]
          /\ SetBuild(b, "idle")
          /\ UNCHANGED <<buildQueue, image, made, buildErrors>>
       \/ RetryBuild(b)
    /\ BuildUnchanged

-----------------------------------------------------------------------------
(* Requests that cancel and delete *)

RemovalUnchanged == SameProcess /\ UNCHANGED <<ask, creating, made, script, link, build>>

\* removeKanikoByID: a record that has ended is deleted, the job of another one.
\* deleteKanikoByID reads the record again, and a finished one takes the image along.
removeKanikoByID(b) ==
    /\ backend = "up" /\ removal[b] = "idle" /\ HasRecord(b)
    /\ removal' = [removal EXCEPT ![b] =
                      CASE kaniko[b].status = "Finished" -> "image"
                        [] kaniko[b].status \in {"Failed", "Canceled"} -> "ended"
                        [] OTHER -> "cancel"]
    /\ UNCHANGED <<buildJob, kaniko, image, artifact, buildQueue, buildErrors>>
    /\ RemovalUnchanged

\* DeleteJob: in the foreground, so the job stays while its pod is stopped.  An
\* error, as for a job that is gone, is only logged.
CancelBuild(b) ==
    /\ removal[b] = "cancel"
    /\ \/ /\ buildJob' = [buildJob EXCEPT ![b].del = @ \/ InCluster(b)]
          /\ Enqueue(b)
          /\ UNCHANGED buildErrors
       \/ BuildError /\ UNCHANGED <<buildJob, buildQueue>>
    /\ removal' = [removal EXCEPT ![b] = "idle"]
    /\ UNCHANGED <<kaniko, image, artifact>>
    /\ RemovalUnchanged

\* The image row of a finished build; an error is only logged.
RemoveImageRow(b) ==
    /\ removal[b] = "image"
    /\ \/ image' = [image EXCEPT ![b] = IF @ = "live" THEN "deleted" ELSE @] /\ UNCHANGED buildErrors
       \/ BuildError /\ UNCHANGED image
    /\ removal' = [removal EXCEPT ![b] = "record"]
    /\ UNCHANGED <<buildJob, kaniko, artifact, buildQueue>>
    /\ RemovalUnchanged

\* The record; an error ends the request, and the artifact stays.
RemoveRecord(b) ==
    /\ removal[b] \in {"record", "ended"}
    /\ \/ /\ kaniko' = [kaniko EXCEPT ![b].state = "deleted"]
          /\ removal' = [removal EXCEPT ![b] = IF @ = "record" THEN "artifact" ELSE "idle"]
          /\ UNCHANGED buildErrors
       \/ /\ BuildError
          /\ removal' = [removal EXCEPT ![b] = "idle"]
          /\ UNCHANGED kaniko
    /\ UNCHANGED <<buildJob, image, artifact, buildQueue>>
    /\ RemovalUnchanged

\* The artifact, whichever build pushed it last under this link.
RemoveArtifact(b) ==
    /\ removal[b] = "artifact"
    /\ \/ artifact' = artifact \ {link[b]} /\ UNCHANGED buildErrors
       \/ BuildError /\ UNCHANGED artifact
    /\ removal' = [removal EXCEPT ![b] = "idle"]
    /\ UNCHANGED <<buildJob, kaniko, image, buildQueue>>
    /\ RemovalUnchanged

\* DeleteImageByID, deleteImageByIDList: the row alone.
DeleteImageRow(b) ==
    /\ backend = "up" /\ image[b] = "live"
    /\ image' = [image EXCEPT ![b] = "deleted"]
    /\ UNCHANGED <<buildJob, kaniko, artifact, buildQueue, removal, buildErrors>>
    /\ RemovalUnchanged

\* The artifact goes: another build with this link, named by the user, is removed,
\* or the owner of the project deletes it in the registry.
LoseArtifact(b) ==
    /\ link[b] \in artifact
    /\ artifact' = artifact \ {link[b]}
    /\ UNCHANGED <<buildJob, kaniko, image, buildQueue, removal, buildErrors>>
    /\ RemovalUnchanged

-----------------------------------------------------------------------------
(* Pages *)

\* generateKanikoListResponse, for the user's and for the administrator's list: a
\* record without platforms is shown as one for amd64.
KanikoListed(b) ==
    [status |-> kaniko[b].status, source |-> kaniko[b].of.source,
     archs |-> IF kaniko[b].of.archs = {} THEN {"amd64"} ELSE kaniko[b].of.archs]

\* UserListKaniko, AdminListKaniko: the records, whatever their state.
AdminListKaniko == {b \in Builds : HasRecord(b)}

\* GetKanikoByImagePackName, for anyone who knows the name.  getPodName finds the pod
\* by the label that the job gives it.
getPodName(b) == IF InCluster(b) THEN b ELSE "none"
GetKanikoByImagePackName(b) ==
    [status |-> kaniko[b].status, source |-> kaniko[b].of.source, pod |-> getPodName(b)]

-----------------------------------------------------------------------------
StartBuild(b) ==
    \/ \E data \in UserRequests : BuildFrom(b, data)
    \/ createConfigMap(b) \/ createJob(b) \/ updateOwnerReference(b)
BuildReconciles(b) ==
    \/ ReconcileBuild(b) \/ handleJobNotFound(b) \/ FetchRecord(b) \/ handleRecordNotFound(b)
    \/ RecordSize(b) \/ createImageRecord(b) \/ updateKanikoStatus(b)
RemoveBuild(b)  ==
    \/ removeKanikoByID(b) \/ CancelBuild(b) \/ RemoveImageRow(b)
    \/ RemoveRecord(b) \/ RemoveArtifact(b)
BuildCluster(b) ==
    \/ \E phase \in {"running", "succeeded", "failed"} : RunBuild(b, phase)
    \/ DropBuildJob(b)
    \/ Resync(b)

BuildNext ==
    \/ \E b \in Builds :
          \/ StartBuild(b) \/ BuildReconciles(b) \/ RemoveBuild(b) \/ BuildCluster(b)
          \/ DeleteImageRow(b) \/ LoseArtifact(b)
    \/ StopBackend \/ StartBackend

BuildSpec == BuildInit /\ [][BuildNext]_buildVars

\* The reconciler's goroutines run, pods end, the cluster deletes what it has to
\* and starts the process again.  Requests may never come.
BuildFairSpec ==
    /\ BuildSpec
    /\ WF_buildVars(StartBackend)
    /\ \A b \in Builds :
          /\ WF_buildVars(ReconcileBuild(b))
          /\ WF_buildVars(handleJobNotFound(b) \/ FetchRecord(b) \/ handleRecordNotFound(b)
                          \/ RecordSize(b) \/ createImageRecord(b) \/ updateKanikoStatus(b))
          /\ WF_buildVars(\E phase \in {"running", "succeeded", "failed"} : RunBuild(b, phase))
          /\ WF_buildVars(DropBuildJob(b))

-----------------------------------------------------------------------------
(* Properties *)

\* What the pages and the image row say of a finished build is what its container
\* pushed.  Request, annotations, record and row are written by four parties, after
\* failures and retries, and the row is there because Reconcile writes the status
\* last.  A build with buildkit is shown with its platforms and has the packages it
\* was asked for; it is no image for notebooks, and a snapshot is one.  (The platform
\* of envd builds and snapshots is not the one that is shown, and the kind of image
\* that an envd build becomes is for the client to say.)
ShownIsBuilt == \A b \in AdminListKaniko :
    KanikoListed(b).status = "Finished" =>
        /\ GetKanikoByImagePackName(b).source = ask[b].source
        /\ ask[b].builder # "envd" =>
              made[b].type = (IF ask[b].builder = "nerdctl" THEN "jupyter" ELSE "custom")
        /\ ask[b].builder = "buildkit" =>
              /\ KanikoListed(b).archs = Pushes(ask[b])
              /\ made[b].archs = Pushes(ask[b])
              /\ ask[b].copies => ask[b].packages

\* A build that was recorded comes to an end in the table too, whatever failed
\* in between: an insert that was only logged, a registry that does not answer,
\* an image row deleted too early, a job deleted by its user or after 3 days, a
\* process that died.  Only the record of a job that was gone by the time the process
\* was started again stays as it is: no event tells of such a job.
BuildSettles == \A b \in Builds :
    HasRecord(b) ~> (kaniko[b].status \in BuildEnded \/ ~HasRecord(b) \/ b \in unseen)

-----------------------------------------------------------------------------
(* The inductive invariant behind ShownIsBuilt. *)

\* Only a request whose build cannot start lacks packages that it copies, and only
\* the client of an envd build chooses its source.
Sound(data) ==
    /\ data.copies /\ ~data.packages => data.archs = {}
    /\ data.builder # "envd" => (data.source = "Snapshot" <=> data.builder = "nerdctl")
Buildable(b) == Sound(ask[b])

\* The image row was made of what the request asked for.
MadeFrom(b) ==
    made[b] = [archs |-> ask[b].archs,
               type |-> IF ask[b].source = "Snapshot" THEN "jupyter" ELSE "custom"]

\* The request is handed on unchanged: to the job, to the record, to the row; and
\* a build that succeeded is known to have pushed something.
HandedOn(b) ==
    /\ Buildable(b)
    /\ creating[b] \in {"new", "map", "job"} => buildJob[b].phase = "absent"
    /\ buildJob[b].phase = "absent" => kaniko[b].state = "none" /\ build[b].pc \in {"idle", "gone"}
    /\ buildJob[b].phase # "absent" => buildJob[b].of = Annotations(ask[b])
    /\ kaniko[b].state # "none" => kaniko[b].of = Annotations(ask[b])
    /\ kaniko[b].state = "none" => /\ kaniko[b].status = "Initial" /\ image[b] = "none" /\ removal[b] = "idle"
                                   /\ build[b].pc \notin {"size", "image", "status"}
    /\ buildJob[b].phase = "succeeded" => Pushes(ask[b]) # {}
    /\ build[b].pc # "idle" /\ build[b].status = "Finished" => Pushes(ask[b]) # {}
    /\ image[b] # "none" => MadeFrom(b)
    /\ build[b].pc \in {"size", "image"} => build[b].status = "Finished"
    /\ build[b].pc = "status" /\ build[b].status = "Finished" => MadeFrom(b)
    /\ build[b].pc = "gone" => build[b].status = "Canceled"
    /\ kaniko[b].status = "Finished" => MadeFrom(b) /\ Pushes(ask[b]) # {}

BuildInv == BuildTypeOK /\ \A b \in Builds : HandedOn(b)
=============================================================================
