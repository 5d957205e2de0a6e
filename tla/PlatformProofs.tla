--------------------------- MODULE PlatformProofs ---------------------------
(***************************************************************************)
(* Image builds, shares of images, and marks on nodes: what the pages show *)
(* of a finished build is what was asked for and built, taking back a      *)
(* share takes effect, and a change of a node keeps the marks that others  *)
(* made - for every set of builds, users, requests and marks.              *)
(***************************************************************************)
EXTENDS Builds, Images, Nodes, WellFoundedInduction, TLAPS

-----------------------------------------------------------------------------
(* The values that the steps write. *)

\* What may be asked for, and that nobody asks at once for platforms and for a
\* build that copies a file without packages (AdminCreate asks for no platform);
\* and whose the source is.
LEMMA RequestsSound ==
    ASSUME NEW data \in UserRequests
    PROVE  data \in BuildAsks /\ Sound(data)
  <1>1. NoAsk \in BuildAsks
    BY BuildsAssumption DEF NoAsk, BuildAsks, Builders, Sources, Sound
  <1>2. ASSUME NEW archs \in SUBSET Platforms, NEW py \in BOOLEAN,
               data = UserCreateByPipApt(archs, py)
        PROVE  data \in BuildAsks /\ Sound(data)
    BY <1>2, BuildsAssumption DEF UserCreateByPipApt, generateDockerfile, NoAsk, BuildAsks, Builders, Sources, Sound
  <1>3. ASSUME NEW archs \in SUBSET Platforms,
               data = UserCreateByDockerfile(archs) \/ \E so \in ClientSources : data = UserCreateByEnvd(archs, so)
        PROVE  data \in BuildAsks /\ Sound(data)
    BY <1>3, BuildsAssumption DEF UserCreateByDockerfile, UserCreateByEnvd, NoAsk, BuildAsks, Builders, Sources, Sound
  <1>4. ASSUME NEW py \in BOOLEAN, data = AdminCreate(py)
        PROVE  data \in BuildAsks /\ Sound(data)
    BY <1>4, BuildsAssumption DEF AdminCreate, generateDockerfile, NoAsk, BuildAsks, Builders, Sources, Sound
  <1>5. ASSUME NEW pf \in Platforms, data = CreateJupyterSnapshot(pf)
        PROVE  data \in BuildAsks /\ Sound(data)
    BY <1>5, BuildsAssumption DEF CreateJupyterSnapshot, NoAsk, BuildAsks, Builders, Sources, Sound
  <1> QED
    BY <1>2, <1>3, <1>4, <1>5 DEF UserRequests

\* The shapes of build records, and of what the handlers change in them.
LEMMA KanikoShapes ==
    /\ NoKaniko \in Kaniko
    /\ \A k \in Kaniko, s \in BuildStatus : [k EXCEPT !.status = s] \in Kaniko
    /\ \A k \in Kaniko : [k EXCEPT !.state = "deleted"] \in Kaniko
    /\ \A o \in Noted : [NoKaniko EXCEPT !.state = "live", !.of = o] \in Kaniko
    /\ \A k \in Kaniko : k.of \in Noted /\ k.status \in BuildStatus
  BY DEF NoKaniko, Kaniko, Nothing, Noted, Sources, BuildStatus, BuildEnded

\* The shapes of build jobs.
LEMMA JobShapes ==
    /\ \A j \in BuildJob : j.of \in Noted /\ \A l \in BOOLEAN : getJobBuildStatus(j, l) \in BuildStatus
    /\ \A j \in BuildJob, p \in JobPhases : [j EXCEPT !.phase = p] \in BuildJob
    /\ \A j \in BuildJob, o \in Noted : [j EXCEPT !.phase = "pending", !.of = o] \in BuildJob
    /\ \A j \in BuildJob, d \in BOOLEAN : [j EXCEPT !.del = d] \in BuildJob
    /\ \A data \in BuildAsks : Annotations(data) \in Noted
  BY DEF BuildJob, JobPhases, getJobBuildStatus, BuildStatus, BuildEnded, BuildAsks, Noted, Annotations

BuildPcs == {"idle", "gone", "record", "insert", "size", "image", "status"}

\* The shapes of Reconcile calls.
LEMMA CallShapes ==
    /\ \A c \in BuildCall : c.status \in BuildStatus
    /\ \A c \in BuildCall, pc \in BuildPcs : [c EXCEPT !.pc = pc] \in BuildCall
    /\ \A s \in BuildStatus : [pc |-> "record", status |-> s] \in BuildCall
    /\ [pc |-> "gone", status |-> "Canceled"] \in BuildCall
  BY DEF BuildCall, BuildPcs, BuildStatus, BuildEnded

\* The shape of an image row (createImageRecord).
LEMMA MadeShapes ==
    \A o \in Noted : [archs |-> o.archs, type |-> IF o.source = "Snapshot" THEN "jupyter" ELSE "custom"] \in Made
  BY DEF Made, Noted

\* A failed call leaves the count in its range.
LEMMA ErrorsCounted ==
    ASSUME buildErrors \in 0..MaxBuildErrors, UNCHANGED buildErrors \/ BuildError
    PROVE  buildErrors' \in 0..MaxBuildErrors
  BY BuildsAssumption DEF BuildError

-----------------------------------------------------------------------------
(* Types *)

BuildStep(b) ==
    \/ StartBuild(b) \/ BuildReconciles(b) \/ RemoveBuild(b) \/ BuildCluster(b)
    \/ DeleteImageRow(b) \/ LoseArtifact(b)

\* A request that starts a build keeps the types.
LEMMA StartTypes ==
    ASSUME BuildTypeOK, NEW b \in Builds, StartBuild(b)
    PROVE  BuildTypeOK'
  <1>1. ASSUME NEW data \in UserRequests, BuildFrom(b, data) PROVE BuildTypeOK'
    <2>1. data \in BuildAsks
      BY RequestsSound
    <2>2. buildErrors' \in 0..MaxBuildErrors
      BY <1>1, ErrorsCounted DEF BuildFrom, BuildTypeOK
    <2> QED
      BY <1>1, <2>1, <2>2 DEF BuildFrom, CreateUnchanged, SameProcess, BuildTypeOK
  <1>2. CASE createConfigMap(b)
    <2>1. buildErrors' \in 0..MaxBuildErrors
      BY <1>2, ErrorsCounted DEF createConfigMap, CreateFails, BuildTypeOK
    <2> QED
      BY <1>2, <2>1 DEF createConfigMap, CreateFails, CreateUnchanged, SameProcess, BuildTypeOK
  <1>3. CASE createJob(b)
    <2>1. buildErrors' \in 0..MaxBuildErrors
      BY <1>3, ErrorsCounted DEF createJob, CreateFails, BuildTypeOK
    <2>2. [buildJob[b] EXCEPT !.phase = "pending", !.of = Annotations(ask[b])] \in BuildJob
      BY JobShapes DEF BuildTypeOK
    <2> QED
      BY <1>3, <2>1, <2>2 DEF createJob, CreateFails, CreateUnchanged, SameProcess, Enqueue, BuildTypeOK
  <1>4. CASE updateOwnerReference(b)
    <2>1. buildErrors' \in 0..MaxBuildErrors
      BY <1>4, ErrorsCounted DEF updateOwnerReference, CreateFails, BuildTypeOK
    <2> QED
      BY <1>4, <2>1 DEF updateOwnerReference, CreateFails, CreateUnchanged, SameProcess, BuildTypeOK
  <1> QED
    BY <1>1, <1>2, <1>3, <1>4 DEF StartBuild

\* The reconciler keeps the types.
LEMMA ReconcilerTypes ==
    ASSUME BuildTypeOK, NEW b \in Builds, BuildReconciles(b)
    PROVE  BuildTypeOK'

  <1>1. buildErrors' \in 0..MaxBuildErrors
    BY ErrorsCounted DEF BuildTypeOK, BuildReconciles, ReconcileBuild, handleJobNotFound, FetchRecord,
       handleRecordNotFound, RecordSize, createImageRecord, updateKanikoStatus, RetryBuild
  <1>2. buildQueue' \subseteq Builds
    BY DEF BuildTypeOK, BuildReconciles, ReconcileBuild, handleJobNotFound, FetchRecord, Enqueue,
       handleRecordNotFound, RecordSize, createImageRecord, updateKanikoStatus, RetryBuild
  <1>3. BuildUnchanged
    BY DEF BuildReconciles, ReconcileBuild, handleJobNotFound, FetchRecord,
       handleRecordNotFound, RecordSize, createImageRecord, updateKanikoStatus
  <1>4. build' \in [Builds -> BuildCall]
    <2>1. CASE ReconcileBuild(b)
      <3>1. PICK l \in BOOLEAN : build' = [build EXCEPT ![b] =
                IF InCluster(b) THEN [pc |-> "record", status |-> getJobBuildStatus(buildJob[b], l)]
                ELSE [pc |-> "gone", status |-> "Canceled"]]
        BY <2>1 DEF ReconcileBuild
      <3>2. [pc |-> "record", status |-> getJobBuildStatus(buildJob[b], l)] \in BuildCall
        BY JobShapes, CallShapes DEF BuildTypeOK
      <3> QED
        BY <3>1, <3>2, CallShapes DEF BuildTypeOK
    <2>2. CASE ~ReconcileBuild(b)
      <3>1. PICK pc \in BuildPcs : SetBuild(b, pc)
        BY <2>2 DEF BuildPcs, BuildReconciles, handleJobNotFound, FetchRecord,
           handleRecordNotFound, RecordSize, createImageRecord, updateKanikoStatus, RetryBuild
      <3> QED
        BY <3>1, CallShapes DEF SetBuild, BuildTypeOK
    <2> QED
      BY <2>1, <2>2
  <1>5. kaniko' \in [Builds -> Kaniko]
    <2>1. CASE handleRecordNotFound(b)
      <3>1. [NoKaniko EXCEPT !.state = "live", !.of = buildJob[b].of] \in Kaniko
        BY KanikoShapes, JobShapes DEF BuildTypeOK
      <3> QED
        BY <2>1, <3>1 DEF handleRecordNotFound, RetryBuild, BuildTypeOK
    <2>2. CASE updateKanikoStatus(b)
      <3>1. [kaniko[b] EXCEPT !.status = build[b].status] \in Kaniko
        BY KanikoShapes, CallShapes DEF BuildTypeOK
      <3>2. [kaniko[b] EXCEPT !.status = kaniko[b].status] \in Kaniko
        BY KanikoShapes DEF BuildTypeOK
      <3> QED
        BY <2>2, <3>1, <3>2 DEF updateKanikoStatus, RetryBuild, BuildTypeOK
    <2>3. CASE ~handleRecordNotFound(b) /\ ~updateKanikoStatus(b)
      BY <2>3 DEF BuildTypeOK, BuildReconciles, ReconcileBuild, handleJobNotFound, FetchRecord,
         RecordSize, createImageRecord, RetryBuild
    <2> QED
      BY <2>1, <2>2, <2>3
  <1>6. image' \in [Builds -> {"none", "live", "deleted"}]
    BY DEF BuildTypeOK, BuildReconciles, ReconcileBuild, handleJobNotFound, FetchRecord,
       handleRecordNotFound, RecordSize, createImageRecord, updateKanikoStatus, RetryBuild
  <1>7. made' \in [Builds -> Made]
    <2>1. [archs |-> kaniko[b].of.archs,
           type |-> IF kaniko[b].of.source = "Snapshot" THEN "jupyter" ELSE "custom"] \in Made
      BY KanikoShapes, MadeShapes DEF BuildTypeOK
    <2> QED
      BY <2>1 DEF BuildTypeOK, BuildReconciles, ReconcileBuild, handleJobNotFound, FetchRecord,
         handleRecordNotFound, RecordSize, createImageRecord, updateKanikoStatus, RetryBuild
  <1> QED
    BY <1>1, <1>2, <1>3, <1>4, <1>5, <1>6, <1>7 DEF BuildUnchanged, SameProcess, BuildTypeOK

\* Removals and the cluster keep the types.
LEMMA OtherTypes ==
    ASSUME BuildTypeOK, NEW b \in Builds,
           RemoveBuild(b) \/ BuildCluster(b) \/ DeleteImageRow(b) \/ LoseArtifact(b)
    PROVE  BuildTypeOK'
  <1>1. CASE removeKanikoByID(b)
    BY <1>1 DEF removeKanikoByID, RemovalUnchanged, SameProcess, BuildTypeOK
  <1>2. CASE CancelBuild(b)
    <2>1. [buildJob[b] EXCEPT !.del = buildJob[b].del \/ InCluster(b)] \in BuildJob
      BY JobShapes DEF BuildTypeOK, BuildJob
    <2>2. buildErrors' \in 0..MaxBuildErrors
      BY <1>2, ErrorsCounted DEF CancelBuild, BuildTypeOK
    <2> QED
      BY <1>2, <2>1, <2>2 DEF CancelBuild, Enqueue, RemovalUnchanged, SameProcess, BuildTypeOK
  <1>3. CASE RemoveImageRow(b)
    <2>1. buildErrors' \in 0..MaxBuildErrors
      BY <1>3, ErrorsCounted DEF RemoveImageRow, BuildTypeOK
    <2> QED
      BY <1>3, <2>1 DEF RemoveImageRow, RemovalUnchanged, SameProcess, BuildTypeOK
  <1>4. CASE RemoveRecord(b)
    <2>1. buildErrors' \in 0..MaxBuildErrors
      BY <1>4, ErrorsCounted DEF RemoveRecord, BuildTypeOK
    <2>2. [kaniko[b] EXCEPT !.state = "deleted"] \in Kaniko
      BY KanikoShapes DEF BuildTypeOK
    <2> QED
      BY <1>4, <2>1, <2>2 DEF RemoveRecord, RemovalUnchanged, SameProcess, BuildTypeOK
  <1>5. CASE RemoveArtifact(b)
    <2>1. buildErrors' \in 0..MaxBuildErrors
      BY <1>5, ErrorsCounted DEF RemoveArtifact, BuildTypeOK
    <2> QED
      BY <1>5, <2>1 DEF RemoveArtifact, RemovalUnchanged, SameProcess, BuildTypeOK
  <1>6. ASSUME NEW phase \in {"running", "succeeded", "failed"}, RunBuild(b, phase) PROVE BuildTypeOK'
    <2>1. [buildJob[b] EXCEPT !.phase = phase] \in BuildJob
      BY JobShapes DEF BuildTypeOK, JobPhases
    <2> QED
      BY <1>6, <2>1 DEF RunBuild, Enqueue, SameProcess, BuildTypeOK
  <1>7. CASE DropBuildJob(b)
    <2>1. [buildJob[b] EXCEPT !.phase = "gone"] \in BuildJob
      BY JobShapes DEF BuildTypeOK, JobPhases
    <2> QED
      BY <1>7, <2>1 DEF DropBuildJob, Enqueue, SameProcess, BuildTypeOK
  <1>8. CASE Resync(b)
    BY <1>8 DEF Resync, Enqueue, SameProcess, BuildTypeOK
  <1>9. CASE DeleteImageRow(b)
    BY <1>9 DEF DeleteImageRow, RemovalUnchanged, SameProcess, BuildTypeOK
  <1>10. CASE LoseArtifact(b)
    BY <1>10 DEF LoseArtifact, RemovalUnchanged, SameProcess, BuildTypeOK
  <1> QED
    BY <1>1, <1>2, <1>3, <1>4, <1>5, <1>6, <1>7, <1>8, <1>9, <1>10 DEF RemoveBuild, BuildCluster

\* The death and the start of the process keep the types.
LEMMA ProcessTypes ==
    ASSUME BuildTypeOK, StopBackend \/ StartBackend
    PROVE  BuildTypeOK'
  <1>1. CASE StopBackend
    <2>1. IdleBuild \in BuildCall
      BY DEF IdleBuild, BuildCall, BuildStatus
    <2>2. buildErrors' \in 0..MaxBuildErrors
      BY <1>1, ErrorsCounted DEF StopBackend, BuildTypeOK
    <2> QED
      BY <1>1, <2>1, <2>2 DEF StopBackend, BuildTypeOK
  <1>2. CASE StartBackend
    BY <1>2 DEF StartBackend, BuildTypeOK
  <1> QED
    BY <1>1, <1>2

-----------------------------------------------------------------------------
(* Nothing is lost on the way from the request to the page. *)

\* What HandedOn says of a build depends on these.
SameBuild(c) ==
    /\ ask'[c] = ask[c] /\ creating'[c] = creating[c] /\ buildJob'[c] = buildJob[c]
    /\ kaniko'[c] = kaniko[c] /\ build'[c] = build[c]
    /\ image'[c] = image[c] /\ made'[c] = made[c] /\ removal'[c] = removal[c]

\* What holds of a build that a step leaves alone holds after it.
LEMMA SameKeeps ==
    ASSUME NEW c \in Builds, HandedOn(c), SameBuild(c)
    PROVE  HandedOn(c)'
  BY DEF HandedOn, Buildable, Sound, MadeFrom, SameBuild

\* A step of one build leaves the others alone.
LEMMA OthersSame ==
    ASSUME BuildTypeOK, NEW b \in Builds, BuildStep(b), NEW c \in Builds, c # b
    PROVE  SameBuild(c)
  <1>1. CASE StartBuild(b)
    BY <1>1 DEF StartBuild, BuildFrom, createConfigMap, createJob, updateOwnerReference, CreateFails,
                CreateUnchanged, SameProcess, BuildTypeOK, SameBuild
  <1>2. CASE BuildReconciles(b)
    BY <1>2 DEF BuildReconciles, ReconcileBuild, handleJobNotFound, FetchRecord, handleRecordNotFound,
                RecordSize, createImageRecord, updateKanikoStatus, RetryBuild, SetBuild, BuildUnchanged,
                BuildTypeOK, SameBuild
  <1>3. CASE RemoveBuild(b)
    BY <1>3 DEF RemoveBuild, removeKanikoByID, CancelBuild, RemoveImageRow, RemoveRecord, RemoveArtifact,
                RemovalUnchanged, SameProcess, BuildTypeOK, SameBuild
  <1>4. CASE BuildCluster(b)
    BY <1>4 DEF BuildCluster, RunBuild, DropBuildJob, Resync, BuildTypeOK, SameBuild
  <1>5. CASE DeleteImageRow(b) \/ LoseArtifact(b)
    BY <1>5 DEF DeleteImageRow, LoseArtifact, RemovalUnchanged, SameProcess, BuildTypeOK, SameBuild
  <1> QED
    BY <1>1, <1>2, <1>3, <1>4, <1>5 DEF BuildStep

\* The request, on the way to its job.
LEMMA StartHandsOn ==
    ASSUME BuildTypeOK, NEW b \in Builds, HandedOn(b), StartBuild(b)
    PROVE  HandedOn(b)'
  <1>1. ASSUME NEW data \in UserRequests, BuildFrom(b, data) PROVE HandedOn(b)'
    <2>1. CASE UNCHANGED ask
      BY <1>1, <2>1 DEF BuildFrom, CreateUnchanged, HandedOn, Buildable, Sound, MadeFrom, BuildTypeOK
    <2>2. CASE ask' = [ask EXCEPT ![b] = data]
      <3>1. ask'[b] = data /\ Sound(data)
        BY <2>2, RequestsSound DEF BuildTypeOK
      <3>2. /\ buildJob[b].phase = "absent" /\ kaniko[b].state = "none" /\ image[b] = "none"
            /\ removal[b] = "idle"
            /\ kaniko[b].status = "Initial" /\ build[b].pc \in {"idle", "gone"}
            /\ build[b].pc = "gone" => build[b].status = "Canceled"
        BY <1>1 DEF BuildFrom, HandedOn
      <3>3. UNCHANGED <<buildJob, kaniko, image, made, build, removal>>
        BY <1>1 DEF BuildFrom, CreateUnchanged
      <3> QED
        BY <3>1, <3>2, <3>3 DEF HandedOn, Buildable, Sound
    <2> QED
      BY <1>1, <2>1, <2>2 DEF BuildFrom
  <1>2. CASE createConfigMap(b)
    BY <1>2 DEF createConfigMap, CreateFails, CreateUnchanged, HandedOn, Buildable, Sound, MadeFrom, BuildTypeOK
  <1>3. CASE createJob(b)
    <2>1. CASE UNCHANGED buildJob
      BY <1>3, <2>1 DEF createJob, CreateFails, CreateUnchanged, HandedOn, Buildable, Sound, MadeFrom, BuildTypeOK
    <2>2. CASE /\ buildJob' = [buildJob EXCEPT ![b] = [@ EXCEPT !.phase = "pending", !.of = Annotations(ask[b])]]
               /\ UNCHANGED ask
      <3>1. buildJob'[b].phase = "pending" /\ buildJob'[b].of = Annotations(ask[b])
        BY <2>2 DEF BuildTypeOK, BuildJob
      <3>2. creating'[b] \in {"done", "owner"} /\ UNCHANGED <<ask, kaniko, image, made, build, removal>>
        BY <1>3, <2>2 DEF createJob, CreateFails, CreateUnchanged, SameProcess, BuildTypeOK
      <3> QED
        BY <3>1, <3>2 DEF HandedOn, Buildable, Sound, MadeFrom
    <2>3. \/ UNCHANGED buildJob
          \/ /\ buildJob' = [buildJob EXCEPT ![b] = [@ EXCEPT !.phase = "pending", !.of = Annotations(ask[b])]]
             /\ UNCHANGED ask
      BY <1>3 DEF createJob, CreateFails
    <2> QED
      BY <2>1, <2>2, <2>3
  <1>4. CASE updateOwnerReference(b)
    <2>1. /\ creating'[b] \in {creating[b], "done"}
          /\ UNCHANGED <<ask, buildJob, kaniko, image, made, build, removal>>
      BY <1>4 DEF updateOwnerReference, CreateFails, CreateUnchanged, BuildTypeOK
    <2> QED
      BY <2>1 DEF HandedOn, Buildable, Sound, MadeFrom
  <1> QED
    BY <1>1, <1>2, <1>3, <1>4 DEF StartBuild

\* The reconciler, from the job to the record and the image row.
LEMMA ReconcilerHandsOn ==
    ASSUME BuildTypeOK, NEW b \in Builds, HandedOn(b), BuildReconciles(b)
    PROVE  HandedOn(b)'
  <1>1. UNCHANGED <<ask, creating, buildJob, removal>>
    BY DEF BuildReconciles, ReconcileBuild, handleJobNotFound, FetchRecord, handleRecordNotFound,
           RecordSize, createImageRecord, updateKanikoStatus, BuildUnchanged
  <1>2. CASE ReconcileBuild(b)
    <2>1. build'[b].status = "Finished" => buildJob[b].phase = "succeeded"
      BY <1>2 DEF ReconcileBuild, getJobBuildStatus, BuildTypeOK
    <2>2. \/ build'[b].pc = "record" /\ buildJob[b].phase # "absent"
          \/ build'[b].pc = "gone" /\ build'[b].status = "Canceled"
      BY <1>2 DEF ReconcileBuild, InCluster, BuildTypeOK
    <2>3. UNCHANGED <<kaniko, image, made>>
      BY <1>2 DEF ReconcileBuild
    <2> QED
      BY <1>1, <2>1, <2>2, <2>3 DEF HandedOn, Buildable, Sound, MadeFrom
  <1>3. CASE /\ UNCHANGED <<kaniko, image, made>>
             /\ build'[b].status = build[b].status
             /\ \/ build'[b].pc = "idle"
                \/ /\ build'[b].pc = "insert" /\ build[b].pc = "record"
                \/ /\ build'[b].pc \in {"size", "image"} /\ build[b].pc \in {"record", "size"}
                   /\ HasRecord(b) \/ build[b].pc = "size"
                   /\ build[b].status = "Finished"
                \/ /\ build'[b].pc = "status" /\ build[b].pc = "gone" /\ HasRecord(b)
                \/ /\ build'[b].pc = "status" /\ build[b].pc = "record" /\ HasRecord(b)
                   /\ build[b].status = "Finished" => kaniko[b].status = "Finished"
    BY <1>1, <1>3 DEF HandedOn, Buildable, Sound, MadeFrom, HasRecord
  <1>4. CASE handleJobNotFound(b)
    BY <1>3, <1>4 DEF handleJobNotFound, RetryBuild, SetBuild, BuildTypeOK, BuildCall
  <1>5. CASE FetchRecord(b)
    BY <1>3, <1>5 DEF FetchRecord, RetryBuild, SetBuild, BuildTypeOK, BuildCall
  <1>6. CASE RecordSize(b)
    BY <1>3, <1>6 DEF RecordSize, RetryBuild, SetBuild, BuildTypeOK, BuildCall, HandedOn
  <1>7. CASE handleRecordNotFound(b)
    <2>1. build'[b].pc = "idle" /\ UNCHANGED <<image, made>>
      BY <1>7 DEF handleRecordNotFound, RetryBuild, SetBuild, BuildTypeOK, BuildCall
    <2>2. \/ kaniko'[b] = kaniko[b]
          \/ kaniko[b].state = "none" /\ kaniko'[b] = [NoKaniko EXCEPT !.state = "live", !.of = buildJob[b].of]
      BY <1>7 DEF handleRecordNotFound, RetryBuild, BuildTypeOK
    <2>3. buildJob[b].phase # "absent"
      BY <1>7 DEF handleRecordNotFound, HandedOn
    <2>4. CASE kaniko'[b] = kaniko[b]
      BY <1>1, <2>1, <2>4 DEF HandedOn, Buildable, Sound, MadeFrom
    <2>5. CASE kaniko[b].state = "none" /\ kaniko'[b] = [NoKaniko EXCEPT !.state = "live", !.of = buildJob[b].of]
      <3>1. kaniko'[b].state = "live" /\ kaniko'[b].of = buildJob[b].of /\ kaniko'[b].status = "Initial"
        BY <2>5 DEF NoKaniko
      <3> QED
        BY <1>1, <2>1, <2>3, <2>5, <3>1 DEF HandedOn, Buildable, Sound, MadeFrom
    <2> QED
      BY <2>2, <2>4, <2>5
  <1>8. CASE createImageRecord(b)
    <2>1. UNCHANGED kaniko /\ build'[b].status = build[b].status /\ build[b].pc = "image"
      BY <1>8 DEF createImageRecord, RetryBuild, SetBuild, BuildTypeOK, BuildCall
    <2>2. \/ build'[b].pc = "idle" /\ UNCHANGED <<image, made>>
          \/ build'[b].pc = "status" /\ image'[b] = "live" /\ image[b] = "live" /\ made'[b] = made[b]
          \/ /\ build'[b].pc = "status" /\ image'[b] = "live"
             /\ made'[b] = [archs |-> kaniko[b].of.archs,
                            type |-> IF kaniko[b].of.source = "Snapshot" THEN "jupyter" ELSE "custom"]
      BY <1>8 DEF createImageRecord, RetryBuild, SetBuild, BuildTypeOK, BuildCall
    <2>3. /\ kaniko[b].of.archs = ask[b].archs /\ kaniko[b].of.source = ask[b].source
          /\ kaniko[b].state # "none" /\ buildJob[b].phase # "absent"
      BY <2>1 DEF HandedOn, Annotations
    <2>4. build'[b].pc = "status" => MadeFrom(b)'
      BY <1>1, <2>2, <2>3 DEF HandedOn, MadeFrom
    <2> QED
      BY <1>1, <2>1, <2>2, <2>3, <2>4 DEF HandedOn, Buildable, Sound, MadeFrom
  <1>9. CASE updateKanikoStatus(b)
    <2>1. /\ UNCHANGED <<image, made>> /\ build'[b].pc = "idle" /\ build[b].pc = "status"
      BY <1>9 DEF updateKanikoStatus, RetryBuild, SetBuild, BuildTypeOK, BuildCall
    <2>2. /\ kaniko'[b].state = kaniko[b].state /\ kaniko'[b].of = kaniko[b].of
          /\ kaniko'[b].status \in {kaniko[b].status, build[b].status}
      BY <1>9 DEF updateKanikoStatus, RetryBuild, BuildTypeOK, Kaniko
    <2>3. kaniko[b].state # "none"
      BY <2>1 DEF HandedOn
    <2> QED
      BY <1>1, <2>1, <2>2, <2>3 DEF HandedOn, Buildable, Sound, MadeFrom
  <1> QED
    BY <1>2, <1>4, <1>5, <1>6, <1>7, <1>8, <1>9 DEF BuildReconciles

\* Removals and the cluster.
LEMMA OthersHandOn ==
    ASSUME BuildTypeOK, NEW b \in Builds, HandedOn(b),
           RemoveBuild(b) \/ BuildCluster(b) \/ DeleteImageRow(b) \/ LoseArtifact(b)
    PROVE  HandedOn(b)'
  <1>1. CASE removeKanikoByID(b) \/ RemoveArtifact(b) \/ LoseArtifact(b)
    <2>1. /\ UNCHANGED <<ask, creating, made, build, kaniko, image, buildJob>>
          /\ removal'[b] = removal[b] \/ removal'[b] = "idle" \/ kaniko[b].state # "none"
      BY <1>1 DEF removeKanikoByID, RemoveArtifact, LoseArtifact, RemovalUnchanged, HasRecord, BuildTypeOK
    <2> QED
      BY <2>1 DEF HandedOn, Buildable, Sound, MadeFrom
  <1>2. CASE CancelBuild(b)
    <2>1. /\ buildJob'[b].phase = buildJob[b].phase /\ buildJob'[b].of = buildJob[b].of
          /\ UNCHANGED <<ask, creating, made, build, kaniko, image>> /\ removal'[b] = "idle"
      BY <1>2 DEF CancelBuild, RemovalUnchanged, SameProcess, BuildTypeOK, BuildJob
    <2> QED
      BY <2>1 DEF HandedOn, Buildable, Sound, MadeFrom
  <1>3. CASE RemoveImageRow(b) \/ DeleteImageRow(b)
    <2>1. /\ image'[b] \in {image[b], "deleted"}
          /\ image[b] = "none" => image'[b] = "none"
          /\ UNCHANGED <<ask, creating, made, build, kaniko, buildJob>>
          /\ removal'[b] = removal[b] \/ removal[b] = "image"
      BY <1>3 DEF RemoveImageRow, DeleteImageRow, RemovalUnchanged, SameProcess, BuildTypeOK
    <2> QED
      BY <2>1 DEF HandedOn, Buildable, Sound, MadeFrom
  <1>4. CASE RemoveRecord(b)
    <2>1. /\ kaniko'[b].of = kaniko[b].of /\ kaniko'[b].status = kaniko[b].status
          /\ kaniko'[b].state \in {kaniko[b].state, "deleted"}
          /\ UNCHANGED <<ask, creating, made, build, image, buildJob>>
          /\ removal[b] # "idle"
      BY <1>4 DEF RemoveRecord, RemovalUnchanged, SameProcess, BuildTypeOK, Kaniko
    <2> QED
      BY <2>1 DEF HandedOn, Buildable, Sound, MadeFrom
  <1>5. ASSUME NEW phase \in {"running", "succeeded", "failed"}, RunBuild(b, phase) PROVE HandedOn(b)'
    <2>1. /\ buildJob'[b].of = buildJob[b].of /\ buildJob'[b].phase = phase /\ buildJob[b].phase # "absent"
          /\ UNCHANGED <<ask, creating, made, build, image, kaniko, removal>>
          /\ phase = "succeeded" => Pushes(ask[b]) # {}
      BY <1>5 DEF RunBuild, BuildTypeOK, BuildJob
    <2> QED
      BY <2>1 DEF HandedOn, Buildable, Sound, MadeFrom
  <1>6. CASE DropBuildJob(b)
    <2>1. /\ buildJob'[b].of = buildJob[b].of /\ buildJob'[b].phase = "gone" /\ buildJob[b].phase # "absent"
          /\ UNCHANGED <<ask, creating, made, build, image, kaniko, removal>>
      BY <1>6 DEF DropBuildJob, InCluster, BuildTypeOK, BuildJob
    <2> QED
      BY <2>1 DEF HandedOn, Buildable, Sound, MadeFrom
  <1>7. CASE Resync(b)
    BY <1>7 DEF Resync, HandedOn, Buildable, Sound, MadeFrom
  <1> QED
    BY <1>1, <1>2, <1>3, <1>4, <1>5, <1>6, <1>7 DEF RemoveBuild, BuildCluster

\* A process that dies or starts changes nothing that was handed on.
LEMMA ProcessHandsOn ==
    ASSUME BuildTypeOK, NEW b \in Builds, HandedOn(b), StopBackend \/ StartBackend
    PROVE  HandedOn(b)'
  <1>1. /\ UNCHANGED <<ask, made, buildJob, kaniko, image>>
        /\ creating'[b] = creating[b] \/ creating'[b] = "done"
        /\ build'[b] = build[b] \/ build'[b] = IdleBuild
        /\ removal'[b] = removal[b] \/ removal'[b] = "idle"
    BY DEF StopBackend, StartBackend, BuildTypeOK
  <1>2. IdleBuild.pc = "idle"
    BY DEF IdleBuild
  <1> QED
    BY <1>1, <1>2 DEF HandedOn, Buildable, Sound, MadeFrom

-----------------------------------------------------------------------------
\* What was asked for reaches job, record and row unchanged, in every
\* interleaving of the request, the reconciler, the cluster and the removals,
\* with any number of failing calls and deaths of the process (build-reconciler.go,
\* buildmgr.go).
THEOREM BuildInvariance == BuildSpec => []BuildInv
  <1>1. BuildInit => BuildInv
    <2> SUFFICES ASSUME BuildInit PROVE BuildInv
      OBVIOUS
    <2>1. BuildTypeOK
      <3>1. NoAsk \in BuildAsks /\ IdleBuild \in BuildCall
        BY BuildsAssumption DEF NoAsk, BuildAsks, Builders, Sources, IdleBuild, BuildCall, BuildStatus
      <3>2. [type |-> "none", archs |-> {}] \in Made
        BY DEF Made
      <3>3. [phase |-> "absent", del |-> FALSE, of |-> Nothing] \in BuildJob
        BY DEF BuildJob, JobPhases, Nothing, Noted, Sources
      <3>4. MaxBuildErrors \in 0..MaxBuildErrors
        BY BuildsAssumption
      <3> QED
        BY <3>1, <3>2, <3>3, <3>4, KanikoShapes DEF BuildInit, BuildTypeOK
    <2>2. ASSUME NEW b \in Builds PROVE HandedOn(b)
      BY DEF BuildInit, HandedOn, Buildable, Sound, NoAsk, NoKaniko, IdleBuild
    <2> QED
      BY <2>1, <2>2 DEF BuildInv
  <1>2. BuildInv /\ [BuildNext]_buildVars => BuildInv'
    <2> SUFFICES ASSUME BuildInv, [BuildNext]_buildVars PROVE BuildInv'
      OBVIOUS
    <2>1. ASSUME NEW b \in Builds, BuildStep(b) PROVE BuildInv'
      <3>1. BuildTypeOK'
        BY <2>1, StartTypes, ReconcilerTypes, OtherTypes DEF BuildInv, BuildStep
      <3>2. HandedOn(b)'
        BY <2>1, StartHandsOn, ReconcilerHandsOn, OthersHandOn DEF BuildInv, BuildStep
      <3>3. ASSUME NEW c \in Builds, c # b PROVE HandedOn(c)'
        BY <2>1, <3>3, OthersSame, SameKeeps DEF BuildInv
      <3> QED
        BY <3>1, <3>2, <3>3 DEF BuildInv
    <2>2. CASE StopBackend \/ StartBackend
      BY <2>2, ProcessTypes, ProcessHandsOn DEF BuildInv
    <2>3. CASE UNCHANGED buildVars
      <3>1. BuildTypeOK'
        BY <2>3 DEF buildVars, BuildInv, BuildTypeOK
      <3>2. ASSUME NEW c \in Builds PROVE HandedOn(c)'
        BY <2>3, SameKeeps DEF buildVars, BuildInv, SameBuild
      <3> QED
        BY <3>1, <3>2 DEF BuildInv
    <2> QED
      BY <2>1, <2>2, <2>3 DEF BuildNext, BuildStep
  <1> QED
    BY <1>1, <1>2, PTL DEF BuildSpec

\* The pages show a finished build as what was asked for, the row has its type and
\* its platforms, and no finished build was made from a script that copies a
\* file it did not have (generateKanikoListResponse, createImageRecord).
THEOREM BuildsShown == BuildSpec => []ShownIsBuilt
  <1>1. BuildInv => ShownIsBuilt
    <2> SUFFICES ASSUME BuildInv, NEW b \in AdminListKaniko, KanikoListed(b).status = "Finished"
                 PROVE  /\ GetKanikoByImagePackName(b).source = ask[b].source
                        /\ ask[b].builder # "envd" =>
                              made[b].type = (IF ask[b].builder = "nerdctl" THEN "jupyter" ELSE "custom")
                        /\ ask[b].builder = "buildkit" =>
                              /\ KanikoListed(b).archs = Pushes(ask[b])
                              /\ made[b].archs = Pushes(ask[b])
                              /\ ask[b].copies => ask[b].packages
      BY DEF ShownIsBuilt
    <2>1. b \in Builds /\ HandedOn(b) /\ kaniko[b].state = "live" /\ kaniko[b].status = "Finished"
      BY DEF AdminListKaniko, HasRecord, KanikoListed, BuildInv
    <2>2. /\ kaniko[b].of.archs = ask[b].archs /\ kaniko[b].of.source = ask[b].source
          /\ made[b].archs = ask[b].archs
          /\ made[b].type = IF ask[b].source = "Snapshot" THEN "jupyter" ELSE "custom"
          /\ Pushes(ask[b]) # {}
      BY <2>1 DEF HandedOn, MadeFrom, Annotations
    <2>3. ask[b].builder = "buildkit" => Pushes(ask[b]) = ask[b].archs
      BY DEF Pushes, generateBuildKitContainer
    <2>4. /\ ask[b].copies /\ ~ask[b].packages => ask[b].archs = {}
          /\ ask[b].builder # "envd" => (ask[b].source = "Snapshot" <=> ask[b].builder = "nerdctl")
      BY <2>1 DEF HandedOn, Buildable, Sound
    <2>5. ask[b] \in BuildAsks
      BY <2>1 DEF BuildInv, BuildTypeOK
    <2>6. ask[b].copies \in BOOLEAN /\ ask[b].packages \in BOOLEAN
      BY <2>5 DEF BuildAsks
    <2> QED
      BY <2>2, <2>3, <2>4, <2>6 DEF GetKanikoByImagePackName, KanikoListed
  <1> QED
    BY <1>1, BuildInvariance, PTL

-----------------------------------------------------------------------------
(* Shares of images. *)

\* Min of a set of ids is the least of them.
LEMMA MinIsLeast ==
    ASSUME NEW S, S \subseteq Nat, S # {}
    PROVE  Min(S) \in S /\ \A n \in S : Min(S) <= n
  <1>1. IsWellFoundedOn(OpToRel(<, Nat), Nat)
    BY NatLessThanWellFounded
  <1>2. PICK m \in S : \A n \in S : ~(<<n, m>> \in OpToRel(<, Nat))
    BY <1>1, WFMin
  <1>3. \A n \in S : m <= n
    <2> SUFFICES ASSUME NEW n \in S PROVE m <= n
      OBVIOUS
    <2>1. m \in Nat /\ n \in Nat
      OBVIOUS
    <2>2. OpToRel(<, Nat) = {ss \in Nat \X Nat : ss[1] < ss[2]}
      BY DEF OpToRel
    <2>3. ~(n < m)
      BY <1>2, <2>1, <2>2
    <2> QED
      BY <2>1, <2>3
  <1> QED
    BY <1>3 DEF Min

GrantRow == [state : {"none", "live", "deleted"}, img : ImageIds, to : Grantees]
PostRow  == [pc : {"idle", "insert", "publish", "hide", "public", "private"}, img : ImageIds, to : Grantees]
Picture  == [state : {"none", "live", "deleted"}, public : BOOLEAN]

\* The shapes of images, share rows and requests.
LEMMA ImageShapes ==
    /\ Everyone \in Grantees
    /\ NoGrant \in GrantRow /\ NoPost \in PostRow
    /\ \A i \in ImageIds, g \in Grantees : [state |-> "live", img |-> i, to |-> g] \in GrantRow
    /\ \A r \in GrantRow : [r EXCEPT !.state = "deleted"] \in GrantRow
    /\ \A q \in PostRow, pc \in {"public", "private"} : [q EXCEPT !.pc = pc] \in PostRow
    /\ \A pc \in {"insert", "publish", "hide"}, i \in ImageIds, g \in Grantees :
          [pc |-> pc, img |-> i, to |-> g] \in PostRow
    /\ \A q \in PostRow : q.img \in ImageIds /\ q.to \in Grantees
    /\ \A r \in GrantRow : r.img \in ImageIds /\ r.to \in Grantees
  <1>1. Everyone \in Grantees
    BY ImagesAssumption DEF Everyone, Grantees
  <1>2. (CHOOSE i \in ImageIds : TRUE) \in ImageIds
    BY ImagesAssumption
  <1> QED
    BY <1>1, <1>2 DEF NoGrant, NoPost, GrantRow, PostRow

\* The type invariant in terms of these shapes, before and after a step.
LEMMA Rows ==
    /\ ImagesTypeOK <=> /\ picture \in [ImageIds -> Picture]
                        /\ grant \in [RowIds -> GrantRow]
                        /\ post \in [Posts -> PostRow]
    /\ ImagesTypeOK' <=> /\ picture' \in [ImageIds -> Picture]
                         /\ grant' \in [RowIds -> GrantRow]
                         /\ post' \in [Posts -> PostRow]
  BY DEF ImagesTypeOK, Picture, GrantRow, PostRow

\* A step that makes no row live, and lets no request insert a share that is there
\* without a note, keeps the invariant.
LEMMA NothingGranted ==
    ASSUME ImagesInv, ImagesTypeOK', doubled \subseteq doubled',
           \A n \in RowIds : grant'[n].state = "live" => grant'[n] = grant[n],
           \A p \in Posts : \/ post'[p].pc \notin {"insert", "publish"}
                            \/ post'[p] = post[p]
                            \/ /\ \/ Grants(post'[p].img, post'[p].to) = {}
                                  \/ <<post'[p].img, post'[p].to>> \in doubled'
                               /\ post'[p].pc = "publish" => post'[p].to = Everyone
    PROVE  ImagesInv'
  <1>1. \A i \in ImageIds, g \in Grantees : Grants(i, g)' \subseteq Grants(i, g)
    BY DEF Grants
  <1>2. ASSUME NEW i \in ImageIds, NEW g \in Grantees, <<i, g>> \notin doubled' PROVE GrantedOnce(i, g)'
    <2>1. GrantedOnce(i, g)
      BY <1>2 DEF ImagesInv
    <2>2. \A n, m \in Grants(i, g)' : n = m
      BY <1>1, <2>1 DEF GrantedOnce
    <2>3. ASSUME NEW p \in Posts, Inserts(p, i, g)' PROVE Grants(i, g)' = {}
      BY <1>1, <1>2, <2>1, <2>3 DEF GrantedOnce, Inserts
    <2> QED
      BY <2>2, <2>3 DEF GrantedOnce
  <1>3. \A p \in Posts : post'[p].pc = "publish" => post'[p].to = Everyone
    BY DEF ImagesInv
  <1> QED
    BY <1>2, <1>3 DEF ImagesInv

\* An insert ends the request that looked; the others that looked are noted.
LEMMA InsertKeeps ==
    ASSUME ImagesInv, NEW p \in Posts, post[p].pc \in {"insert", "publish"},
           InsertGrant(p, post[p].img, post[p].to), UNCHANGED picture,
           NEW q, q \in PostRow, q.pc \notin {"insert", "publish"}, post' = [post EXCEPT ![p] = q]
    PROVE  ImagesInv'
  <1>1. post[p] \in PostRow /\ post \in [Posts -> PostRow]
        /\ grant \in [RowIds -> GrantRow] /\ picture \in [ImageIds -> Picture]
    BY ImageShapes, Rows DEF ImagesInv
  <1>j. PICK j \in ImageIds, h \in Grantees : j = post[p].img /\ h = post[p].to
    BY <1>1, ImageShapes
  <1>n. PICK new : new = Min(UnusedRows)
    OBVIOUS
  <1>2. new \in RowIds /\ grant[new].state = "none"
    <2>1. UnusedRows \subseteq Nat /\ UnusedRows # {}
      BY DEF UnusedRows, RowIds, InsertGrant
    <2>2. new \in UnusedRows
      BY <1>n, <2>1, MinIsLeast
    <2> QED
      BY <1>n, <2>2 DEF UnusedRows
  <1>3. grant' = [grant EXCEPT ![new] = [state |-> "live", img |-> j, to |-> h]]
    BY <1>j, <1>n DEF InsertGrant
  <1>4. ImagesTypeOK'
    BY <1>1, <1>2, <1>3, ImageShapes, Rows
  <1>5. /\ Grants(j, h)' = Grants(j, h) \cup {new}
        /\ \A i \in ImageIds, g \in Grantees : <<i, g>> # <<j, h>> => Grants(i, g)' = Grants(i, g)
    <2>1. \A n \in RowIds : grant'[n] = IF n = new THEN [state |-> "live", img |-> j, to |-> h] ELSE grant[n]
      BY <1>1, <1>2, <1>3
    <2>2. \A n \in RowIds : \A i, g :
              grant'[n].state = "live" /\ grant'[n].img = i /\ grant'[n].to = g
              <=> IF n = new THEN i = j /\ g = h
                  ELSE grant[n].state = "live" /\ grant[n].img = i /\ grant[n].to = g
      BY <2>1
    <2> QED
      BY <1>2, <2>2 DEF Grants
  <1>6. ASSUME NEW i \in ImageIds, NEW g \in Grantees, Inserts(p, i, g)' PROVE FALSE
    BY <1>1, <1>6 DEF Inserts
  <1>7. ASSUME NEW i \in ImageIds, NEW g \in Grantees, <<i, g>> \notin doubled' PROVE GrantedOnce(i, g)'
    <2>1. <<i, g>> \notin doubled
      BY <1>7 DEF InsertGrant
    <2>2. GrantedOnce(i, g)
      BY <2>1 DEF ImagesInv
    <2>3. CASE <<i, g>> # <<j, h>>
      BY <1>1, <1>j, <1>5, <1>6, <2>2, <2>3 DEF GrantedOnce, Inserts
    <2>4. CASE i = j /\ g = h
      <3>1. Grants(i, g) = {}
        BY <1>1, <1>j, <2>2, <2>4 DEF GrantedOnce, Inserts
      <3>2. ASSUME NEW r \in Posts, Inserts(r, i, g)' PROVE FALSE
        <4>1. r # p
          BY <1>6, <3>2
        <4>2. Inserts(r, i, g)
          BY <1>1, <3>2, <4>1 DEF Inserts
        <4> QED
          BY <1>j, <1>7, <2>4, <4>1, <4>2 DEF InsertGrant
      <3> QED
        BY <1>5, <2>4, <3>1, <3>2 DEF GrantedOnce
    <2> QED
      BY <2>3, <2>4
  <1>8. \A r \in Posts : post'[r].pc = "publish" => post'[r].to = Everyone
    BY <1>1 DEF ImagesInv
  <1> QED
    BY <1>4, <1>7, <1>8 DEF ImagesInv

\* Every step keeps the invariant of images and shares.
LEMMA ImageNextKeeps == ImagesInv /\ [ImageNext]_imageVars => ImagesInv'
  <1> SUFFICES ASSUME ImagesInv, [ImageNext]_imageVars PROVE ImagesInv'
    OBVIOUS
  <1>0. ImagesTypeOK /\ picture \in [ImageIds -> Picture] /\ grant \in [RowIds -> GrantRow] /\ post \in [Posts -> PostRow]
    BY Rows DEF ImagesInv
  <1>1. ASSUME NEW i \in ImageIds, UserUploadImage(i) \/ DeleteImage(i) PROVE ImagesInv'
    <2>1. picture' \in [ImageIds -> Picture] /\ UNCHANGED <<grant, post, doubled>>
      BY <1>0, <1>1 DEF UserUploadImage, DeleteImage, Picture
    <2>2. ImagesTypeOK'
      BY <1>0, <2>1, Rows
    <2> QED
      BY <2>1, <2>2, NothingGranted
  <1>2. ASSUME NEW i \in ImageIds, NEW g \in Grantees, UserCancelShareImage(i, g) PROVE ImagesInv'
    <2>1. Min(Grants(i, g)) \in RowIds
      <3>1. Grants(i, g) \subseteq Nat /\ Grants(i, g) # {}
        BY <1>2 DEF Grants, RowIds, UserCancelShareImage
      <3> QED
        BY <3>1, MinIsLeast DEF Grants
    <2>2. /\ grant' = [grant EXCEPT ![Min(Grants(i, g))] = [grant[Min(Grants(i, g))] EXCEPT !.state = "deleted"]]
          /\ UNCHANGED <<picture, post, doubled>>
      BY <1>2 DEF UserCancelShareImage
    <2>3. [grant[Min(Grants(i, g))] EXCEPT !.state = "deleted"] \in GrantRow
          /\ [grant[Min(Grants(i, g))] EXCEPT !.state = "deleted"].state = "deleted"
      BY <1>0, <2>1, ImageShapes DEF GrantRow
    <2>4. ImagesTypeOK'
      BY <1>0, <2>1, <2>2, <2>3, Rows
    <2> QED
      BY <1>0, <2>1, <2>2, <2>3, <2>4, NothingGranted
  <1>3. ASSUME NEW p \in Posts, NEW i \in ImageIds, NEW g \in Grantees, UserShareImage(p, i, g) PROVE ImagesInv'
    <2>1. /\ post' = [post EXCEPT ![p] = [pc |-> "insert", img |-> i, to |-> g]]
          /\ UNCHANGED <<picture, grant>> /\ doubled \subseteq doubled'
          /\ Grants(i, g) = {} \/ <<i, g>> \in doubled'
      BY <1>3 DEF UserShareImage, NoShareFound
    <2>2. ImagesTypeOK'
      BY <1>0, <2>1, ImageShapes, Rows
    <2> QED
      BY <1>0, <2>1, <2>2, NothingGranted
  <1>4. ASSUME NEW p \in Posts, NEW i \in ImageIds, TogglePublic(p, i) PROVE ImagesInv'
    <2>1. /\ \/ /\ post' = [post EXCEPT ![p] = [pc |-> "publish", img |-> i, to |-> Everyone]]
                /\ Grants(i, Everyone) = {} \/ <<i, Everyone>> \in doubled'
             \/ post' = [post EXCEPT ![p] = [pc |-> "hide", img |-> i, to |-> Everyone]]
          /\ UNCHANGED <<picture, grant>> /\ doubled \subseteq doubled'
      BY <1>4 DEF TogglePublic, NoShareFound
    <2>2. ImagesTypeOK'
      BY <1>0, <2>1, ImageShapes, Rows
    <2> QED
      BY <1>0, <2>1, <2>2, NothingGranted
  <1>5. ASSUME NEW p \in Posts, CreateImageShare(p) PROVE ImagesInv'
    BY <1>5, InsertKeeps, ImageShapes DEF CreateImageShare, NoPost
  <1>6. ASSUME NEW p \in Posts, Publish(p) PROVE ImagesInv'
    <2>1. post[p].to = Everyone /\ post[p] \in PostRow
      BY <1>0, <1>6 DEF Publish, ImagesInv
    <2>2. [post[p] EXCEPT !.pc = "public"] \in PostRow /\ [post[p] EXCEPT !.pc = "public"].pc = "public"
      BY <2>1, ImageShapes DEF PostRow
    <2> QED
      BY <1>6, <2>1, <2>2, InsertKeeps DEF Publish
  <1>7. ASSUME NEW p \in Posts, Hide(p) PROVE ImagesInv'
    <2> DEFINE hit == Grants(post[p].img, Everyone)
    <2>1. /\ grant' = [n \in RowIds |-> IF n \in hit THEN [grant[n] EXCEPT !.state = "deleted"] ELSE grant[n]]
          /\ post' = [post EXCEPT ![p] = [post[p] EXCEPT !.pc = "private"]]
          /\ UNCHANGED <<picture, doubled>>
      BY <1>7 DEF Hide
    <2>2. [post[p] EXCEPT !.pc = "private"] \in PostRow /\ [post[p] EXCEPT !.pc = "private"].pc = "private"
      BY <1>0, ImageShapes DEF PostRow
    <2>3. \A n \in RowIds : [grant[n] EXCEPT !.state = "deleted"] \in GrantRow
                            /\ [grant[n] EXCEPT !.state = "deleted"].state = "deleted"
      BY <1>0, ImageShapes DEF GrantRow
    <2>4. ImagesTypeOK'
      BY <1>0, <2>1, <2>2, <2>3, Rows
    <2> QED
      BY <1>0, <2>1, <2>2, <2>3, <2>4, NothingGranted
  <1>8. ASSUME NEW p \in Posts, SetPublicFlag(p) PROVE ImagesInv'
    <2>1. post' = [post EXCEPT ![p] = NoPost] /\ UNCHANGED <<grant, doubled>>
      BY <1>8 DEF SetPublicFlag
    <2>2. picture' \in [ImageIds -> Picture]
      <3>1. CASE UNCHANGED picture
        BY <1>0, <3>1
      <3>2. CASE picture' = [picture EXCEPT ![post[p].img].public =
                               IF ImageLive(post[p].img) THEN post[p].pc = "public" ELSE @]
        <4>1. post[p].img \in ImageIds /\ picture[post[p].img] \in Picture
          BY <1>0, ImageShapes
        <4>2. (post[p].pc = "public") \in BOOLEAN /\ picture[post[p].img].public \in BOOLEAN
          BY <4>1 DEF Picture
        <4>3. (IF ImageLive(post[p].img) THEN post[p].pc = "public" ELSE picture[post[p].img].public) \in BOOLEAN
          BY <4>2
        <4>4. ASSUME NEW b \in BOOLEAN PROVE [picture[post[p].img] EXCEPT !.public = b] \in Picture
          BY <4>1 DEF Picture
        <4> QED
          BY <1>0, <3>2, <4>1, <4>3, <4>4
      <3> QED
        BY <1>8, <3>1, <3>2 DEF SetPublicFlag
    <2>3. ImagesTypeOK' /\ NoPost.pc = "idle"
      BY <1>0, <2>1, <2>2, ImageShapes, Rows DEF NoPost
    <2> QED
      BY <1>0, <2>1, <2>3, NothingGranted
  <1>9. CASE UNCHANGED imageVars
    <2>1. UNCHANGED <<picture, grant, post, doubled>>
      BY <1>9 DEF imageVars
    <2>2. ImagesTypeOK'
      BY <1>0, <2>1 DEF ImagesTypeOK
    <2> QED
      BY <2>1, <2>2, NothingGranted
  <1> QED
    BY <1>1, <1>2, <1>3, <1>4, <1>5, <1>6, <1>7, <1>8, <1>9 DEF ImageNext

\* The invariant of images, their share rows and the requests in progress
\* (internal/handler/image/image.go), for any images and grantees.
THEOREM ImagesInvariance == ImageSpec => []ImagesInv
  <1>1. ImageInit => ImagesInv
    <2> SUFFICES ASSUME ImageInit PROVE ImagesInv
      OBVIOUS
    <2>1. ImagesTypeOK
      BY ImageShapes, Rows DEF ImageInit, Picture
    <2>2. \A i \in ImageIds, g \in Grantees : GrantedOnce(i, g)
      BY DEF ImageInit, GrantedOnce, Grants, Inserts, NoGrant, NoPost
    <2>3. \A p \in Posts : post[p].pc = "idle"
      BY DEF ImageInit, NoPost
    <2> QED
      BY <2>1, <2>2, <2>3 DEF ImagesInv
  <1> QED
    BY <1>1, ImageNextKeeps, PTL DEF ImageSpec

\* The row that the cancel deletes is the only one.
LEMMA CancelLeavesNone ==
    ASSUME ImagesInv, NEW i \in ImageIds, NEW g \in Grantees, UserCancelShareImage(i, g), <<i, g>> \notin doubled
    PROVE  Grants(i, g)' = {} /\ UNCHANGED picture
  <1> DEFINE n == Min(Grants(i, g))
  <1>1. n \in Grants(i, g)
    <2>1. Grants(i, g) \subseteq Nat /\ Grants(i, g) # {}
      BY DEF Grants, RowIds, UserCancelShareImage
    <2> QED
      BY <2>1, MinIsLeast
  <1>2. \A m \in Grants(i, g) : m = n
    BY <1>1 DEF ImagesInv, GrantedOnce
  <1>3. grant' = [grant EXCEPT ![n] = [grant[n] EXCEPT !.state = "deleted"]] /\ UNCHANGED picture
    BY DEF UserCancelShareImage
  <1>4. grant \in [RowIds -> GrantRow] /\ n \in RowIds
    BY <1>1, Rows DEF ImagesInv, Grants
  <1>5. [grant[n] EXCEPT !.state = "deleted"].state = "deleted"
    BY <1>4 DEF GrantRow
  <1> QED
    BY <1>2, <1>3, <1>4, <1>5 DEF Grants

\* A share that was taken back is gone, unless two requests granted it at one time or
\* the look for it once failed (UserCancelShareImage): the row that the cancel
\* deletes is the only one.
THEOREM CancelWorks == ImageSpec => CancelTakesEffect
  <1>1. ASSUME ImagesInv, NEW i \in ImageIds, NEW g \in Grantees, UserCancelShareImage(i, g), <<i, g>> \notin doubled
        PROVE  IF g[1] = "user"
               THEN /\ i \notin getUserSharedImages(g[2])'
                    /\ \A nicknamed \in SUBSET ImageUsers :
                           g[2] \in nicknamed \ {ImageOwner} =>
                               g[2] \in UserSearchUngrantedUsers(i, {}, nicknamed)'
               ELSE /\ i \notin getAccountSharedImages(g[2])'
                    /\ g = Everyone => i \notin (AdminListImage.public)' \/ picture'[i].public
                    /\ g # Everyone => g[2] \in UserGetImageUngrantedAccounts(i, ImageAccounts)'
    <2>1. Grants(i, g)' = {}
      BY <1>1, CancelLeavesNone
    <2>2. g \notin GetImageGrantedUserOrAccount(i)'
      BY <2>1 DEF GetImageGrantedUserOrAccount
    <2>3. CASE g[1] = "user"
      <3>1. g = <<"user", g[2]>>
        BY <2>3 DEF Grantees
      <3> QED
        BY <2>1, <2>2, <2>3, <3>1 DEF getUserSharedImages, UserSearchUngrantedUsers
    <2>4. CASE g[1] # "user"
      <3>1. g = <<"account", g[2]>> /\ g[2] \in ImageAccounts
        BY <2>4 DEF Grantees
      <3>2. i \notin getAccountSharedImages(g[2])'
        BY <2>1, <3>1 DEF getAccountSharedImages
      <3>3. g = Everyone => i \notin (AdminListImage.public)' \/ picture'[i].public
        BY <3>1, <3>2 DEF Everyone, AdminListImage, getPublicImages, OldPublicImages
      <3>4. g # Everyone => g[2] # DefaultId
        BY <3>1 DEF Everyone
      <3> QED
        BY <2>2, <2>4, <3>1, <3>2, <3>3, <3>4 DEF UserGetImageUngrantedAccounts
    <2> QED
      BY <2>3, <2>4
  <1>2. ImagesInv /\ [ImageNext]_imageVars => [
            \A i \in ImageIds, g \in Grantees :
                UserCancelShareImage(i, g) /\ <<i, g>> \notin doubled =>
                    IF g[1] = "user"
                    THEN /\ i \notin getUserSharedImages(g[2])'
                         /\ \A nicknamed \in SUBSET ImageUsers :
                                g[2] \in nicknamed \ {ImageOwner} =>
                                    g[2] \in UserSearchUngrantedUsers(i, {}, nicknamed)'
                    ELSE /\ i \notin getAccountSharedImages(g[2])'
                         /\ g = Everyone => i \notin (AdminListImage.public)' \/ picture'[i].public
                         /\ g # Everyone => g[2] \in UserGetImageUngrantedAccounts(i, ImageAccounts)' ]_imageVars
    BY <1>1
  <1> QED
    BY <1>2, ImagesInvariance, PTL DEF ImageSpec, CancelTakesEffect

-----------------------------------------------------------------------------
(* Marks of nodes. *)

\* A change touches what it names.
LEMMA ChangedShape ==
    ASSUME NEW change \in Asks, NEW nd \in Node
    PROVE  /\ Changed(change, nd) \in Node
           /\ Changed(change, nd).version = nd.version
           /\ Changed(change, nd).ready = nd.ready
           /\ change.what # "toggle" => Changed(change, nd).unschedulable = nd.unschedulable
           /\ \A s \in NodeSlots : (change.what # "toggle" => change.slot # s) =>
                                       Changed(change, nd).marks[s] = nd.marks[s]
  <1>1. CASE change = ToggleAsk
    BY <1>1 DEF ToggleAsk, Changed, Node
  <1>2. CASE change \in MarkAsks(NodeSlots)
    <2>1. change.slot \in NodeSlots /\ change.what \in {"add", "delete"}
      BY <1>2 DEF MarkAsks
    <2>2. CASE change.what = "add"
      <3>1. change.value \in MarkValues
        BY <1>2, <2>2 DEF MarkAsks
      <3>2. Changed(change, nd) = [nd EXCEPT !.marks[change.slot] = change.value]
        BY <2>2 DEF Changed
      <3> QED
        BY <2>1, <2>2, <3>1, <3>2 DEF Node
    <2>3. CASE change.what = "delete"
      <3>1. Changed(change, nd) = [nd EXCEPT !.marks[change.slot] = Unmarked]
        BY <2>3 DEF Changed
      <3> QED
        BY <2>1, <2>3, <3>1 DEF Node
    <2> QED
      BY <2>1, <2>2, <2>3
  <1> QED
    BY <1>1, <1>2 DEF Asks, LabelAsks, TaintAsks, MarkAsks, NodeSlots

\* A write raises the version of a node and leaves the rest.
LEMMA NextVersion ==
    ASSUME NEW nd \in Node
    PROVE  /\ [nd EXCEPT !.version = @ + 1] \in Node
           /\ [nd EXCEPT !.version = @ + 1].version = nd.version + 1
           /\ [nd EXCEPT !.version = @ + 1].ready = nd.ready
           /\ [nd EXCEPT !.version = @ + 1].unschedulable = nd.unschedulable
           /\ [nd EXCEPT !.version = @ + 1].marks = nd.marks
  BY DEF Node

\* The kubelet raises the version as well.
LEMMA ReadyShape ==
    ASSUME NEW nd \in Node, NEW b \in BOOLEAN
    PROVE  /\ [nd EXCEPT !.ready = b, !.version = @ + 1] \in Node
           /\ [nd EXCEPT !.ready = b, !.version = @ + 1].version = nd.version + 1
  <1>1. [nd EXCEPT !.ready = b] \in Node /\ [nd EXCEPT !.ready = b].version = nd.version
    BY DEF Node
  <1>2. [nd EXCEPT !.ready = b, !.version = @ + 1] = [[nd EXCEPT !.ready = b] EXCEPT !.version = @ + 1]
    BY DEF Node
  <1> QED
    BY <1>1, <1>2, NextVersion

\* A request that has read a node holds one of its versions.
LEMMA ReadCallShape ==
    ASSUME NEW r \in ReadCall
    PROVE  r.pc = "read" /\ r.name \in NodeNames /\ r.ask \in Asks /\ r.seen \in Node /\ r # NoCall
  BY DEF ReadCall, NoCall

\* A node that changes gets a higher version; no request reads it at the same time.
NodeWrite(n, nd) ==
    /\ node' = [node EXCEPT ![n] = nd]
    /\ nd \in Node /\ nd.version = node[n].version + 1
    /\ \A c \in NodeCalls : call'[c] \in {call[c], NoCall}
    /\ call' \in [NodeCalls -> {NoCall} \cup ReadCall]

\* One write to one node keeps the invariant.
LEMMA WriteKeeps ==
    ASSUME NodesInv, NEW n \in NodeNames, NEW nd, NodeWrite(n, nd)
    PROVE  NodesInv'
  <1>1. NodesTypeOK'
    BY DEF NodesInv, NodesTypeOK, NodeWrite
  <1>2. ASSUME NEW c \in NodeCalls, call'[c] # NoCall
        PROVE  /\ call'[c].seen.version <= node'[call'[c].name].version
               /\ call'[c].seen.version = node'[call'[c].name].version => call'[c].seen = node'[call'[c].name]
    <2>1. call'[c] = call[c] /\ call[c] \in ReadCall
      BY <1>2 DEF NodesInv, NodesTypeOK, NodeWrite
    <2> DEFINE r == call[c]
    <2>2. r.name \in NodeNames /\ r.seen \in Node /\ node[r.name] \in Node
      BY <2>1, ReadCallShape DEF NodesInv, NodesTypeOK
    <2>3. r.seen.version <= node[r.name].version
          /\ (r.seen.version = node[r.name].version => r.seen = node[r.name])
      BY <1>2, <2>1 DEF NodesInv, SeenIsOlder
    <2>4. r.seen.version \in Nat /\ node[r.name].version \in Nat
      BY <2>2 DEF Node
    <2>5. CASE r.name = n
      <3>1. node'[r.name].version = node[r.name].version + 1
        BY <2>2, <2>5 DEF NodeWrite, NodesInv, NodesTypeOK
      <3> QED
        BY <2>1, <2>3, <2>4, <3>1
    <2>6. CASE r.name # n
      BY <2>1, <2>2, <2>3, <2>6 DEF NodeWrite, NodesInv, NodesTypeOK
    <2> QED
      BY <2>5, <2>6
  <1> QED
    BY <1>1, <1>2 DEF NodesInv, SeenIsOlder

\* An update writes the node as it is, with the one change that was asked for.
LEMMA UpdateWrites ==
    ASSUME NodesInv, NEW c \in NodeCalls, Update(c)
    PROVE  /\ call[c] \in ReadCall /\ call[c].seen = node[call[c].name]
           /\ NodeWrite(call[c].name, [Changed(call[c].ask, call[c].seen) EXCEPT !.version = @ + 1])
           /\ call' = [call EXCEPT ![c] = NoCall]
  <1>1. call[c] \in ReadCall
    BY DEF Update, NodesInv, NodesTypeOK, NoCall
  <1>2. call[c].seen = node[call[c].name]
    BY <1>1, ReadCallShape DEF Update, NodesInv, SeenIsOlder
  <1>3. /\ Changed(call[c].ask, call[c].seen) \in Node
        /\ Changed(call[c].ask, call[c].seen).version = node[call[c].name].version
    BY <1>1, <1>2, ReadCallShape, ChangedShape
  <1>4. call' = [call EXCEPT ![c] = NoCall]
        /\ node' = [node EXCEPT ![call[c].name] = [Changed(call[c].ask, call[c].seen) EXCEPT !.version = @ + 1]]
    BY DEF Update
  <1> QED
    BY <1>1, <1>2, <1>3, <1>4, NextVersion DEF NodeWrite, NodesInv, NodesTypeOK

\* A node that another client or the kubelet changes.
LEMMA OthersWrite ==
    ASSUME NodesInv, NEW n \in NodeNames, (\E change \in Asks : ChangedByOthers(n, change)) \/ Readiness(n)
    PROVE  UNCHANGED call /\ \E nd : NodeWrite(n, nd)
  <1>1. node[n] \in Node
    BY DEF NodesInv, NodesTypeOK
  <1>2. ASSUME NEW change \in Asks, ChangedByOthers(n, change)
        PROVE  UNCHANGED call /\ \E nd : NodeWrite(n, nd)
    <2>1. Changed(change, node[n]) \in Node /\ Changed(change, node[n]).version = node[n].version
      BY <1>1, ChangedShape
    <2>2. NodeWrite(n, [Changed(change, node[n]) EXCEPT !.version = @ + 1])
      BY <1>2, <2>1, NextVersion DEF ChangedByOthers, NodeWrite, NodesInv, NodesTypeOK
    <2> QED
      BY <1>2, <2>2 DEF ChangedByOthers
  <1>3. CASE Readiness(n)
    <2> DEFINE nd == [node[n] EXCEPT !.ready = ~@, !.version = @ + 1]
    <2>1. nd \in Node /\ nd.version = node[n].version + 1
      <3>1. (~node[n].ready) \in BOOLEAN
        OBVIOUS
      <3> QED
        BY <1>1, <3>1, ReadyShape
    <2>2. NodeWrite(n, nd)
      BY <1>3, <2>1 DEF Readiness, NodeWrite, NodesInv, NodesTypeOK
    <2> QED
      BY <1>3, <2>2 DEF Readiness
  <1> QED
    BY <1>2, <1>3

\* Every step is a write of one node, or leaves the nodes alone.
LEMMA NodesNextKeeps == NodesInv /\ [NodesNext]_nodeVars => NodesInv'
  <1> SUFFICES ASSUME NodesInv, [NodesNext]_nodeVars PROVE NodesInv'
    OBVIOUS
  <1>1. ASSUME NEW c \in NodeCalls, NEW n \in NodeNames, NEW change \in Asks, GetForUpdate(c, n, change)
        PROVE  NodesInv'
    <2>1. [pc |-> "read", name |-> n, ask |-> change, seen |-> node[n]] \in ReadCall
      BY DEF ReadCall, NodesInv, NodesTypeOK
    <2>2. NodesTypeOK'
      BY <1>1, <2>1 DEF GetForUpdate, NodesInv, NodesTypeOK
    <2>3. node[n].version <= node[n].version
      BY DEF NodesInv, NodesTypeOK, Node
    <2>4. SeenIsOlder'
      BY <1>1, <2>3 DEF GetForUpdate, NodesInv, NodesTypeOK, SeenIsOlder
    <2> QED
      BY <2>2, <2>4 DEF NodesInv
  <1>2. ASSUME NEW c \in NodeCalls, Update(c) PROVE NodesInv'
    BY <1>2, UpdateWrites, ReadCallShape, WriteKeeps
  <1>3. ASSUME NEW c \in NodeCalls, UpdateFails(c) PROVE NodesInv'
    BY <1>3 DEF UpdateFails, NodesInv, NodesTypeOK, SeenIsOlder
  <1>4. ASSUME NEW n \in NodeNames, (\E change \in Asks : ChangedByOthers(n, change)) \/ Readiness(n)
        PROVE  NodesInv'
    BY <1>4, OthersWrite, WriteKeeps
  <1>5. CASE UNCHANGED nodeVars
    BY <1>5 DEF nodeVars, NodesInv, NodesTypeOK, SeenIsOlder
  <1> QED
    BY <1>1, <1>2, <1>3, <1>4, <1>5 DEF NodesNext

\* The invariant of nodes and of the copies that requests hold: a copy of the
\* current version is the node as it is (pkg/crclient/nodeclient.go).
THEOREM NodesInvariance == NodesSpec => []NodesInv
  <1>1. NodesInit => NodesInv
    <2>1. FreshNode \in Node
      BY DEF FreshNode, Node
    <2> QED
      BY <2>1 DEF NodesInit, NodesInv, NodesTypeOK, SeenIsOlder
  <1> QED
    BY <1>1, NodesNextKeeps, PTL DEF NodesSpec

\* An update writes what it was asked to write and nothing else: the version check
\* of the API server refuses it otherwise (pkg/crclient/nodeclient.go).
THEOREM MarksKept == NodesSpec => OthersMarksKept
  <1>1. ASSUME NodesInv, NodesNext, NEW n \in NodeNames, NEW c \in NodeCalls,
               node'[n] # node[n], call[c] # NoCall, call'[c] = NoCall
        PROVE  /\ \A s \in NodeSlots : (call[c].ask.what # "toggle" => call[c].ask.slot # s)
                                    => node'[n].marks[s] = node[n].marks[s]
               /\ call[c].ask.what # "toggle" => node'[n].unschedulable = node[n].unschedulable
               /\ node'[n].ready = node[n].ready
               /\ getNodeStatus(n) = "Occupied" /\ getNodeStatus(n)' # "Occupied"
                    => call[c].ask.what # "toggle" /\ call[c].ask.slot = AccountSlot
    <2>1. Update(c)
      <3>1. ASSUME NEW d \in NodeCalls, Update(d) PROVE d = c
        BY <1>1, <3>1, UpdateWrites DEF NodesInv, NodesTypeOK
      <3>2. ASSUME NEW m \in NodeNames, (\E change \in Asks : ChangedByOthers(m, change)) \/ Readiness(m) PROVE FALSE
        BY <1>1, <3>2, OthersWrite
      <3> QED
        BY <1>1, <3>1, <3>2 DEF NodesNext, GetForUpdate, UpdateFails
    <2> DEFINE r == call[c]
               nd == Changed(r.ask, r.seen)
    <2>2. r \in ReadCall /\ r.seen = node[r.name] /\ node' = [node EXCEPT ![r.name] = [nd EXCEPT !.version = @ + 1]]
      BY <2>1, <1>1, UpdateWrites DEF NodeWrite
    <2>3. r.name = n /\ r.ask \in Asks /\ r.seen \in Node
      BY <1>1, <2>2, ReadCallShape DEF NodesInv, NodesTypeOK
    <2>4. nd \in Node
      BY <2>3, ChangedShape
    <2>5. node'[n] = [nd EXCEPT !.version = @ + 1]
      BY <1>1, <2>2, <2>3 DEF NodesInv, NodesTypeOK
    <2>6. /\ node'[n].ready = node[n].ready
          /\ r.ask.what # "toggle" => node'[n].unschedulable = node[n].unschedulable
          /\ \A s \in NodeSlots : (r.ask.what # "toggle" => r.ask.slot # s) => node'[n].marks[s] = node[n].marks[s]
      BY <2>2, <2>3, <2>4, <2>5, ChangedShape, NextVersion
    <2>7. getNodeStatus(n) = "Occupied" <=> isNodeOccupied(n)
      BY DEF getNodeStatus
    <2>8. getNodeStatus(n)' = "Occupied" <=> isNodeOccupied(n)'
      BY DEF getNodeStatus
    <2>9. AccountSlot \in NodeSlots
      BY NodesAssumption DEF NodeSlots
    <2>10. node'[n].marks[AccountSlot] = node[n].marks[AccountSlot] => (isNodeOccupied(n)' <=> isNodeOccupied(n))
      BY DEF isNodeOccupied
    <2> QED
      BY <2>6, <2>7, <2>8, <2>9, <2>10
  <1>2. NodesInv /\ [NodesNext]_nodeVars => [
            \A n \in NodeNames, c \in NodeCalls :
                node'[n] # node[n] /\ call[c] # NoCall /\ call'[c] = NoCall =>
                    LET change == call[c].ask IN
                    /\ \A s \in NodeSlots : (change.what # "toggle" => change.slot # s)
                                            => node'[n].marks[s] = node[n].marks[s]
                    /\ change.what # "toggle" => node'[n].unschedulable = node[n].unschedulable
                    /\ node'[n].ready = node[n].ready
                    /\ getNodeStatus(n) = "Occupied" /\ getNodeStatus(n)' # "Occupied"
                         => change.what # "toggle" /\ change.slot = AccountSlot ]_nodeVars
    BY <1>1
  <1> QED
    BY <1>2, NodesInvariance, PTL DEF NodesSpec, OthersMarksKept
=============================================================================
