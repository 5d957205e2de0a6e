-------------------------------- MODULE JobPages --------------------------------
(***************************************************************************)
(* The pages of one job: the lists that show it, its detail, pods, yaml    *)
(* and template, its events, and the token of its notebook.  A job is of   *)
(* Volcano (internal/handler/vcjob), of EMIAS (internal/handler/aijob) or  *)
(* a sparse one (internal/handler/spjob); the three answer the same pages  *)
(* from different places: the row, the cached object, the pods.  The       *)
(* events and the token take several calls, between which the cluster      *)
(* moves on.                                                               *)
(***************************************************************************)
EXTENDS Integers

CONSTANTS TokenCalls,   \* requests for the token, by name
          PodIndex,     \* the pods of a job; an EMIAS job and a notebook have pod 1 only
          MaxRuns       \* bound: pods made under the name of pod 1

ASSUME PagesAssumption == 1 \in PodIndex /\ 0 \notin PodIndex /\ MaxRuns \in Nat

VARIABLES
    kind,        \* "vcjob", "aijob" or "spjob"
    record,      \* its row: whether it is there, the status, whether it is recent and
                 \* has the name of the job
    userKept,    \* the row of its owner is there
    object,      \* the job in the cluster: version, phase, cached token
    objectSeen,  \* the copy in the client's cache
    pod,         \* its pods: which run of the name, 0 when there was none, the phase, and
                 \* what an ended one reports: conditions, and the end of its containers
    eventsOf,    \* whose events there are: 0 the job's, otherwise the pod's
    tokenAsk,    \* the requests for the token
    tokens,      \* history: the tokens answered
    eventsAsk    \* a request for the events

pagesVars == <<kind, record, userKept, object, objectSeen, pod, eventsOf, tokenAsk, tokens, eventsAsk>>

RowStatus == [vcjob |-> {"Pending", "Running", "Completed", "Deleted"},
              aijob |-> {"Queueing", "Pending", "Running", "Succeeded", "Preempted"},
              spjob |-> {"none"}]

NoToken == 0
NewPod    == [run |-> 0, phase |-> "Pending", report |-> "none"]
IdleToken == [at |-> "idle", copy |-> 0, found |-> NoToken]
IdleEvents == [at |-> "idle", got |-> {}, listed |-> {}, todo |-> {}, flag |-> FALSE, before |-> {}]

PagesInit ==
    /\ kind \in DOMAIN RowStatus
    /\ record \in {[kept |-> kind # "spjob", deleted |-> FALSE, status |-> s, recent |-> r,
                      named |-> s # "Queueing"] : s \in RowStatus[kind], r \in BOOLEAN}
    /\ userKept = TRUE
    /\ object = [there |-> record.named, running |-> FALSE, version |-> 1, token |-> NoToken]
    /\ objectSeen = object
    /\ pod = [p \in PodIndex |-> NewPod]
    /\ eventsOf = {}
    /\ tokenAsk = [r \in TokenCalls |-> IdleToken]
    /\ tokens = {}
    /\ eventsAsk = IdleEvents

-----------------------------------------------------------------------------
(* Who asks.  The owner works in the account of the job, the colleague     *)
(* belongs to that account, the administrator works in another one.        *)

Viewers == {"owner", "colleague", "administrator", "stranger"}
SameUser(v) == v = "owner"
SameAccount(v) == v \in {"owner", "colleague"}
IsAdmin(v) == v = "administrator"

\* The lookup of every page of a Volcano job.
getJob(v) == record.kept /\ (IsAdmin(v) \/ (SameAccount(v) /\ SameUser(v)))

\* The lookup of every page of a task.
GetByQueueAndID(v) == record.kept /\ SameAccount(v)

\* What a list shows of the job: an entry, an entry without content, or nothing.
Entry(status) == [what |-> "entry", status |-> status]
Blank         == [what |-> "blank", status |-> "none"]
Absent        == [what |-> "absent", status |-> "none"]
ListFails     == [what |-> "error", status |-> "none"]

GetUserJobs(v) == IF record.kept /\ SameUser(v) /\ SameAccount(v) THEN Entry(record.status) ELSE Absent

\* days = -1 lists all; anything not positive else counts as a week.
GetAllJobsInDays(days) ==
    IF record.kept /\ (days = -1 \/ record.recent) THEN Entry(record.status) ELSE Absent

convertJobPhase ==
    IF record.deleted THEN "Deleted"
    ELSE CASE record.status = "Running"   -> "Running"
           [] record.status = "Succeeded" -> "Completed"
           [] record.status = "Failed"    -> "Failed"
           [] record.status = "Preempted" -> "Aborted"
           [] OTHER                       -> "Pending"

\* Mutant: the entry is shown whole although its owner is gone.
convertToAIJobResp_Whole == Entry(convertJobPhase)

\* The error of a missing owner is ignored by the lists.
convertToAIJobResp == IF userKept THEN Entry(convertJobPhase) ELSE Blank
ListUserJob(v) == IF GetByQueueAndID(v) THEN convertToAIJobResp ELSE Absent
ListAllJob == IF record.kept THEN convertToAIJobResp ELSE Absent

\* The pods a sparse job names in its status.  One that is gone fails them all: an
\* error is written, and the caller goes on with none.
NamedPods     == IF objectSeen.there THEN {p \in PodIndex : pod[p].run > 0} ELSE {}
PodMissing    == \E p \in NamedPods : pod[p].phase = "gone"
GetPodsByName == IF PodMissing THEN {} ELSE NamedPods
Ended(p)      == pod[p].phase \in {"Succeeded", "Failed"}
jobStatusMap(p) ==
    CASE pod[p].phase = "Failed"    -> "Failed"
      [] pod[p].phase = "Succeeded" -> "Completed"
      [] pod[p].phase = "Running"   -> "Running"
      [] OTHER                      -> "Pending"
FirstPod == CHOOSE p \in GetPodsByName : \A q \in GetPodsByName : p <= q

rolePermit(v) == IsAdmin(v) \/ SameUser(v)

\* A job without a pod is skipped; one whose owner or pod is gone fails the list, and
\* so does the last condition of an ended pod that has none.
SparseList(v) ==
    IF ~objectSeen.there \/ ~rolePermit(v) \/ NamedPods = {} THEN Absent
    ELSE IF ~PodMissing /\ userKept /\ (Ended(FirstPod) => pod[FirstPod].report # "none")
         THEN Entry(jobStatusMap(FirstPod)) ELSE ListFails

\* What the viewer's lists show: his own, and for an administrator all of them.
Lists(v) ==
    CASE kind = "vcjob" -> {GetUserJobs(v)} \cup
                           (IF IsAdmin(v) THEN {GetAllJobsInDays(0), GetAllJobsInDays(-1)} ELSE {})
      [] kind = "aijob" -> {ListUserJob(v)}
      [] kind = "spjob" -> {SparseList(v)}

-----------------------------------------------------------------------------
(* The pages that are answered at once.                                    *)

Answered(what) == [ok |-> TRUE, with |-> what]
Failed         == [ok |-> FALSE, with |-> "none"]
If(open, what) == IF open THEN Answered(what) ELSE Failed

\* The detail of a Volcano job is its row; a task's and a sparse job's need the
\* owner.  The pods of a sparse job are indexed without a look at their number, and so
\* are the containers of one that ended.
JobDetail(v) == If(getJob(v), record.status)
GetDetail(v) == If(GetByQueueAndID(v) /\ userKept, convertJobPhase)
NoEnd        == Ended(FirstPod) /\ pod[FirstPod].report # "whole"
GetByName    == IF objectSeen.there /\ GetPodsByName # {} /\ ~NoEnd /\ userKept
                  THEN Answered(jobStatusMap(FirstPod)) ELSE Failed

GetJobDetail(v) == CASE kind = "vcjob" -> JobDetail(v)
                     [] kind = "aijob" -> GetDetail(v)
                     [] kind = "spjob" -> GetByName

\* The pods of a Volcano job are found by label, a task's by its one name.
PodsThere == {p \in PodIndex : pod[p].run > 0 /\ pod[p].phase # "gone"}
JobPods(v)  == If(getJob(v), PodsThere)
TaskPods(v) == If(GetByQueueAndID(v), IF record.named THEN PodsThere \cap {1} ELSE {})
SparsePods  == If(objectSeen.there /\ ~PodMissing, NamedPods)

GetJobPods(v) == CASE kind = "vcjob" -> JobPods(v)
                   [] kind = "aijob" -> TaskPods(v)
                   [] kind = "spjob" -> SparsePods

\* The copy in the row, or the object; nothing for a task whose object is gone or not
\* known by name.
JobYaml(v)  == If(getJob(v), "recorded")
TaskYaml(v) == If(GetByQueueAndID(v), IF objectSeen.there /\ record.named THEN "object" ELSE "empty")
GetYaml     == If(objectSeen.there, "object")

GetJobYaml(v) == CASE kind = "vcjob" -> JobYaml(v)
                   [] kind = "aijob" -> TaskYaml(v)
                   [] kind = "spjob" -> GetYaml

GetJobTemplate(v) == If(getJob(v), "template")

-----------------------------------------------------------------------------
(* The token of a notebook.                                                *)

SetToken(r, ask) == tokenAsk' = [tokenAsk EXCEPT ![r] = ask]
TokenUnchanged == UNCHANGED <<kind, record, userKept, objectSeen, pod, eventsOf, eventsAsk>>

AnswerToken(r, t) == SetToken(r, IdleToken) /\ tokens' = tokens \cup {t}

\* The token of the annotation, or else the log is asked for it.
FromObject(r) ==
    /\ tokenAsk[r].at = "idle" /\ objectSeen.there
    /\ IF objectSeen.token # NoToken
         THEN AnswerToken(r, objectSeen.token)
         ELSE SetToken(r, [at |-> "log", copy |-> objectSeen.version, found |-> NoToken])
              /\ UNCHANGED tokens
    /\ TokenUnchanged /\ UNCHANGED object

\* Of a Volcano job that runs; EMIAS does not ask whether the task does.
GetJobToken(r)     == kind = "vcjob" /\ getJob("owner") /\ objectSeen.running /\ FromObject(r)
GetJupyterToken(r) == kind = "aijob" /\ GetByQueueAndID("owner") /\ record.named /\ FromObject(r)

\* The first token in the log of pod 1, which each run makes anew; or none yet.
getPodLog(r) ==
    /\ tokenAsk[r].at = "log"
    /\ \/ /\ pod[1].run > 0 /\ pod[1].phase = "Running"
          /\ SetToken(r, [tokenAsk[r] EXCEPT !.at = "cache", !.found = pod[1].run])
       \/ SetToken(r, IdleToken)
    /\ TokenUnchanged /\ UNCHANGED <<object, tokens>>

\* Mutant: the last writer wins.
Updates_Unversioned(r) == object.there

\* The update is refused when the object is no longer at the version read.
Updates(r) == object.there /\ object.version = tokenAsk[r].copy

Annotate(r) ==
    /\ Updates(r)
    /\ object' = [object EXCEPT !.version = @ + 1, !.token = tokenAsk[r].found]
    /\ AnswerToken(r, tokenAsk[r].found)

\* A refused update fails the request of a Volcano job.
CacheJobToken(r) ==
    /\ kind = "vcjob" /\ tokenAsk[r].at = "cache"
    /\ \/ Annotate(r)
       \/ ~Updates(r) /\ SetToken(r, IdleToken) /\ UNCHANGED <<object, tokens>>
    /\ TokenUnchanged

\* EMIAS logs it, and answers the token all the same.
CacheJupyterToken(r) ==
    /\ kind = "aijob" /\ tokenAsk[r].at = "cache"
    /\ \/ Annotate(r)
       \/ ~Updates(r) /\ AnswerToken(r, tokenAsk[r].found) /\ UNCHANGED object
    /\ TokenUnchanged

-----------------------------------------------------------------------------
(* The events: the job's, replaced by those of its pods when any has some. *)

SetEvents(ask) == eventsAsk' = ask
EventsUnchanged ==
    UNCHANGED <<kind, record, userKept, object, objectSeen, pod, eventsOf, tokenAsk, tokens>>

\* The job is looked up, and its own events are fetched.
AskEvents(open, what) ==
    /\ kind = what /\ open /\ eventsAsk.at \in {"idle", "done", "queueing"}
    /\ SetEvents([IdleEvents EXCEPT !.at = "list", !.got = eventsOf \cap {0}, !.before = eventsOf])
    /\ EventsUnchanged

JobEvents    == AskEvents(getJob("owner"), "vcjob")
TaskEvents   == AskEvents(GetByQueueAndID("owner") /\ record.named, "aijob")
SparseEvents == AskEvents(objectSeen.there, "spjob")

\* A task that has no name of a job yet is answered with one event that is made up.
QueueingEvent ==
    /\ kind = "aijob" /\ GetByQueueAndID("owner") /\ ~record.named
    /\ eventsAsk.at \in {"idle", "done", "queueing"}
    /\ SetEvents([IdleEvents EXCEPT !.at = "queueing"])
    /\ EventsUnchanged

\* The pods there are; of a task the one name, whether it is there or not.
ListEventPods ==
    /\ eventsAsk.at = "list"
    /\ LET listed == CASE kind = "aijob" -> {1}
                       [] kind = "spjob" -> GetPodsByName
                       [] kind = "vcjob" -> PodsThere
       IN  SetEvents([eventsAsk EXCEPT !.at = "pods", !.listed = listed, !.todo = listed])
    /\ EventsUnchanged

\* Mutant: as for a sparse job.
FirstWithEvents_Any == eventsAsk.got # {}

\* No pod before had events.
FirstWithEvents == ~eventsAsk.flag

\* The events of one pod; what was collected before gives way when reset says so.
Collect(p, reset) ==
    IF p \in eventsOf
      THEN [eventsAsk EXCEPT !.todo = @ \ {p}, !.flag = TRUE,
                             !.got = (IF reset THEN {} ELSE @) \cup {p}]
      ELSE [eventsAsk EXCEPT !.todo = @ \ {p}]

NextPod(p, what) == kind = what /\ eventsAsk.at = "pods" /\ p \in eventsAsk.todo /\ EventsUnchanged

JobPodEvents(p)  == NextPod(p, "vcjob") /\ SetEvents(Collect(p, FirstWithEvents))
TaskPodEvents(p) == NextPod(p, "aijob") /\ SetEvents(Collect(p, TRUE))

\* A sparse job starts over whenever anything was collected, and goes on when
\* the events of a pod cannot be read.
SparsePodEvents(p) ==
    /\ NextPod(p, "spjob")
    /\ \/ SetEvents(Collect(p, eventsAsk.got # {}))
       \/ SetEvents([eventsAsk EXCEPT !.todo = @ \ {p}])

EventsDone ==
    /\ eventsAsk.at = "pods" /\ eventsAsk.todo = {}
    /\ SetEvents([eventsAsk EXCEPT !.at = "done"])
    /\ EventsUnchanged

\* A call to the API server fails.
EventsFail ==
    /\ eventsAsk.at = "list" \/ (eventsAsk.at = "pods" /\ kind # "spjob")
    /\ SetEvents(IdleEvents)
    /\ EventsUnchanged

-----------------------------------------------------------------------------
(* What moves meanwhile.                                                   *)

AsksUnchanged == UNCHANGED <<kind, tokenAsk, tokens, eventsAsk>>

\* A pod is made, again after an eviction for pod 1.
PodStarts(p) ==
    /\ object.there /\ (kind = "aijob" => p = 1)
    /\ \/ pod[p].run = 0 \/ (p = 1 /\ pod[p].phase \in {"Failed", "gone"})
    /\ pod[p].run < (IF p = 1 THEN MaxRuns ELSE 1)
    /\ pod' = [pod EXCEPT ![p] = [NewPod EXCEPT !.run = pod[p].run + 1]]
    /\ UNCHANGED <<record, userKept, object, objectSeen, eventsOf>> /\ AsksUnchanged

\* A pod that a node rejects or loses ends without a report.
PodMoves(p) ==
    /\ pod[p].run > 0
    /\ \/ pod[p].phase = "Pending" /\ pod' = [pod EXCEPT ![p].phase = "Running"]
       \/ /\ pod[p].phase \in {"Pending", "Running"}
          /\ \E report \in {"none", "conditions", "whole"} :
                pod' = [pod EXCEPT ![p].phase = "Failed", ![p].report = report]
       \/ /\ pod[p].phase = "Running"
          /\ pod' = [pod EXCEPT ![p].phase = "Succeeded", ![p].report = "whole"]
    /\ UNCHANGED <<record, userKept, object, objectSeen, eventsOf>> /\ AsksUnchanged

\* Its node is drained, or somebody deletes it.
PodGoes(p) ==
    /\ pod[p].run > 0 /\ pod[p].phase # "gone"
    /\ pod' = [pod EXCEPT ![p].phase = "gone", ![p].report = "none"]
    /\ UNCHANGED <<record, userKept, object, objectSeen, eventsOf>> /\ AsksUnchanged

EventIsRecorded(p) ==
    /\ p \notin eventsOf /\ (p \in PodIndex => pod[p].run > 0)
    /\ eventsOf' = eventsOf \cup {p}
    /\ UNCHANGED <<record, userKept, object, objectSeen, pod>> /\ AsksUnchanged

\* A queueing task is admitted: its job is created, and later its row gets the name.
TaskIsAdmitted ==
    /\ kind = "aijob" /\ ~record.named /\ record.kept /\ ~record.deleted
    /\ \/ ~object.there /\ object' = [object EXCEPT !.there = TRUE] /\ UNCHANGED record
       \/ /\ object.there
          /\ record' = [record EXCEPT !.named = TRUE, !.status = "Pending"]
          /\ UNCHANGED object
    /\ UNCHANGED <<userKept, objectSeen, pod, eventsOf>> /\ AsksUnchanged

\* The controller of the job writes its status, or removes the object.
ObjectMoves ==
    /\ object.there
    /\ \/ ~object.running /\ object' = [object EXCEPT !.running = TRUE, !.version = @ + 1]
       \/ object' = [object EXCEPT !.there = FALSE]
    /\ UNCHANGED <<record, userKept, objectSeen, pod, eventsOf>> /\ AsksUnchanged

CacheCatchesUp ==
    /\ objectSeen # object /\ objectSeen' = object
    /\ UNCHANGED <<record, userKept, object, pod, eventsOf>> /\ AsksUnchanged

\* A user deletes the job: a task keeps its row, marked.
RecordGoes ==
    /\ record.kept /\ ~record.deleted
    /\ record' = IF kind = "aijob" THEN [record EXCEPT !.deleted = TRUE]
                                   ELSE [record EXCEPT !.kept = FALSE]
    /\ UNCHANGED <<userKept, object, objectSeen, pod, eventsOf>> /\ AsksUnchanged

OwnerGoes ==
    /\ userKept /\ userKept' = FALSE
    /\ UNCHANGED <<record, object, objectSeen, pod, eventsOf>> /\ AsksUnchanged

\* The handler of the deletion of a sparse job: no row is involved.
DeleteSparse ==
    /\ kind = "spjob" /\ objectSeen.there /\ object.there
    /\ object' = [object EXCEPT !.there = FALSE]
    /\ UNCHANGED <<record, userKept, objectSeen, pod, eventsOf>> /\ AsksUnchanged

\* What a page's requests run beside: for the lists everything, for the token
\* the object and the pod of the notebook, for the events the pods.
ListsNext ==
    \/ \E p \in PodIndex : PodStarts(p) \/ PodMoves(p) \/ PodGoes(p)
    \/ ObjectMoves \/ CacheCatchesUp \/ RecordGoes \/ OwnerGoes \/ DeleteSparse \/ TaskIsAdmitted

TokenNext ==
    \/ \E r \in TokenCalls : \/ GetJobToken(r) \/ GetJupyterToken(r) \/ getPodLog(r)
                            \/ CacheJobToken(r) \/ CacheJupyterToken(r)
    \/ PodStarts(1) \/ PodMoves(1) \/ PodGoes(1) \/ ObjectMoves \/ CacheCatchesUp \/ RecordGoes \/ TaskIsAdmitted

EventsNext ==
    \/ JobEvents \/ TaskEvents \/ QueueingEvent \/ SparseEvents
    \/ ListEventPods \/ EventsDone \/ EventsFail
    \/ \E p \in PodIndex : \/ JobPodEvents(p) \/ TaskPodEvents(p) \/ SparsePodEvents(p)
                          \/ PodStarts(p) \/ PodGoes(p)
    \/ \E p \in PodIndex \cup {0} : EventIsRecorded(p)
    \/ CacheCatchesUp \/ RecordGoes \/ TaskIsAdmitted

-----------------------------------------------------------------------------

\* A job that a list of the viewer's shows opens, with the same status, on
\* every page there is for it, whatever of its owner, object and pods is gone;
\* the list of all tasks shows it alike.  Excepted is the detail of a sparse job
\* whose first pod ended without a report of its containers, which the list shows:
\* GetByName takes the first container as it comes.
PagesAgree ==
    \A v \in Viewers : \A e \in Lists(v) : e.what = "entry" =>
        /\ GetJobDetail(v) = Answered(e.status) \/ (kind = "spjob" /\ NoEnd)
        /\ GetJobPods(v).ok /\ GetJobYaml(v).ok
        /\ kind = "vcjob" => GetJobTemplate(v).ok
        /\ kind = "aijob" => ListAllJob = e

\* However the requests interleave and the pods are replaced, everyone gets
\* the one token that is kept with the Volcano job.
TokensAgree == kind = "vcjob" => tokens \subseteq {object.token}

\* The events page of a Volcano job or a task shows all that the pods it listed had
\* before it was asked for, and the job's own only when they had none; a task that
\* has no name of a job yet shows none of either.
EventsComplete ==
    eventsAsk.at = "done" /\ kind # "spjob" =>
        LET had == eventsAsk.before \cap eventsAsk.listed
        IN  /\ had \subseteq eventsAsk.got
            /\ 0 \in eventsAsk.got => had = {}
            /\ 0 \in eventsAsk.before => eventsAsk.got # {}

-----------------------------------------------------------------------------
(* The three together, and what is inductive of them. *)

PagesNext == ListsNext \/ TokenNext \/ EventsNext

PagesSpec == PagesInit /\ [][PagesNext]_pagesVars

PodPhase == {"Pending", "Running", "Succeeded", "Failed", "gone"}

PagesTypeOK ==
    /\ kind \in {"vcjob", "aijob", "spjob"}
    /\ object \in [there : BOOLEAN, running : BOOLEAN, version : Nat, token : Nat]
    /\ objectSeen \in [there : BOOLEAN, running : BOOLEAN, version : Nat, token : Nat]
    /\ pod \in [PodIndex -> [run : Nat, phase : PodPhase, report : {"none", "conditions", "whole"}]]
    /\ eventsOf \subseteq PodIndex \cup {0}
    /\ tokenAsk \in [TokenCalls -> [at : {"idle", "log", "cache"}, copy : Nat, found : Nat]]
    /\ eventsAsk \in [at : {"idle", "list", "pods", "done", "queueing"}, got : SUBSET (PodIndex \cup {0}),
                      listed : SUBSET PodIndex, todo : SUBSET PodIndex, flag : BOOLEAN,
                      before : SUBSET (PodIndex \cup {0})]

\* A copy is an older version of the object, and the same one at the same version.
CopiesAreOld ==
    /\ objectSeen.version <= object.version
    /\ objectSeen.version = object.version => objectSeen.token = object.token

\* A token is put where there is none: who still may write, read that there was none.
WritesTheFirst == \A r \in TokenCalls : tokenAsk[r].at \in {"log", "cache"} =>
    /\ tokenAsk[r].copy <= object.version
    /\ tokenAsk[r].copy = object.version => object.token = NoToken
    /\ tokenAsk[r].at = "cache" => tokenAsk[r].found # NoToken

\* Of a Volcano job, tokens are answered that are kept with it.
TokensAreKept == kind = "vcjob" =>
    /\ tokens \subseteq {object.token}
    /\ object.token = NoToken => tokens = {}
    /\ objectSeen.token \in {NoToken, object.token}

\* What is collected while the pods are gone through: of those that are through.
CollectedSoFar ==
    LET ask == eventsAsk
        through == ask.listed \ ask.todo
    IN  /\ ask.at = "list" => ask.got = ask.before \cap {0} /\ ~ask.flag
        /\ ask.at \in {"pods", "done"} /\ kind # "spjob" =>
              IF ask.flag THEN /\ ask.got \subseteq PodIndex /\ ask.got # {}
                               /\ ask.before \cap through \subseteq ask.got
                          ELSE ask.got = ask.before \cap {0} /\ ask.before \cap through = {}
        /\ ask.before \subseteq eventsOf
        /\ ask.todo \subseteq ask.listed
        /\ ask.at = "done" => ask.todo = {}
        /\ ask.at \in {"pods", "done"} /\ kind = "aijob" =>
              ask.listed \subseteq {1} /\ (ask.flag => ask.todo = {})

PagesInv == PagesTypeOK /\ CopiesAreOld /\ WritesTheFirst /\ TokensAreKept /\ CollectedSoFar
================================================================================
