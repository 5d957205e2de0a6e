------------------------------ MODULE Profiler ------------------------------
(***************************************************************************)
(* The profiler of best-effort EMIAS tasks (pkg/aitaskctl/profiler.go) and *)
(* the keyed queue it feeds from (pkg/util/queue/queue.go).  The scheduler *)
(* submits a task, the profiler's loop makes a profiling pod for the last  *)
(* one queued, looks at all pods, writes the result into the task's row    *)
(* and removes the pod; a delete request takes the task out of it all.     *)
(*                                                                         *)
(* The three run concurrently, and the queue has no lock ("todo: add lock  *)
(* to taskQueue", profiler.go:37).  A step of the model reaches from one   *)
(* call of the database, the API server or Prometheus to the next, but an  *)
(* operation on the queue lasts: one goroutine enters it, and leaves it    *)
(* with its effect.  Two that are inside at one time race for the slice    *)
(* and the map, and what they leave is arbitrary.                          *)
(***************************************************************************)
EXTENDS Naturals, FiniteSets, FiniteSetsExt, Sequences, SequencesExt

CONSTANTS ProfileTasks,  \* ids of best-effort tasks of one account
          CutTasks,      \* those that may be deleted
          Command,       \* task type and command: the key of the cache
          MaxProfFaults  \* bound: calls that fail, crashes, and operations that overlap

\* Ids are primary keys, which count from 1.
ASSUME TaskIds == ProfileTasks \subseteq Nat \ {0}

VARIABLES
    aiTask,    \* rows: profile_status, status, is_deleted
    waiting,   \* keys of the user's best-effort queue
    obj,       \* ProfileStatus in the objects of that queue
    keys,      \* Profiler.taskQueue: keys
    items,     \* Profiler.taskQueue: the keys of its map
    inside,    \* the goroutines in an operation on taskQueue
    racing,    \* those whose operation overlaps another one
    torn,      \* the tasks that the operations which overlap may write
    harmed,    \* history: tasks that were torn in the life of the process
    sched,     \* the schedule goroutine
    prof,      \* the profiler's goroutine
    cut,       \* a delete request
    profPod,   \* profiling pods, named after their tasks
    cached,    \* keys of profileCache
    forgone,   \* history: tasks a failed call, a crash or a lost pod took away
    profFaults

queueVars == <<keys, items, inside, racing, torn, harmed>>
profVars  == <<aiTask, waiting, obj, queueVars, sched, prof, cut, profPod, cached, forgone, profFaults>>

ProfileStatus == {"unprofiled", "queued", "profiling", "finish", "failed"}
Goroutines == {"sched", "prof", "cut"}
PodPhases == {"none", "pending", "running", "overdue", "unknown", "ended"}   \* Succeeded or Failed

IdleSched == [pc |-> "idle", todo |-> {}, candidates |-> {}, task |-> 0]
IdleProf  == [pc |-> "idle", task |-> 0, pods |-> {}, phase |-> "none", result |-> "none"]
IdleCut   == [pc |-> "idle", task |-> 0]

ProfilerInit ==
    /\ aiTask = [t \in ProfileTasks |-> [stat |-> "unprofiled", status |-> "Queueing", deleted |-> FALSE]]
    /\ waiting = ProfileTasks /\ obj = [t \in ProfileTasks |-> "unprofiled"]
    /\ keys = <<>> /\ items = {} /\ inside = {} /\ racing = {} /\ torn = {} /\ harmed = {}
    /\ sched = IdleSched /\ prof = IdleProf /\ cut = IdleCut
    /\ profPod = [t \in ProfileTasks |-> "none"]
    /\ cached = {} /\ forgone = {} /\ profFaults = 0

ProfFault == profFaults < MaxProfFaults /\ profFaults' = profFaults + 1
NoProfFault == UNCHANGED profFaults

-----------------------------------------------------------------------------
(* The keyed queue: a list of keys and a map from key to object.           *)

\* Who is about to call the queue, and about which task: Top is not told one.
Wants(a) == \/ a = "sched" /\ sched.pc = "push"
            \/ a = "prof" /\ prof.pc \in {"top", "drop"}
            \/ a = "cut" /\ cut.pc = "queue"
OpTask(a) == CASE a = "sched" -> sched.task [] a = "prof" -> prof.task [] a = "cut" -> cut.task
Involved(as) == ToSet(keys) \cup items \cup ({OpTask(a) : a \in as} \cap ProfileTasks)

\* An operation begins.  If another is under way the two may write each other's
\* slice and map from now on, and with them all the keys there are.
Enter(a) ==
    /\ Wants(a) /\ a \notin inside
    /\ inside' = inside \cup {a}
    /\ IF inside = {} THEN UNCHANGED <<racing, torn, harmed, profFaults>>
       ELSE /\ ProfFault
            /\ racing' = inside'
            /\ torn' = torn \cup Involved(inside')
            /\ harmed' = harmed \cup torn'
    /\ UNCHANGED <<aiTask, waiting, obj, keys, items, sched, prof, cut, profPod, cached, forgone>>

Leave(a) ==
    /\ a \in inside
    /\ inside' = inside \ {a} /\ racing' = racing \ {a}
    /\ torn' = IF racing \subseteq {a} THEN {} ELSE torn
    /\ UNCHANGED harmed

\* An operation ends and leaves the list ks and the map is.  After a race the list
\* is any mix of the keys: an append may be lost, a key removed may come back, one
\* may be there twice.  No list is longer than the pushes there were, one a task.
Ends(a, ks, is) ==
    /\ Leave(a)
    /\ IF a \in racing THEN keys' \in SeqOf(torn, Cardinality(ProfileTasks)) /\ items' \in {items, is}
       ELSE keys' = ks /\ items' = is

PushIfNotPresent(t) ==
    Ends("sched", IF t \in items THEN keys ELSE Append(keys, t), items \cup {t})

\* Top takes the last key off the list and leaves the object in the map.
Top == Ends("prof", Front(keys), items)

\* Mutant: a Delete that looks for the key in the list.
Delete_KeysOnly(a, t) ==
    Ends(a, IF t \in ToSet(keys) THEN RemoveFirst(keys, t) ELSE keys,
            IF t \in ToSet(keys) THEN items \ {t} ELSE items)

Delete(a, t) == Ends(a, IF t \in items THEN RemoveFirst(keys, t) ELSE keys, items \ {t})

KeptQueue == UNCHANGED queueVars

-----------------------------------------------------------------------------
(* What a pod does on its own.                                             *)

PodMoves(t, phase) ==
    /\ \/ profPod[t] = "pending" /\ phase \in {"running", "ended"}
       \/ profPod[t] = "running" /\ phase \in {"overdue", "unknown", "ended"}
    /\ profPod' = [profPod EXCEPT ![t] = phase]
    /\ UNCHANGED <<aiTask, waiting, obj, queueVars, sched, prof, cut, cached, forgone, profFaults>>

\* What is left of a row's profile when nothing holds it any more.
Unfinished(row) == {t \in ProfileTasks : row[t].stat \in {"queued", "profiling"}}

\* The process dies and starts again: TaskController.Init loads the queueing
\* tasks with the profile status of their rows, and the profiler starts empty.
Restart ==
    /\ waiting' = {t \in ProfileTasks : aiTask'[t].status = "Queueing" /\ ~aiTask'[t].deleted}
    /\ obj' = [t \in ProfileTasks |-> aiTask'[t].stat]
    /\ keys' = <<>> /\ items' = {} /\ inside' = {} /\ racing' = {} /\ torn' = {} /\ harmed' = {}
    /\ sched' = IdleSched /\ prof' = IdleProf /\ cut' = IdleCut
    /\ cached' = {}
    /\ forgone' = forgone \cup {t \in Unfinished(aiTask') : profPod'[t] = "none"}

ProfilerCrash ==
    /\ ProfFault
    /\ UNCHANGED <<aiTask, profPod>>
    /\ Restart

-----------------------------------------------------------------------------
(* The scheduler: unprofiled tasks are submitted, the others are admitted  *)
(* once their profile is there.                                            *)

SchedUnchanged == UNCHANGED <<prof, cut, profPod, cached>>

\* The tasks to submit come first, then the candidates that are sorted; a round with
\* neither is over.
Round(s) == IF s.todo = {} /\ s.candidates = {} THEN IdleSched ELSE s

\* Only the scheduler writes the objects, so that one look at them is as good as many.
ListWaiting ==
    /\ sched.pc = "idle" /\ waiting # {}
    /\ LET unprofiled == {t \in waiting : obj[t] = "unprofiled"}
       IN  sched' = [IdleSched EXCEPT !.pc = "list", !.todo = unprofiled,
                                      !.candidates = waiting \ unprofiled]
    /\ UNCHANGED <<aiTask, waiting, obj, forgone, profFaults>> /\ KeptQueue /\ SchedUnchanged

\* The queue is in the order of submission, which is the order of the ids, and
\* the candidates are sorted so.
NextListed(t) == sched.pc = "list" /\ t \in sched.todo /\ \A u \in sched.todo : t <= u
Handled(t)    == Round([sched EXCEPT !.pc = "list", !.todo = @ \ {t}, !.task = 0])

\* SubmitProfileTask: the row and the cache are read.
SubmitLook(t) ==
    /\ NextListed(t)
    /\ \/ ProfFault /\ sched' = Handled(t) /\ obj' = [obj EXCEPT ![t] = "queued"]
       \/ /\ NoProfFault
          /\ \/ /\ Command[t] \in cached
                /\ sched' = [sched EXCEPT !.pc = "finish", !.task = t] /\ UNCHANGED obj
             \/ /\ Command[t] \notin cached /\ aiTask[t].stat = "unprofiled"
                /\ sched' = [sched EXCEPT !.pc = "queue", !.task = t] /\ UNCHANGED obj
             \/ /\ Command[t] \notin cached /\ aiTask[t].stat # "unprofiled"
                /\ sched' = Handled(t) /\ obj' = [obj EXCEPT ![t] = "queued"]
    /\ UNCHANGED <<aiTask, waiting, forgone>> /\ KeptQueue /\ SchedUnchanged

\* A row's profile is written, or the error is only logged.
UpdateProfilingStat(t, stat, status) ==
    \/ /\ NoProfFault /\ UNCHANGED forgone
       /\ aiTask' = [aiTask EXCEPT ![t].stat = stat,
                                   ![t].status = IF stat = "finish" /\ status # "none" THEN status ELSE @]
    \/ ProfFault /\ forgone' = forgone \cup {t} /\ UNCHANGED aiTask

SubmitFromCache(t) ==
    /\ sched.pc = "finish" /\ sched.task = t
    /\ UpdateProfilingStat(t, "finish", "none")
    /\ sched' = Handled(t) /\ obj' = [obj EXCEPT ![t] = "queued"]
    /\ UNCHANGED waiting /\ KeptQueue /\ SchedUnchanged

SubmitQueued(t) ==
    /\ sched.pc = "queue" /\ sched.task = t
    /\ UpdateProfilingStat(t, "queued", "none")
    /\ sched' = [sched EXCEPT !.pc = "push"]
    /\ UNCHANGED <<waiting, obj>> /\ KeptQueue /\ SchedUnchanged

SubmitPush(t) ==
    /\ sched.pc = "push" /\ sched.task = t
    /\ PushIfNotPresent(t)
    /\ sched' = Handled(t) /\ obj' = [obj EXCEPT ![t] = "queued"]
    /\ UNCHANGED <<aiTask, waiting, forgone, profFaults>> /\ SchedUnchanged

\* A candidate's row decides; admitTask (TaskController) may refuse it.
Admit(t) ==
    /\ sched.pc = "list" /\ sched.todo = {}
    /\ t \in sched.candidates /\ \A u \in sched.candidates : t <= u
    /\ sched' = Round([sched EXCEPT !.candidates = @ \ {t}])
    /\ \/ ProfFault /\ UNCHANGED <<aiTask, waiting>>
       \/ /\ NoProfFault
          /\ \/ aiTask[t].stat \in {"queued", "profiling"} /\ UNCHANGED <<aiTask, waiting>>
             \/ aiTask[t].stat = "failed" /\ waiting' = waiting \ {t} /\ UNCHANGED aiTask
             \/ /\ aiTask[t].stat \in {"unprofiled", "finish"}
                /\ \/ UNCHANGED <<aiTask, waiting>>
                   \/ aiTask' = [aiTask EXCEPT ![t].status = "Created"] /\ waiting' = waiting \ {t}
    /\ UNCHANGED <<obj, forgone>> /\ KeptQueue /\ SchedUnchanged

-----------------------------------------------------------------------------
(* The profiler's loop, every five seconds.                                *)

ProfUnchanged == UNCHANGED <<waiting, obj, sched, cut>>

\* The length of the queue is read; the list of pods is next when it is empty.
Tick ==
    /\ prof.pc = "idle"
    /\ prof' = [IdleProf EXCEPT !.pc = IF keys = <<>> THEN "pods" ELSE "top"]
    /\ UNCHANGED <<aiTask, profPod, cached, forgone, profFaults>> /\ KeptQueue /\ ProfUnchanged

\* The key may have no object, and in a race it may be any.
TakeTop ==
    /\ prof.pc = "top"
    /\ keys # <<>> \/ "prof" \in racing
    /\ Top
    /\ \E got \in IF "prof" \in racing THEN torn \cup {0} ELSE {IF Last(keys) \in items THEN Last(keys) ELSE 0} :
          prof' = IF got = 0 THEN IdleProf ELSE [prof EXCEPT !.pc = "create", !.task = got]
    /\ UNCHANGED <<aiTask, profPod, cached, forgone, profFaults>> /\ ProfUnchanged

\* A delete request emptied the queue after its length was read; or two operations
\* met in the slice or the map, which Go may answer with a fatal error.
QueuePanics ==
    /\ \/ prof.pc = "top" /\ "prof" \in inside /\ keys = <<>>
       \/ racing # {}
    /\ UNCHANGED <<aiTask, profPod, profFaults>>
    /\ Restart

\* The pod's name is the task's, so there can be one only.
CreateProfilePodFromTask ==
    /\ prof.pc = "create"
    /\ \/ /\ NoProfFault /\ profPod[prof.task] = "none"
          /\ profPod' = [profPod EXCEPT ![prof.task] = "pending"]
          /\ prof' = [prof EXCEPT !.pc = "mark", !.result = "profiling"]
       \/ /\ IF profPod[prof.task] = "none" THEN ProfFault ELSE NoProfFault
          /\ UNCHANGED profPod
          /\ prof' = [prof EXCEPT !.pc = "mark", !.result = "failed"]
    /\ UNCHANGED <<aiTask, cached, forgone>> /\ KeptQueue /\ ProfUnchanged

MarkCreated ==
    /\ prof.pc = "mark"
    /\ UpdateProfilingStat(prof.task, prof.result, "none")
    /\ prof' = [prof EXCEPT !.pc = "drop", !.result = "none"]
    /\ UNCHANGED <<profPod, cached>> /\ KeptQueue /\ ProfUnchanged

\* Mutant: whatever is last in the queue is dropped.
DropTask_Pop ==
    /\ prof.pc = "drop"
    /\ Ends("prof", IF keys = <<>> THEN keys ELSE Front(keys),
                    IF keys = <<>> THEN items ELSE items \ {Last(keys)})
    /\ prof' = [IdleProf EXCEPT !.pc = "pods"]
    /\ UNCHANGED <<aiTask, profPod, cached, forgone, profFaults>> /\ ProfUnchanged

DropTask ==
    /\ prof.pc = "drop"
    /\ Delete("prof", prof.task)
    /\ prof' = [IdleProf EXCEPT !.pc = "pods"]
    /\ UNCHANGED <<aiTask, profPod, cached, forgone, profFaults>> /\ ProfUnchanged

\* Pods that run within their time are left alone.
ToLookAt == {<<t, profPod[t]>> : t \in {u \in ProfileTasks : profPod[u] \notin {"none", "running"}}}

\* The round is over when no pod is left.
NextPod(pods) == IF pods = {} THEN IdleProf ELSE [IdleProf EXCEPT !.pc = "each", !.pods = pods]

ListProfilingPods ==
    /\ prof.pc = "pods"
    /\ \/ ProfFault /\ prof' = IdleProf
       \/ /\ NoProfFault
          /\ prof' = NextPod(ToLookAt)
    /\ UNCHANGED <<aiTask, profPod, cached, forgone>> /\ KeptQueue /\ ProfUnchanged

\* The next pod of the list, as it was when the list was made.  A row that cannot be
\* read is a nil task: the cache lookup of a pending pod panics on it.
Look(t, phase) ==
    /\ prof.pc = "each" /\ <<t, phase>> \in prof.pods
    /\ \A p \in prof.pods : t <= p[1]
    /\ LET Rest == [prof EXCEPT !.pods = @ \ {<<t, phase>>}, !.task = t, !.phase = phase]
       IN  \/ phase = "pending" /\ ProfFault /\ UNCHANGED <<aiTask, profPod>> /\ Restart
           \/ /\ NoProfFault \/ (phase # "pending" /\ ProfFault)
              /\ UNCHANGED <<aiTask, profPod, cached, forgone>> /\ KeptQueue /\ ProfUnchanged
              /\ \/ /\ phase = "pending" /\ Command[t] \in cached
                    /\ prof' = [Rest EXCEPT !.pc = "result", !.result = "finish"]
                 \/ /\ phase = "pending" /\ Command[t] \notin cached
                    /\ prof' = NextPod(Rest.pods)
                 \/ phase = "unknown" /\ prof' = [Rest EXCEPT !.pc = "remove"]
                 \/ /\ phase \in {"overdue", "ended"}
                    /\ \E r \in IF profFaults' = profFaults THEN {"measured", "failed"} ELSE {"failed", "nil"} :
                          prof' = [Rest EXCEPT !.pc = "result", !.result = r]

\* A pod that succeeded or failed ends its task with the same status.
JobStatus(phase) == IF phase = "ended" THEN "Ended" ELSE "none"

\* The result is written and remembered for tasks of the same command.
WriteProfile ==
    /\ prof.pc = "result" /\ prof.result # "nil"
    /\ UpdateProfilingStat(prof.task, IF prof.result = "failed" THEN "failed" ELSE "finish", JobStatus(prof.phase))
    /\ cached' = IF prof.result = "measured" THEN cached \cup {Command[prof.task]} ELSE cached
    /\ prof' = [prof EXCEPT !.pc = "remove", !.result = "none"]
    /\ UNCHANGED profPod /\ KeptQueue /\ ProfUnchanged

\* storeProfileCache of a nil task: the profile is written, then the process dies.
StorePanics ==
    /\ prof.pc = "result" /\ prof.result = "nil"
    /\ aiTask' = [aiTask EXCEPT ![prof.task].stat = "finish",
                                ![prof.task].status = IF JobStatus(prof.phase) = "none" THEN @ ELSE JobStatus(prof.phase)]
    /\ UNCHANGED <<profPod, profFaults>>
    /\ Restart

RemovePod ==
    /\ prof.pc = "remove"
    /\ \/ ProfFault /\ UNCHANGED <<profPod, forgone>>
       \/ /\ NoProfFault /\ profPod' = [profPod EXCEPT ![prof.task] = "none"]
          /\ forgone' = IF prof.phase = "unknown" THEN forgone \cup {prof.task} ELSE forgone
    /\ prof' = NextPod(prof.pods)
    /\ UNCHANGED <<aiTask, cached>> /\ KeptQueue /\ ProfUnchanged

-----------------------------------------------------------------------------
(* A delete request: AIJobMgr.Delete and TaskUpdated(DeleteTask).          *)

CutUnchanged == UNCHANGED <<obj, sched, prof, cached>>

CutLook(t) ==
    /\ cut.pc = "idle" /\ t \in CutTasks /\ ~aiTask[t].deleted
    /\ \/ ProfFault /\ UNCHANGED waiting /\ cut' = [pc |-> "delete", task |-> t]
       \/ /\ NoProfFault /\ waiting' = waiting \ {t}
          /\ cut' = [pc |-> IF aiTask[t].stat \in {"queued", "profiling"} THEN "read" ELSE "delete", task |-> t]
    /\ UNCHANGED <<aiTask, profPod, forgone>> /\ KeptQueue /\ CutUnchanged

\* DeleteProfilePodFromTask: the row is read again, then the queue forgets it.
CutRead ==
    /\ cut.pc = "read"
    /\ \/ ProfFault /\ cut' = [cut EXCEPT !.pc = "delete"]
       \/ NoProfFault /\ cut' = [cut EXCEPT !.pc = "queue"]
    /\ UNCHANGED <<aiTask, waiting, profPod, forgone>> /\ KeptQueue /\ CutUnchanged

CutQueue ==
    /\ cut.pc = "queue"
    /\ Delete("cut", cut.task)
    /\ cut' = [cut EXCEPT !.pc = "pod"]
    /\ UNCHANGED <<aiTask, waiting, profPod, forgone, profFaults>> /\ CutUnchanged

CutPod ==
    /\ cut.pc = "pod"
    /\ \/ ProfFault /\ UNCHANGED profPod
       \/ NoProfFault /\ profPod' = [profPod EXCEPT ![cut.task] = "none"]
    /\ cut' = [cut EXCEPT !.pc = "delete"]
    /\ UNCHANGED <<aiTask, waiting, forgone>> /\ KeptQueue /\ CutUnchanged

CutDelete ==
    /\ cut.pc = "delete"
    /\ \/ ProfFault /\ forgone' = forgone \cup {cut.task} /\ UNCHANGED aiTask
       \/ NoProfFault /\ aiTask' = [aiTask EXCEPT ![cut.task].deleted = TRUE] /\ UNCHANGED forgone
    /\ cut' = IdleCut
    /\ UNCHANGED <<waiting, profPod>> /\ KeptQueue /\ CutUnchanged

-----------------------------------------------------------------------------
SubmitProfileTask(t) == SubmitLook(t) \/ SubmitFromCache(t) \/ SubmitQueued(t) \/ SubmitPush(t)

ProfilerNext ==
    \/ \E t \in ProfileTasks :
          \/ SubmitProfileTask(t) \/ Admit(t) \/ CutLook(t)
          \/ \E phase \in PodPhases : PodMoves(t, phase) \/ Look(t, phase)
    \/ ListWaiting
    \/ Tick \/ TakeTop \/ QueuePanics \/ CreateProfilePodFromTask \/ MarkCreated \/ DropTask
    \/ ListProfilingPods \/ WriteProfile \/ StorePanics \/ RemovePod
    \/ CutRead \/ CutQueue \/ CutPod \/ CutDelete
    \/ \E a \in Goroutines : Enter(a)
    \/ ProfilerCrash

ProfilerSpec == ProfilerInit /\ [][ProfilerNext]_profVars

-----------------------------------------------------------------------------
(* Properties.                                                             *)

\* No element twice, but perhaps those of excepted.
OnceBut(s, excepted) == \A i, j \in DOMAIN s : s[i] = s[j] /\ s[i] \notin excepted => i = j

\* The list and the map of the queue agree, however the three that share it take
\* turns: no key twice, no key without an object, and no object without a key but
\* the one the profiler has taken with Top and not yet deleted.  Excepted are the
\* tasks that were in the hands of two operations at one time: the queue has no lock.
QueueWhole ==
    /\ OnceBut(keys, harmed)
    /\ ToSet(keys) \subseteq items \cup harmed
    /\ items \ (ToSet(keys) \cup harmed) \subseteq
          IF prof.pc \in {"create", "mark", "drop"} THEN {prof.task} ELSE {}

\* A task whose row says that it is queued for profiling or being profiled, which
\* the scheduler passes over in every round, is in somebody's hands: about to be
\* pushed, in the list that the profiler takes from, with the profiler, in a pod,
\* or being deleted.  What a failed write, a crash or a pod in an unknown state took
\* away is excepted, and what two operations on the queue raced for.
NoneForgotten ==
    \A t \in Unfinished(aiTask) \ (forgone \cup harmed) :
       \/ aiTask[t].deleted
       \/ t \in ToSet(keys) \/ profPod[t] # "none"
       \/ sched.pc = "push" /\ sched.task = t
       \/ prof.pc \in {"create", "mark", "drop", "result", "remove"} /\ prof.task = t
       \/ cut.pc # "idle" /\ cut.task = t

-----------------------------------------------------------------------------
(* The inductive invariant *)

AiRow      == [stat : ProfileStatus, status : {"Queueing", "Created", "Ended"},
               deleted : BOOLEAN]
SchedState == [pc : {"idle", "list", "finish", "queue", "push"}, todo : SUBSET ProfileTasks,
               candidates : SUBSET ProfileTasks, task : ProfileTasks \cup {0}]
ProfState  == [pc : {"idle", "pods", "top", "create", "mark", "drop", "each", "result", "remove"},
               task : ProfileTasks \cup {0}, pods : SUBSET (ProfileTasks \X PodPhases),
               phase : PodPhases,
               result : {"none", "profiling", "failed", "finish", "measured", "nil"}]
CutState   == [pc : {"idle", "read", "queue", "pod", "delete"}, task : ProfileTasks \cup {0}]

ProfilerTypeOK ==
    /\ aiTask \in [ProfileTasks -> AiRow]
    /\ obj \in [ProfileTasks -> ProfileStatus] /\ waiting \in SUBSET ProfileTasks
    /\ keys \in Seq(ProfileTasks) /\ items \in SUBSET ProfileTasks
    /\ sched \in SchedState /\ prof \in ProfState /\ cut \in CutState
    /\ profPod \in [ProfileTasks -> PodPhases]
    /\ harmed \subseteq ProfileTasks
    /\ sched.pc \in {"finish", "queue", "push"} => sched.task \in ProfileTasks
    /\ prof.pc \in {"create", "mark", "drop", "result", "remove"} => prof.task \in ProfileTasks
    /\ cut.pc # "idle" => cut.task \in ProfileTasks

Taken   == prof.pc \in {"create", "mark", "drop"}
Judging == prof.pc \in {"result", "remove"}

\* The task is deleted, is being deleted, or was taken away by a failure or a race.
OffTheHook(t) == aiTask[t].deleted \/ t \in forgone \cup harmed \/ (cut.pc # "idle" /\ cut.task = t)

\* A task is submitted once in the life of the process.
SubmittedOnce ==
    /\ \A t \in sched.todo : obj[t] = "unprofiled"
    /\ sched.pc \in {"finish", "queue", "push"} => obj[sched.task] = "unprofiled"
    /\ \A t \in items \ harmed : obj[t] # "unprofiled"
    /\ Taken => obj[prof.task] # "unprofiled" \/ prof.task \in harmed

\* A pod that the profiler knows is there, unless its task was deleted; and once
\* the profiler is done with a task, its row says so or a pod goes on.
PodsAreThere ==
    /\ \A p \in prof.pods : profPod[p[1]] # "none" \/ OffTheHook(p[1])
    /\ \A p, q \in prof.pods : p[1] = q[1] => p = q
    /\ Judging => /\ \A p \in prof.pods : p[1] # prof.task
                  /\ profPod[prof.task] # "none" \/ OffTheHook(prof.task)
    /\ prof.pc = "mark" => prof.result \in {"profiling", "failed"}
    /\ prof.pc = "mark" /\ prof.result = "profiling" => profPod[prof.task] # "none" \/ OffTheHook(prof.task)

\* What the profiler is done with.
Handed(t) ==
    t \in Unfinished(aiTask) => \/ OffTheHook(t) \/ t \in items
                                \/ (sched.pc = "push" /\ sched.task = t)
DoneWith ==
    /\ prof.pc = "drop" =>
          \/ prof.task \notin Unfinished(aiTask) \/ OffTheHook(prof.task)
          \/ profPod[prof.task] # "none"
    /\ prof.pc = "remove" /\ prof.phase # "unknown" => Handed(prof.task)

\* Who is inside called the queue; two inside race, and all they can write
\* is harmed.
RacesKnown ==
    /\ \A a \in inside : a \in Goroutines /\ Wants(a)
    /\ racing \subseteq inside /\ torn \subseteq harmed
    /\ \A a, b \in inside : a # b => a \in racing
    /\ racing # {} => Involved(inside) \subseteq torn

\* NoneForgotten with the map in place of the list.
InHands ==
    \A t \in Unfinished(aiTask) :
       \/ OffTheHook(t)
       \/ t \in items \/ profPod[t] # "none"
       \/ sched.pc = "push" /\ sched.task = t
       \/ prof.pc \in {"create", "mark", "drop", "result", "remove"} /\ prof.task = t

ProfilerInv ==
    /\ ProfilerTypeOK /\ RacesKnown /\ QueueWhole /\ SubmittedOnce /\ PodsAreThere /\ DoneWith
    /\ InHands
=============================================================================
