--------------------------- MODULE TaskController ---------------------------
(***************************************************************************)
(* The EMIAS task controller (pkg/aitaskctl) with everything it shares     *)
(* state with: the task table, the HTTP handlers that submit and delete    *)
(* tasks (internal/handler/aijob), the AIJob reconciler that reports phase *)
(* changes, and the AIJobs in the cluster.                                 *)
(*                                                                         *)
(* Four kinds of goroutine run in one process: the scheduler (a round      *)
(* every 5 seconds), the watcher of jobStatusChan, and one handler per     *)
(* HTTP request.  Every database write, cluster call and locked section is *)
(* an action of its own, so all their interleavings are explored.  The     *)
(* process may crash; Init then rebuilds queues and quota cache from the   *)
(* database.  Profiling (the optional Profiler) is switched off here.      *)
(***************************************************************************)
EXTENDS Quota, Sequences, FiniteSets

CONSTANTS Accounts,       \* every account that may ever exist
          InitAccounts,   \* the accounts in the database at the first start
          Owner,          \* Owner[t]: the account that submits task t
          Jupyter,        \* the interactive tasks: their AIJob needs an ingress
          Deletable,      \* tasks some user asks to delete
          Preemptable,    \* tasks whose AIJob the cluster may preempt
          QuotaChoices,   \* quotas an administrator may give an account
          InitQuota,      \* the quota of every account at the first start
          Faults,         \* which calls may fail: "db", "api", "ingress", "crash"
          MaxEvents       \* bound on undelivered phase events per AIJob

ASSUME AccountsType == InitAccounts \subseteq Accounts
ASSUME OwnerType == Owner \in [Tasks -> Accounts]
ASSUME QuotaType == \A q \in QuotaChoices \cup {InitQuota} : IsNatResourceList(q)
ASSUME MaxEventsType == MaxEvents \in Nat

VARIABLES
    db,          \* the ai_tasks table
    accounts,    \* rows of the accounts table
    deserved,    \* their quota column
    up,          \* FALSE while the process initialises
    inited,      \* accounts the loop of Init has finished
    loading,     \* tasks AddOrUpdateQuotaInfo has listed and not yet counted
    hasQueue,    \* keys of taskQueue.userQueues
    userQueues,  \* the two queues of each account, as one set of task ids
    quotaInfos,  \* the quota cache
    submit,      \* submit handlers between the insert and the notification
    del,         \* delete handlers: where each is, and the job name it read
    sched,       \* the scheduler: where it is, its candidates, its task
    watch,       \* the completed task whose quota the watcher is about to release
    aijobs,      \* phase of each AIJob in the cluster
    events,      \* phase changes the informer has not handed over yet
    launched     \* history: tasks whose AIJob has been created

vars == <<db, accounts, deserved, up, inited, loading, hasQueue, userQueues,
          quotaInfos, submit, del, sched, watch, aijobs, events, launched>>

DBVars      == <<db, accounts, deserved>>
BootVars    == <<up, inited, loading, hasQueue>>
ClusterVars == <<aijobs, events, launched>>

-----------------------------------------------------------------------------
TaskStatus == {"None", "Queueing", "Created", "Running", "Preempted", "Succeeded", "Failed"}

\* EmiasTaskOcupiedQuotaStatuses; no code path writes Pending.
OccupiedStatuses == {"Created", "Running", "Preempted"}

\* Mutant: tasks whose AIJob exists are queued again by a restart.
QueueingStatuses_Created == {"Queueing", "Created"}

\* EmiasTaskQueueingStatuses.
QueueingStatuses == {"Queueing"}

\* The phases notifyJobStatus reports, and those that end a job.
NotifiedPhases == {"Running", "Preempted", "Succeeded", "Failed"}
CompletedPhases == {"Succeeded", "Failed"}
Phases == {"None", "Pending"} \cup NotifiedPhases

\* Mutants: a failed job keeps its quota; a preempted one gives it back.
IsCompletedStatus_SucceededOnly(p) == p = "Succeeded"
IsCompletedStatus_Preempted(p) == p \in CompletedPhases \cup {"Preempted"}

IsCompletedStatus(p) == p \in CompletedPhases

Row == [status : TaskStatus, jobName : BOOLEAN, isDeleted : BOOLEAN]

SchedSteps == {"idle", "pick", "create", "markFailed", "dequeueFailed",
               "markCreated", "setJobName", "addQuota", "dequeue"}
DeleteSteps == {"idle", "quota", "job", "mark"}

NoTask == 0
IdleSched == [step |-> "idle", candidates |-> {}, task |-> NoTask]
IdleDelete == [step |-> "idle", jobName |-> FALSE]

\* A task the row of which exists, whose owner is a.
TasksOf(a) == {t \in Tasks : Owner[t] = a /\ db[t].status # "None"}

\* ListByUserAndStatuses: deleted rows are left out.
ListByUserAndStatuses(a, statuses) ==
    {t \in TasksOf(a) : db[t].status \in statuses /\ ~db[t].isDeleted}

\* AddTask and InitUserQueue know the two service levels and drop any other.
Queueable(t) == SLO[t] \in {HighSLO, LowSLO}

Init ==
    /\ db = [t \in Tasks |-> [status |-> "None", jobName |-> FALSE, isDeleted |-> FALSE]]
    /\ accounts = InitAccounts
    /\ deserved = [a \in Accounts |-> InitQuota]
    /\ up = FALSE
    /\ inited = {}
    /\ loading = [a \in Accounts |-> {}]
    /\ hasQueue = {}
    /\ userQueues = [a \in Accounts |-> {}]
    /\ quotaInfos = [a \in Accounts |-> NoQuotaInfo]
    /\ submit = {}
    /\ del = [t \in Tasks |-> IdleDelete]
    /\ sched = IdleSched
    /\ watch = NoTask
    /\ aijobs = [t \in Tasks |-> "None"]
    /\ events = [t \in Tasks |-> <<>>]
    /\ launched = {}

-----------------------------------------------------------------------------
(* Initialisation of the process.  Nothing else of it runs meanwhile.      *)

\* AddOrUpdateQuotaInfo(a) of an account that has no entry yet: list the
\* tasks that occupy quota (a failed listing is ignored), then count them.
AddOrUpdateQuotaInfo(a) ==
    /\ a \in accounts
    /\ ~quotaInfos[a].loaded
    /\ quotaInfos' = [quotaInfos EXCEPT ![a] = NewQuotaInfo(deserved[a])]
    /\ \/ loading' = [loading EXCEPT ![a] = ListByUserAndStatuses(a, OccupiedStatuses)]
       \/ "db" \in Faults /\ UNCHANGED loading
    /\ UNCHANGED <<DBVars, up, inited, hasQueue, userQueues, submit, del, sched, watch, ClusterVars>>

\* Init works on one account at a time.
InitQuotaInfo(a) ==
    /\ ~up
    /\ \A b \in Accounts : loading[b] = {}
    /\ \A b \in accounts \ inited : ~quotaInfos[b].loaded
    /\ AddOrUpdateQuotaInfo(a)

\* One turn of the loop that counts the listed tasks.
LoadTask(a, t) ==
    /\ t \in loading[a]
    /\ loading' = [loading EXCEPT ![a] = @ \ {t}]
    /\ quotaInfos' = [quotaInfos EXCEPT ![a] = AddTask(@, t)]
    /\ UNCHANGED <<DBVars, up, inited, hasQueue, userQueues, submit, del, sched, watch, ClusterVars>>

\* The second half of Init's loop body: the queue, unless the listing failed.
InitUserQueue(a) ==
    /\ ~up
    /\ a \in accounts \ inited
    /\ quotaInfos[a].loaded /\ loading[a] = {}
    /\ inited' = inited \cup {a}
    /\ \/ /\ hasQueue' = hasQueue \cup {a}
          /\ userQueues' = [userQueues EXCEPT
                ![a] = {t \in ListByUserAndStatuses(a, QueueingStatuses) : Queueable(t)}]
       \/ "db" \in Faults /\ UNCHANGED <<hasQueue, userQueues>>
    /\ UNCHANGED <<DBVars, up, loading, quotaInfos, submit, del, sched, watch, ClusterVars>>

\* What the Create events of a first listing send to jobStatusChan.
ListedEvents ==
    [t \in Tasks |-> IF aijobs[t] \in NotifiedPhases THEN <<aijobs[t]>> ELSE <<>>]

\* Nothing is initialised when the accounts cannot be listed: Init goes on.
ListingFails == "db" \in Faults /\ inited = {} /\ \A a \in Accounts : ~quotaInfos[a].loaded

\* Start: the goroutines run, and the informer's first listing produces a
\* Create event for every AIJob that exists.
Start ==
    /\ ~up
    /\ accounts \subseteq inited \/ ListingFails
    /\ up' = TRUE
    /\ events' = ListedEvents
    /\ UNCHANGED <<DBVars, inited, loading, hasQueue, userQueues, quotaInfos,
                   submit, del, sched, watch, aijobs, launched>>

\* The process dies and is started again: all that is in memory is gone.
Crash ==
    /\ "crash" \in Faults
    /\ up
    /\ up' = FALSE
    /\ inited' = {}
    /\ loading' = [a \in Accounts |-> {}]
    /\ hasQueue' = {}
    /\ userQueues' = [a \in Accounts |-> {}]
    /\ quotaInfos' = [a \in Accounts |-> NoQuotaInfo]
    /\ submit' = {}
    /\ del' = [t \in Tasks |-> IdleDelete]
    /\ sched' = IdleSched
    /\ watch' = NoTask
    /\ events' = [t \in Tasks |-> <<>>]
    /\ UNCHANGED <<DBVars, aijobs, launched>>

-----------------------------------------------------------------------------
(* The account handlers: both write the database only.  No caller tells    *)
(* the controller, which keeps the limits and the queues of its start.     *)

CreateAccount(a) ==
    /\ up
    /\ a \notin accounts
    /\ accounts' = accounts \cup {a}
    /\ UNCHANGED <<db, deserved, BootVars, userQueues, quotaInfos, submit, del, sched, watch, ClusterVars>>

UpdateAccountQuota(a) ==
    /\ up
    /\ a \in accounts
    /\ \E q \in QuotaChoices \ {deserved[a]} : deserved' = [deserved EXCEPT ![a] = q]
    /\ UNCHANGED <<db, accounts, BootVars, userQueues, quotaInfos, submit, del, sched, watch, ClusterVars>>

-----------------------------------------------------------------------------
(* Submitting a task: CreateJupyterJob, CreateCustom.                      *)

\* The insert.  Ids are handed out in order.
SubmitTask(t) ==
    /\ up
    /\ db[t].status = "None"
    /\ Owner[t] \in accounts
    /\ \A u \in Tasks : u < t => db[u].status # "None"
    /\ db' = [db EXCEPT ![t].status = "Queueing"]
    /\ submit' = submit \cup {t}
    /\ UNCHANGED <<accounts, deserved, BootVars, userQueues, quotaInfos, del, sched, watch, ClusterVars>>

\* Puts t in the queue of its account; an account without queue drops it.
Enqueue(t) ==
    IF Owner[t] \in hasQueue /\ Queueable(t)
    THEN [userQueues EXCEPT ![Owner[t]] = @ \cup {t}]
    ELSE userQueues

\* Takes t out of the queue of its account.
Dequeue(t) == [userQueues EXCEPT ![Owner[t]] = @ \ {t}]

\* TaskUpdated(CreateTask): reads the row back and queues it; when the row
\* cannot be read the event is only logged.
NotifyCreate(t) ==
    /\ t \in submit
    /\ submit' = submit \ {t}
    /\ \/ userQueues' = Enqueue(t)
       \/ "db" \in Faults /\ UNCHANGED userQueues
    /\ UNCHANGED <<DBVars, BootVars, quotaInfos, del, sched, watch, ClusterVars>>

-----------------------------------------------------------------------------
(* Deleting a task: AIJobMgr.Delete and TaskUpdated(DeleteTask).           *)

\* The row is read, its job name with it, and the task leaves the queue.
\* When TaskUpdated cannot read the row it returns, and Delete goes on.
DeleteBegin(t) ==
    /\ up
    /\ t \in Deletable
    /\ db[t].status # "None"
    /\ del[t].step = "idle"
    /\ \/ /\ del' = [del EXCEPT ![t] = [step |-> "quota", jobName |-> db[t].jobName]]
          /\ userQueues' = Dequeue(t)
       \/ /\ "db" \in Faults
          /\ del' = [del EXCEPT ![t] = [step |-> "mark", jobName |-> FALSE]]
          /\ UNCHANGED userQueues
    /\ UNCHANGED <<DBVars, BootVars, quotaInfos, submit, sched, watch, ClusterVars>>

\* The entry of a is there, counted to the end.
QuotaReady(a) == quotaInfos[a].loaded /\ loading[a] = {}

\* The entry of t's account stops counting t; no entry, and none can be
\* read from the database, and nothing happens.
ReleaseQuota(t) ==
    \/ /\ QuotaReady(Owner[t])
       /\ quotaInfos' = [quotaInfos EXCEPT ![Owner[t]] = DeleteTask(@, t)]
    \/ /\ "db" \in Faults /\ ~quotaInfos[Owner[t]].loaded
       /\ UNCHANGED quotaInfos

DeleteQuota(t) ==
    /\ del[t].step = "quota"
    /\ ReleaseQuota(t)
    /\ del' = [del EXCEPT ![t].step = "job"]
    /\ UNCHANGED <<DBVars, BootVars, userQueues, submit, sched, watch, ClusterVars>>

\* DeleteJobFromTask deletes by the job name that was read; without one the
\* call fails.  An error is logged, whatever it is.
DeleteJob(t) ==
    /\ del[t].step = "job"
    /\ del' = [del EXCEPT ![t].step = "mark"]
    /\ \/ /\ del[t].jobName
          /\ aijobs' = [aijobs EXCEPT ![t] = "None"]
       \/ /\ ~del[t].jobName \/ "api" \in Faults
          /\ UNCHANGED aijobs
    /\ UNCHANGED <<DBVars, BootVars, userQueues, quotaInfos, submit, sched, watch, events, launched>>

\* DeleteByQueueAndID.
DeleteMark(t) ==
    /\ del[t].step = "mark"
    /\ del' = [del EXCEPT ![t] = IdleDelete]
    /\ \/ db' = [db EXCEPT ![t].isDeleted = TRUE]
       \/ "db" \in Faults /\ UNCHANGED db
    /\ UNCHANGED <<accounts, deserved, BootVars, userQueues, quotaInfos, submit, sched, watch, ClusterVars>>

\* GetQuotaInfo, called for an account that has no entry, builds one.
GetQuotaInfo(a) ==
    /\ up
    /\ \/ watch # NoTask /\ Owner[watch] = a
       \/ \E t \in Tasks : Owner[t] = a /\ del[t].step = "quota"
    /\ AddOrUpdateQuotaInfo(a)

-----------------------------------------------------------------------------
(* The AIJobs (external), the informer and the watcher.                    *)

\* The informer hands phase changes over in order; a resync repeats the
\* phase the AIJob has.
PhaseChange(t, from, to) ==
    /\ aijobs[t] \in from
    /\ Len(events[t]) < MaxEvents
    /\ aijobs' = [aijobs EXCEPT ![t] = to]
    /\ events' = [events EXCEPT ![t] = IF up /\ to \in NotifiedPhases THEN Append(@, to) ELSE @]
    /\ UNCHANGED <<DBVars, BootVars, userQueues, quotaInfos, submit, del, sched, watch, launched>>

JobRuns(t) == PhaseChange(t, {"Pending", "Preempted"}, "Running")
JobPreempted(t) == t \in Preemptable /\ PhaseChange(t, {"Running"}, "Preempted")
JobEnds(t) == \E p \in CompletedPhases : PhaseChange(t, {"Running"}, p)

Resync(t) ==
    /\ up
    /\ aijobs[t] \in NotifiedPhases
    /\ events[t] = <<>> /\ MaxEvents > 0
    /\ events' = [events EXCEPT ![t] = <<aijobs[t]>>]
    /\ UNCHANGED <<DBVars, BootVars, userQueues, quotaInfos, submit, del, sched, watch, aijobs, launched>>

\* watchJobStatus takes an event and updateTaskStatus writes the status,
\* whatever the row says by now.  A database error drops the event.
WatchReceive(t) ==
    /\ up
    /\ watch = NoTask
    /\ events[t] # <<>>
    /\ events' = [events EXCEPT ![t] = Tail(@)]
    /\ \/ /\ db' = [db EXCEPT ![t].status = Head(events[t])]
          /\ watch' = IF IsCompletedStatus(Head(events[t])) THEN t ELSE NoTask
       \/ "db" \in Faults /\ UNCHANGED <<db, watch>>
    /\ UNCHANGED <<accounts, deserved, BootVars, userQueues, quotaInfos, submit, del, sched, aijobs, launched>>

\* The quota of a completed task is released.
WatchRelease ==
    /\ watch # NoTask
    /\ ReleaseQuota(watch)
    /\ watch' = NoTask
    /\ UNCHANGED <<DBVars, BootVars, userQueues, submit, del, sched, ClusterVars>>

-----------------------------------------------------------------------------
(* The scheduler.                                                          *)

\* What the loop over one guaranteed queue can select: it adds each task
\* that still fits to a copy of the quota, in queue order.  Over all orders
\* those are the sets that fit and to which no other task can be added.
Selections(a) ==
    LET info == quotaInfos[a]
        queue == {t \in userQueues[a] : SLO[t] = HighSLO}
        Fits(S) == S = {} \/ ~CheckResourceListExceed(info.Hard, info.HardUsed, SumRequests(S))
    IN  {S \in SUBSET queue : Fits(S) /\ \A t \in queue \ S : ~Fits(S \cup {t})}

BestEffort(a) == {t \in userQueues[a] : SLO[t] = LowSLO}

\* schedule, up to the sort: guaranteed tasks that fit, all best-effort ones.
Collect ==
    /\ up
    /\ sched.step = "idle"
    /\ \E sel \in [hasQueue -> SUBSET Tasks] :
         /\ \A a \in hasQueue : sel[a] \in Selections(a)
         /\ LET chosen == UNION {sel[a] \cup BestEffort(a) : a \in hasQueue}
            IN  /\ chosen # {}
                /\ sched' = [step |-> "pick", candidates |-> chosen, task |-> NoTask]
    /\ UNCHANGED <<DBVars, BootVars, userQueues, quotaInfos, submit, del, watch, ClusterVars>>

\* The scheduler leaves its task; the round ends with the last candidate.
NextCandidate(rest) ==
    IF rest = {} THEN IdleSched
    ELSE [step |-> "pick", candidates |-> rest, task |-> NoTask]

\* Candidates in order of creation: the row is read again and the quota is
\* checked again.  Neither the status nor isDeleted of the row matters.
Pick ==
    /\ sched.step = "pick"
    /\ \E t \in sched.candidates :
         /\ \A u \in sched.candidates : t <= u
         /\ \/ /\ ~CheckHardQuotaExceed(quotaInfos[Owner[t]], t)
               /\ sched' = [step |-> "create", candidates |-> sched.candidates \ {t}, task |-> t]
            \/ /\ CheckHardQuotaExceed(quotaInfos[Owner[t]], t) \/ "db" \in Faults
               /\ sched' = NextCandidate(sched.candidates \ {t})
    /\ UNCHANGED <<DBVars, BootVars, userQueues, quotaInfos, submit, del, watch, ClusterVars>>

\* CreateJobFromTask.  The name is made from the task, so a second create of
\* the same AIJob is refused.  A Jupyter job may be created and its ingress not.
CreateJobFromTask ==
    /\ sched.step = "create"
    /\ LET t == sched.task IN
         \/ /\ aijobs[t] = "None"
            /\ aijobs' = [aijobs EXCEPT ![t] = "Pending"]
            /\ launched' = launched \cup {t}
            /\ \/ sched' = [sched EXCEPT !.step = "markCreated"]
               \/ /\ "ingress" \in Faults /\ t \in Jupyter
                  /\ sched' = [sched EXCEPT !.step = "markFailed"]
         \/ /\ aijobs[t] # "None" \/ "api" \in Faults
            /\ sched' = [sched EXCEPT !.step = "markFailed"]
            /\ UNCHANGED <<aijobs, launched>>
    /\ UNCHANGED <<DBVars, BootVars, userQueues, quotaInfos, submit, del, watch, events>>

\* A write of the scheduler's task: on success the next step, on a database
\* error the round goes on with the next candidate.
SchedWrite(from, to, newRow) ==
    /\ sched.step = from
    /\ \/ /\ db' = [db EXCEPT ![sched.task] = newRow]
          /\ sched' = [sched EXCEPT !.step = to]
       \/ /\ "db" \in Faults
          /\ sched' = NextCandidate(sched.candidates)
          /\ UNCHANGED db
    /\ UNCHANGED <<accounts, deserved, BootVars, userQueues, quotaInfos, submit, del, watch, ClusterVars>>

MarkFailed == SchedWrite("markFailed", "dequeueFailed", [db[sched.task] EXCEPT !.status = "Failed"])
MarkCreated == SchedWrite("markCreated", "setJobName", [db[sched.task] EXCEPT !.status = "Created"])
UpdateJobName == SchedWrite("setJobName", "addQuota", [db[sched.task] EXCEPT !.jobName = TRUE])

AddQuota ==
    /\ sched.step = "addQuota"
    /\ quotaInfos' = [quotaInfos EXCEPT ![Owner[sched.task]] = AddTask(@, sched.task)]
    /\ sched' = [sched EXCEPT !.step = "dequeue"]
    /\ UNCHANGED <<DBVars, BootVars, userQueues, submit, del, watch, ClusterVars>>

\* taskQueue.DeleteTask, at the end of both branches of admitTask.
DequeueTask ==
    /\ sched.step \in {"dequeue", "dequeueFailed"}
    /\ userQueues' = Dequeue(sched.task)
    /\ sched' = NextCandidate(sched.candidates)
    /\ UNCHANGED <<DBVars, BootVars, quotaInfos, submit, del, watch, ClusterVars>>

Schedule == Collect \/ Pick \/ CreateJobFromTask \/ MarkFailed \/ MarkCreated
            \/ UpdateJobName \/ AddQuota \/ DequeueTask

-----------------------------------------------------------------------------
Boot == Start \/ \E a \in Accounts : InitQuotaInfo(a) \/ InitUserQueue(a)

Load == \E a \in Accounts : GetQuotaInfo(a) \/ \E t \in Tasks : LoadTask(a, t)

Watch == WatchRelease \/ \E t \in Tasks : WatchReceive(t)

Handle(t) == NotifyCreate(t) \/ DeleteQuota(t) \/ DeleteJob(t) \/ DeleteMark(t)

Cluster(t) == JobRuns(t) \/ JobPreempted(t) \/ JobEnds(t) \/ Resync(t)

Next ==
    \/ Boot \/ Load \/ Watch \/ Schedule \/ Crash
    \/ \E a \in Accounts : CreateAccount(a) \/ UpdateAccountQuota(a)
    \/ \E t \in Tasks : SubmitTask(t) \/ DeleteBegin(t) \/ Handle(t) \/ Cluster(t)

Spec == Init /\ [][Next]_vars

\* The process keeps running its own steps and the cluster keeps running and
\* reporting the jobs it has; nobody has to submit, delete or preempt.
Fairness ==
    /\ WF_vars(Boot) /\ WF_vars(Load) /\ WF_vars(WatchRelease) /\ WF_vars(Schedule)
    /\ \A t \in Tasks :
         /\ WF_vars(Handle(t)) /\ SF_vars(WatchReceive(t))
         /\ SF_vars(JobRuns(t)) /\ SF_vars(JobEnds(t)) /\ SF_vars(Resync(t))

FairSpec == Spec /\ Fairness

-----------------------------------------------------------------------------
(* Properties.                                                             *)

\* Every variable keeps the shape the code gives it.
TypeOK ==
    /\ db \in [Tasks -> Row]
    /\ accounts \subseteq Accounts
    /\ DOMAIN deserved = Accounts /\ \A a \in Accounts : IsNatResourceList(deserved[a])
    /\ up \in BOOLEAN
    /\ inited \subseteq Accounts
    /\ loading \in [Accounts -> SUBSET Tasks]
    /\ hasQueue \subseteq Accounts
    /\ userQueues \in [Accounts -> SUBSET Tasks]
    /\ DOMAIN quotaInfos = Accounts /\ \A a \in Accounts : IsQuotaInfo(quotaInfos[a])
    /\ submit \subseteq Tasks
    /\ del \in [Tasks -> [step : DeleteSteps, jobName : BOOLEAN]]
    /\ sched \in [step : SchedSteps, candidates : SUBSET Tasks, task : Tasks \cup {NoTask}]
    /\ watch \in Tasks \cup {NoTask}
    /\ aijobs \in [Tasks -> Phases]
    /\ events \in [Tasks -> Seq(NotifiedPhases)]
    /\ launched \subseteq Tasks

\* QuotaInfo.AddTask and DeleteTask keep HardUsed and SoftUsed equal to what
\* the counted tasks of each level request, whichever goroutines call them,
\* in whatever order, and however often for the same task.
QuotaAccounting == \A a \in Accounts : Accounted(quotaInfos[a])

\* The scheduler has checked the quota for its task and not yet counted it.
Admitting ==
    sched.step \in {"create", "markCreated", "setJobName", "addQuota"}

\* admitTask checks the hard quota, then makes three slow calls, and only
\* then counts the task: what it checked still holds when it counts.
CheckStillHolds ==
    Admitting => ~CheckHardQuotaExceed(quotaInfos[Owner[sched.task]], sched.task)

\* admitTask never counts a guaranteed task beyond the hard limit the
\* controller knows.
AdmittedWithinHard ==
    [][AddQuota /\ SLO[sched.task] = HighSLO
         => LET info == quotaInfos'[Owner[sched.task]]
            IN  WithinHard(info.Hard, info.HardUsed)]_vars

\* A set of tasks requests no more of any resource than the quota has.
FitsQuota(hard, S) == \A k \in Resources : Quantity(SumRequests(S), k) <= Quantity(hard, k)

Ledger == INSTANCE QuotaLedger WITH
    Guaranteed <- {t \in Tasks : SLO[t] = HighSLO},
    Quotas     <- QuotaChoices \cup {InitQuota},
    Fits       <- FitsQuota,
    quota      <- deserved,
    limit      <- [a \in {b \in Accounts : quotaInfos[b].loaded} |-> quotaInfos[a].Hard],
    listed     <- UNION {loading[a] : a \in Accounts},
    counted    <- UNION {quotaInfos[a].UsedTasks : a \in Accounts}

\* The controller keeps the promise of QuotaLedger: the check of admitTask, its
\* three slow calls and the counting are together one admission that fits, by what
\* the counted tasks request and not by what the counters say, whoever else
\* releases, loads or crashes meanwhile; and a limit stays as it was loaded.
KeepsLedger == Ledger!Spec

\* No AIJob is created a second time for the same task: not after a crash
\* between the create and the status update, not after a failed write that
\* leaves the task queued, not after the first AIJob has been deleted.
LaunchedOnce ==
    [][\A t \in Tasks : aijobs[t] = "None" /\ aijobs'[t] # "None" => t \notin launched]_vars

\* AIJobs that hold resources of the cluster.
Live(t) == aijobs[t] \in {"Pending", "Running", "Preempted"}

\* While no call fails, every live AIJob of a task nobody deletes is counted
\* in the quota cache, or is the one the scheduler is just admitting.
LiveJobsCounted ==
    \A t \in Tasks \ Deletable :
        Live(t) /\ up => \/ t \in quotaInfos[Owner[t]].UsedTasks
                         \/ sched.task = t /\ Admitting

\* A queued task that the hard limit of its account could hold alone is
\* admitted in the end: completed tasks give their quota back.
QueuedIsAdmitted ==
    \A t \in Tasks :
        (/\ up /\ t \in userQueues[Owner[t]]
         /\ ~CheckResourceListExceed(quotaInfos[Owner[t]].Hard, EmptyList, Request[t]))
            ~> t \in launched

-----------------------------------------------------------------------------
(* The inductive invariant behind AdmittedWithinHard and LaunchedOnce.     *)

\* An account that has a queue has a quota entry, counted to the end.
QueuesLoaded ==
    /\ \A a \in hasQueue : QuotaReady(a)
    /\ \A a \in Accounts : \A t \in userQueues[a] : Owner[t] = a

\* The scheduler works on one task of an account with a queue at a time.
SchedulerShape ==
    /\ sched.step = "idle" => sched.candidates = {}
    /\ sched.step \in {"idle", "pick"} <=> sched.task = NoTask
    /\ sched.task \notin sched.candidates
    /\ \A t \in sched.candidates \cup ({sched.task} \ {NoTask}) : Owner[t] \in hasQueue
    /\ ~up => submit = {} /\ sched = IdleSched

\* A task the scheduler can reach: queued, a candidate, or being admitted.
Reachable(t) == t \in userQueues[Owner[t]] \/ t \in sched.candidates \/ sched.task = t

\* A row that does not exist, or whose submit handler has not notified the
\* controller yet, is out of the scheduler's reach.
SubmittedLater ==
    \A t \in Tasks : db[t].status = "None" \/ t \in submit =>
        ~Reachable(t) /\ (db[t].status = "None" => t \notin submit)

\* The job name is written last: from then on the scheduler may only count
\* the task and take it out of the queue, and no restart queues it again.
NamedIsDone ==
    /\ \A t \in Tasks : db[t].jobName =>
         /\ db[t].status \notin {"None", "Queueing"}
         /\ t \notin submit
         /\ Reachable(t) => sched.task = t /\ sched.step \in {"addQuota", "dequeue"}
    /\ sched.step = "setJobName" => db[sched.task].status \notin {"None", "Queueing"}

\* An AIJob that was created and is gone was deleted by its name.
GoneHadName ==
    \A t \in Tasks :
        /\ aijobs[t] # "None" => t \in launched
        /\ t \in launched /\ aijobs[t] = "None" => db[t].jobName
        /\ del[t].jobName => db[t].jobName

\* The whole of it.  Collect, admitTask, the handlers and Init keep it.
IInv == TypeOK /\ QueuesLoaded /\ SchedulerShape /\ CheckStillHolds
        /\ SubmittedLater /\ NamedIsDone /\ GoneHadName

-----------------------------------------------------------------------------
(* The inductive invariants behind QuotaAccounting and LiveJobsCounted.    *)

\* Tasks are counted one at a time.
CountedAreFinite == \A a \in Accounts : IsFiniteSet(quotaInfos[a].UsedTasks)

\* An entry has tasks of its account only, and none when it is not loaded.
EntriesOwned ==
    \A a \in Accounts :
        /\ \A t \in loading[a] \cup quotaInfos[a].UsedTasks : Owner[t] = a
        /\ ~quotaInfos[a].loaded => quotaInfos[a] = NoQuotaInfo /\ loading[a] = {}

\* What the ledger sees: with IInv, it is inductive, and each step is one of QuotaLedger.
LedgerInv == CountedAreFinite /\ QuotaAccounting /\ EntriesOwned

\* The job of t ended: the quota may go, and the phase stays.
Ended(t) == aijobs[t] \in CompletedPhases

\* A task that nobody deletes, from its insert to the end of its AIJob.
Followed(t) ==
    /\ del[t].step = "idle"
    /\ ~up => db[t].status = "None"
    /\ db[t].status = "None" \/ t \in submit => aijobs[t] = "None"
    /\ Reachable(t) /\ (sched.task = t => sched.step = "create") => aijobs[t] = "None"
    /\ aijobs[t] # "None" => Owner[t] \in hasQueue
    /\ sched.task = t => sched.step \notin {"markFailed", "dequeueFailed"}
    /\ watch = t => Ended(t)
    /\ \A i \in DOMAIN events[t] : IsCompletedStatus(events[t][i]) => Ended(t)

\* With it and with IInv, LiveJobsCounted is inductive as long as no call fails.
LiveInv == (\A t \in Tasks \ Deletable : Followed(t)) /\ LiveJobsCounted

-----------------------------------------------------------------------------
(* What comments of the code promise and the code does not keep.           *)

\* Nothing is under way: no handler, no scheduling step, no event.
Settled ==
    /\ up /\ sched.step = "idle" /\ watch = NoTask /\ submit = {}
    /\ \A t \in Tasks : del[t].step = "idle" /\ events[t] = <<>>

\* "WatchJobStatus updates the status of the task from the status of the AIJob".
StatusFollowsJob ==
    Settled => \A t \in Tasks : aijobs[t] \in NotifiedPhases => db[t].status = aijobs[t]

=============================================================================
