------------------------------- MODULE Cleaner -------------------------------
(***************************************************************************)
(* The job cleaner (pkg/cleaner), the emails it sends (pkg/alert) and the  *)
(* records of its runs (pkg/cleaner/cleaner.go, pkg/cronjob/record.go).    *)
(*                                                                         *)
(* The scheduler fires a run of a policy whatever other runs are doing.  A *)
(* run lists the jobs to delete, lists the jobs to remind, deletes and     *)
(* mails them one by one, allows the reminder again for the jobs that      *)
(* became busy, and writes a record.  Locks, the state of jobs and their   *)
(* GPU use change between any two of these steps.                          *)
(***************************************************************************)
EXTENDS Naturals, FiniteSets

CONSTANTS Jobs,
          Interactive,       \* the Jupyter jobs among them
          Alerting,          \* the jobs whose owner wants emails
          Distributed,       \* the jobs with several pods
          Runs,              \* runs of the cleaner in progress at one time
          BatchLimit, InteractiveLimit,  \* running times that are too long
          RemindTime,        \* how long before the limit the owner is reminded
          TimeRange,         \* low GPU use for this long is reminded
          WaitTime,          \* and deleted this much later
          JupyterWait,       \* a Jupyter job may be pending for this long
          MaxAge,            \* bound: ages and idle times
          MaxLock,           \* bound: how long a lock still holds
          MaxFaults          \* bound: calls that fail

ASSUME CleanerAssumption ==
    /\ Jobs # {} /\ Interactive \subseteq Jobs /\ Alerting \subseteq Jobs
    /\ Distributed \subseteq Jobs
    /\ {BatchLimit, InteractiveLimit, RemindTime, TimeRange, WaitTime, JupyterWait,
        MaxAge, MaxLock, MaxFaults} \subseteq Nat

Policy == {"long", "low", "jupyter"}
Kind   == {"LongTimeReminded", "LongTimeDeleted", "LowGPUReminded", "LowGPUDeleted"}
Mail   == Jobs \X Kind

VARIABLES
    row,        \* status of the job's row
    cluster,    \* the jobs of the cluster
    scheduled,  \* the jobs whose pods are all scheduled
    age,        \* time since the row became Pending or Running, 0 when it is neither
    idle,       \* time since the pods of the job last used the GPU
    lock,       \* how long the lock of the job still holds
    alerts,     \* what the table alerts says of a mail: "none", "sent" or "repeat"
    run,        \* runs in progress
    recorded,   \* jobs named as deleted by some record
    faults,     \* calls that may still fail
    clientSet,  \* whether the scheduler was built with a cluster client: not as the
                \* server is put together, but nothing else depends on it
    cleaned,    \* history: jobs the cleaner deleted
    unaudited,  \* history: of these, the ones whose record or mail failed
    sent,       \* history: mails sent
    resent,     \* history: mails sent more than once
    excused     \* history: mails that may be sent again (see MailOnce)

jobVars     == <<row, cluster, scheduled, age, idle, lock>>
history     == <<cleaned, unaudited, sent, resent, excused>>
cleanerVars == <<jobVars, alerts, run, recorded, faults, clientSet, history>>

PC == {"idle", "list", "list2", "delete", "check", "remove", "mail", "send", "record",
       "remind", "normal", "allow"}
Run == [pc : PC, policy : Policy, del : SUBSET Jobs, remind : SUBSET Jobs,
        normal : SUBSET Jobs, job : Jobs, kind : Kind, seen : {"none", "sent", "repeat"},
        deleted : SUBSET Jobs,
        locked : SUBSET Jobs]   \* history: until the run has done its deletions, the jobs
                                \* locked ever since it was fired

NoRun == [pc |-> "idle", policy |-> "long", del |-> {}, remind |-> {}, normal |-> {},
          job |-> CHOOSE j \in Jobs : TRUE, kind |-> "LongTimeReminded", seen |-> "none",
          deleted |-> {}, locked |-> {}]

Init ==
    /\ row = [j \in Jobs |-> "Pending"]
    /\ cluster = Jobs
    /\ scheduled = {}
    /\ age = [j \in Jobs |-> 0] /\ idle = [j \in Jobs |-> 0]
    /\ lock = [j \in Jobs |-> 0]
    /\ alerts = [m \in Mail |-> "none"]
    /\ run = [r \in Runs |-> NoRun]
    /\ recorded = {} /\ faults \in 0..MaxFaults /\ clientSet \in BOOLEAN
    /\ cleaned = {} /\ unaudited = {} /\ sent = {} /\ resent = {} /\ excused = {}

-----------------------------------------------------------------------------
(***************************************************************************)
(* Jobs, their owners and time                                             *)
(***************************************************************************)
Older(n) == IF n < MaxAge THEN n + 1 ELSE n

\* A run no longer has the job among those locked all along.
LockEnds(js) == run' = [r \in Runs |-> [run[r] EXCEPT !.locked = @ \ js]]

Tick ==
    /\ \E j \in Jobs : (row[j] # "Ended" /\ age[j] < MaxAge) \/ lock[j] > 0
                       \/ (j \in cluster \cap scheduled /\ idle[j] < MaxAge)
    /\ age' = [j \in Jobs |-> IF row[j] = "Ended" THEN 0 ELSE Older(age[j])]
    /\ idle' = [j \in Jobs |-> IF j \in cluster \cap scheduled THEN Older(idle[j]) ELSE 0]
    /\ lock' = [j \in Jobs |-> IF lock[j] > 0 THEN lock[j] - 1 ELSE 0]
    /\ LockEnds({j \in Jobs : lock[j] = 1})
    /\ UNCHANGED <<row, cluster, scheduled, alerts, recorded, faults, history>>

PodsScheduled(j) ==
    /\ j \in cluster \ scheduled
    /\ scheduled' = scheduled \cup {j}
    /\ UNCHANGED <<row, cluster, age, idle, lock, alerts, run, recorded, faults, history>>

\* The reconciler sees the job run, and sees it gone (VcJob).
JobRuns(j) ==
    /\ j \in cluster \cap scheduled
    /\ row[j] = "Pending"
    /\ row' = [row EXCEPT ![j] = "Running"]
    /\ age' = [age EXCEPT ![j] = 0]
    /\ UNCHANGED <<cluster, scheduled, idle, lock, alerts, run, recorded, faults, history>>

JobGone(j) ==
    /\ j \notin cluster
    /\ row[j] # "Ended"
    /\ row' = [row EXCEPT ![j] = "Ended"]
    /\ age' = [age EXCEPT ![j] = 0]
    /\ UNCHANGED <<cluster, scheduled, idle, lock, alerts, run, recorded, faults, history>>

OwnerDeletes(j) ==
    /\ j \in cluster
    /\ cluster' = cluster \ {j}
    /\ UNCHANGED <<row, scheduled, age, idle, lock, alerts, run, recorded, faults, history>>

GPUUsed(j) ==
    /\ idle[j] > 0
    /\ idle' = [idle EXCEPT ![j] = 0]
    /\ UNCHANGED <<row, cluster, scheduled, age, lock, alerts, run, recorded, faults, history>>

\* A lock is set and cleared by the handlers of JobLocks.
SetLock(j) ==
    /\ lock[j] = 0
    /\ lock' = [lock EXCEPT ![j] = MaxLock]
    /\ UNCHANGED <<row, cluster, scheduled, age, idle, alerts, run, recorded, faults, history>>

ClearLock(j) ==
    /\ lock[j] > 0
    /\ lock' = [lock EXCEPT ![j] = 0]
    /\ LockEnds({j})
    /\ UNCHANGED <<row, cluster, scheduled, age, idle, alerts, recorded, faults, history>>

-----------------------------------------------------------------------------
(***************************************************************************)
(* What the policies list                                                  *)
(***************************************************************************)
getJobWhiteList == {j \in Jobs : lock[j] > 0}

Limit(j) == IF j \in Interactive THEN InteractiveLimit ELSE BatchLimit
Less(n, m) == IF n > m THEN n - m ELSE 0

getLongTimeVCjobs(margin) ==
    {j \in Jobs \ getJobWhiteList : row[j] = "Running" /\ age[j] > Less(Limit(j), margin)}

\* The pods of the cluster decide: the row is looked up by its name, whatever its
\* status.  A job with several idle pods is in the list once for each.
getLowGPUUsageVCjobs(duration) ==
    {j \in (cluster \cap scheduled) \ getJobWhiteList : idle[j] >= duration}

\* What is left of the jobs to treat once j has been: j again when it is listed twice.
Left(r, js, j) == IF run[r].policy = "low" /\ j \in Distributed THEN {js, js \ {j}} ELSE {js \ {j}}

unscheduledJupyterJobs ==
    {j \in Interactive : row[j] = "Pending" /\ age[j] > JupyterWait}

\* Mutant: locked jobs are listed as well.
Deletions_IgnoreLocks(p) ==
    CASE p = "long" -> {j \in Jobs : row[j] = "Running" /\ age[j] > Limit(j)}
      [] p = "low" -> getLowGPUUsageVCjobs(TimeRange + WaitTime)
      [] p = "jupyter" -> unscheduledJupyterJobs

Deletions(p) ==
    CASE p = "long" -> getLongTimeVCjobs(0)
      [] p = "low" -> getLowGPUUsageVCjobs(TimeRange + WaitTime)
      [] p = "jupyter" -> unscheduledJupyterJobs

Reminders(p) ==
    CASE p = "long" -> getLongTimeVCjobs(RemindTime)
      [] p = "low" -> getLowGPUUsageVCjobs(TimeRange)
      [] p = "jupyter" -> {}

-----------------------------------------------------------------------------
(***************************************************************************)
(* A run                                                                   *)
(***************************************************************************)
Set(r, new) == run' = [run EXCEPT ![r] = new]
TheMail(r)  == <<run[r].job, run[r].kind>>
Fault       == faults > 0 /\ faults' = faults - 1

Fire(r, p) ==
    /\ run[r].pc = "idle"
    /\ Set(r, [NoRun EXCEPT !.pc = "list", !.policy = p, !.locked = getJobWhiteList])
    /\ UNCHANGED <<jobVars, alerts, recorded, faults, history>>

\* A list that cannot be read, or a white list that cannot, is an empty list.
ListDeletions(r) ==
    /\ run[r].pc = "list"
    /\ LET to == IF run[r].policy = "jupyter" THEN "check" ELSE "list2"
       IN  \/ /\ Set(r, [run[r] EXCEPT !.pc = to, !.del = Deletions(run[r].policy)])
              /\ UNCHANGED faults
           \/ /\ Set(r, [run[r] EXCEPT !.pc = to])
              /\ Fault
    /\ UNCHANGED <<jobVars, alerts, recorded, history>>

\* The list of reminders and, for the low-GPU policy, that of running jobs may each
\* fail; the error of the latter is ignored, and no job is allowed a reminder again.
ListReminders(r) ==
    /\ run[r].pc = "list2"
    /\ LET reminders == Reminders(run[r].policy)
           running   == IF run[r].policy = "low" THEN {j \in Jobs : row[j] = "Running"} ELSE {}
       IN  \E rem \in {reminders, {}}, now \in {running, {}} :
              /\ Set(r, [run[r] EXCEPT !.pc = "delete", !.remind = rem \ run[r].del,
                                       !.normal = now \ (run[r].del \cup rem)])
              /\ IF rem = reminders /\ now = running THEN UNCHANGED faults ELSE Fault
    /\ UNCHANGED <<jobVars, alerts, recorded, history>>

\* The process ends with all its runs, and starts anew.  A mail that was sent and
\* not yet recorded is forgotten, and so are the deletions without a record.
ProcessEnds ==
    /\ run' = [r \in Runs |-> NoRun]
    /\ unaudited' = unaudited \cup (cleaned \ recorded)
    /\ excused' = excused \cup {TheMail(s) : s \in {t \in Runs : run[t].pc = "record"}}
    /\ UNCHANGED <<jobVars, alerts, recorded, cleaned, sent, resent>>

\* It is killed, at any time.
Killed ==
    /\ \E r \in Runs : run[r].pc # "idle"
    /\ Fault
    /\ ProcessEnds

\* The client that the scheduler was built with is nil: the run panics, and
\* nothing recovers.
Panic == ProcessEnds /\ UNCHANGED faults

\* deleteVCjobInCluster.  A low-GPU deletion counts whatever becomes of its
\* mail, a long-time one only when the mail went out or is not wanted.
Deleted(r, j, next) ==
    /\ cluster' = cluster \ {j}
    /\ cleaned' = cleaned \cup {j}
    /\ Set(r, next)
    /\ UNCHANGED <<row, scheduled, age, idle, lock, alerts, recorded, faults, unaudited, sent,
                   resent, excused>>

\* Gone already, or the call fails.
NotDeleted(r, j, next) ==
    /\ \/ j \notin cluster /\ UNCHANGED faults
       \/ Fault
    /\ Set(r, next)
    /\ UNCHANGED <<jobVars, alerts, recorded, history>>

DeleteJob(r, j) ==
    /\ run[r].pc = "delete"
    /\ j \in run[r].del
    /\ \E left \in Left(r, run[r].del, j) :
       LET rest == [run[r] EXCEPT !.del = left]
           low  == run[r].policy = "low"
           done == [rest EXCEPT !.deleted = @ \cup {j}]
           mail == [rest EXCEPT !.pc = "mail", !.job = j, !.deleted = IF low THEN @ \cup {j} ELSE @,
                                !.kind = IF low THEN "LowGPUDeleted" ELSE "LongTimeDeleted"]
       IN  \/ ~clientSet /\ Panic
           \/ /\ clientSet
              /\ \/ j \in cluster /\ Deleted(r, j, IF j \in Alerting THEN mail ELSE done)
                 \/ NotDeleted(r, j, rest)

\* The Jupyter policy asks whether the pods are scheduled, and a question that
\* fails is answered no.
CheckScheduled(r, j) ==
    /\ run[r].pc = "check"
    /\ j \in run[r].del
    /\ LET remove == [run[r] EXCEPT !.pc = "remove", !.job = j]
       IN  \/ /\ Set(r, IF j \in cluster \cap scheduled
                        THEN [run[r] EXCEPT !.del = @ \ {j}] ELSE remove)
              /\ UNCHANGED faults
           \/ Set(r, remove) /\ Fault
    /\ UNCHANGED <<jobVars, alerts, recorded, history>>

RemoveJupyter(r) ==
    /\ run[r].pc = "remove"
    /\ LET j    == run[r].job
           rest == [run[r] EXCEPT !.pc = "check", !.del = @ \ {j}]
       IN  \/ ~clientSet /\ Panic
           \/ /\ clientSet
              /\ \/ j \in cluster /\ Deleted(r, j, [rest EXCEPT !.deleted = @ \cup {j}])
                 \/ NotDeleted(r, j, rest)

-----------------------------------------------------------------------------
(***************************************************************************)
(* sendJobNotification: look for the alert, send, write the alert          *)
(***************************************************************************)
\* The mail is done, well or not: on with the jobs of the same kind.
MailDone(r, ok) ==
    LET j == run[r].job
        deletion == run[r].kind \in {"LongTimeDeleted", "LowGPUDeleted"}
        counts == deletion /\ (ok \/ run[r].policy = "low")
    IN  /\ Set(r, [run[r] EXCEPT !.pc = IF deletion THEN "delete" ELSE "remind",
                                 !.seen = "none", !.kind = NoRun.kind,
                                 !.deleted = IF counts THEN @ \cup {j} ELSE @])
        /\ unaudited' = IF deletion /\ ~counts THEN unaudited \cup {j} ELSE unaudited

\* Another run that is about to send or record the same mail.
SameMail(r) == \E s \in Runs \ {r} : run[s].pc \in {"send", "record"} /\ TheMail(s) = TheMail(r)

\* Mutant: a mail that was sent is sent again.
AlreadySent_Never(s) == FALSE

AlreadySent(s) == s = "sent"

MailCheck(r) ==
    /\ run[r].pc = "mail"
    /\ \/ /\ AlreadySent(alerts[TheMail(r)])
          /\ MailDone(r, TRUE)
          /\ UNCHANGED <<faults, excused>>
       \/ /\ ~AlreadySent(alerts[TheMail(r)])
          /\ Set(r, [run[r] EXCEPT !.pc = "send", !.seen = alerts[TheMail(r)]])
          /\ excused' = IF SameMail(r) THEN excused \cup {TheMail(r)} ELSE excused
          /\ UNCHANGED <<faults, unaudited>>
       \/ /\ Fault
          /\ MailDone(r, FALSE)
          /\ UNCHANGED excused
    /\ UNCHANGED <<jobVars, alerts, recorded, cleaned, sent, resent>>

SendMessageTo(r) ==
    /\ run[r].pc = "send"
    /\ \/ /\ sent' = sent \cup {TheMail(r)}
          /\ resent' = IF TheMail(r) \in sent THEN resent \cup {TheMail(r)} ELSE resent
          /\ Set(r, [run[r] EXCEPT !.pc = "record"])
          /\ UNCHANGED <<faults, unaudited>>
       \/ /\ Fault
          /\ MailDone(r, FALSE)
          /\ UNCHANGED <<sent, resent>>
    /\ UNCHANGED <<jobVars, alerts, recorded, cleaned, excused>>

\* A second row for a mail is never looked at (First takes the older one), so
\* that only the first insert and later Saves matter.
MailRecord(r) ==
    /\ run[r].pc = "record"
    /\ \/ /\ alerts' = [alerts EXCEPT ![TheMail(r)] =
                          IF run[r].seen = "none" /\ @ # "none" THEN @ ELSE "sent"]
          /\ MailDone(r, TRUE)
          /\ UNCHANGED <<faults, excused>>
       \/ /\ Fault
          /\ excused' = excused \cup {TheMail(r)}
          /\ MailDone(r, FALSE)
          /\ UNCHANGED alerts
    /\ UNCHANGED <<jobVars, recorded, cleaned, sent, resent>>

-----------------------------------------------------------------------------
RemindJob(r) ==
    \/ /\ run[r].pc = "delete" /\ run[r].del = {}
       /\ Set(r, [run[r] EXCEPT !.pc = "remind", !.locked = {}])
       /\ UNCHANGED <<jobVars, alerts, recorded, faults, history>>
    \/ /\ run[r].pc = "remind"
       /\ \E j \in run[r].remind : \E left \in Left(r, run[r].remind, j) :
             LET rest == [run[r] EXCEPT !.remind = left]
             IN  Set(r, IF j \in Alerting
                        THEN [rest EXCEPT !.pc = "mail", !.job = j,
                                 !.kind = IF run[r].policy = "low" THEN "LowGPUReminded"
                                          ELSE "LongTimeReminded"]
                        ELSE rest)
       /\ UNCHANGED <<jobVars, alerts, recorded, faults, history>>

\* allowRepeatAlert, for the jobs that are neither deleted nor reminded: the
\* record is read, and written back with the permission.
AllowRepeatRead(r, j) ==
    /\ run[r].pc = "remind" /\ run[r].remind = {}
    /\ j \in run[r].normal
    /\ LET rest == [run[r] EXCEPT !.normal = @ \ {j}]
       IN  Set(r, IF alerts[<<j, "LowGPUReminded">>] = "none" THEN rest
                  ELSE [rest EXCEPT !.pc = "allow", !.job = j, !.kind = "LowGPUReminded"])
    /\ UNCHANGED <<jobVars, alerts, recorded, faults, history>>

AllowRepeatSave(r) ==
    /\ run[r].pc = "allow"
    /\ Set(r, [run[r] EXCEPT !.pc = "remind", !.kind = NoRun.kind])
    /\ \/ /\ alerts' = [alerts EXCEPT ![TheMail(r)] = "repeat"]
          /\ excused' = excused \cup {TheMail(r)}
          /\ UNCHANGED faults
       \/ Fault /\ UNCHANGED <<alerts, excused>>
    /\ UNCHANGED <<jobVars, recorded, cleaned, unaudited, sent, resent>>

RunOver(r) == \/ run[r].pc = "remind" /\ run[r].remind = {} /\ run[r].normal = {}
              \/ run[r].pc = "check" /\ run[r].del = {}

\* Mutant: the record forgets the jobs that were deleted.
WriteRecord_NoData(r) ==
    /\ RunOver(r)
    /\ Set(r, NoRun)
    /\ UNCHANGED <<jobVars, alerts, recorded, faults, history>>

\* WrapCleanerFunc
WriteRecord(r) ==
    /\ RunOver(r)
    /\ Set(r, NoRun)
    /\ \/ /\ recorded' = recorded \cup run[r].deleted
          /\ UNCHANGED <<faults, unaudited>>
       \/ /\ Fault
          /\ unaudited' = unaudited \cup run[r].deleted
          /\ UNCHANGED recorded
    /\ UNCHANGED <<jobVars, alerts, cleaned, sent, resent, excused>>

Step(r) ==
    \/ ListDeletions(r)
    \/ ListReminders(r)
    \/ \E j \in Jobs : DeleteJob(r, j) \/ CheckScheduled(r, j) \/ AllowRepeatRead(r, j)
    \/ RemoveJupyter(r)
    \/ MailCheck(r)
    \/ SendMessageTo(r)
    \/ MailRecord(r)
    \/ RemindJob(r)
    \/ AllowRepeatSave(r)
    \/ WriteRecord(r)

Environment ==
    \/ Tick
    \/ \E j \in Jobs : \/ PodsScheduled(j) \/ JobRuns(j) \/ JobGone(j) \/ OwnerDeletes(j)
                       \/ GPUUsed(j) \/ SetLock(j) \/ ClearLock(j)

Next ==
    /\ \/ Environment
       \/ Killed
       \/ \E r \in Runs : Step(r) \/ \E p \in Policy : Fire(r, p)
    /\ UNCHANGED clientSet

Spec == Init /\ [][Next]_cleanerVars

-----------------------------------------------------------------------------
\* Rows, alerts and runs have their types.
TypeOK ==
    /\ row \in [Jobs -> {"Pending", "Running", "Ended"}]
    /\ cluster \subseteq Jobs /\ scheduled \subseteq Jobs
    /\ age \in [Jobs -> 0..MaxAge] /\ idle \in [Jobs -> 0..MaxAge]
    /\ lock \in [Jobs -> 0..MaxLock]
    /\ alerts \in [Mail -> {"none", "sent", "repeat"}]
    /\ run \in [Runs -> Run]
    /\ recorded \subseteq Jobs /\ faults \in 0..MaxFaults /\ clientSet \in BOOLEAN
    /\ cleaned \subseteq Jobs /\ unaudited \subseteq Jobs
    /\ sent \subseteq Mail /\ resent \subseteq Mail /\ excused \subseteq Mail

\* A job whose lock held when a run was fired and has held ever since is not in
\* the run's list of deletions, whatever calls failed: a white list that cannot
\* be read empties the list (getLongTimeVCjobs, getLowGPUUsageVCjobs).  The
\* Jupyter policy does not look at locks.
LockedIsSpared ==
    \A r \in Runs : run[r].policy # "jupyter" => run[r].del \cap run[r].locked = {}

\* A mail is sent a second time only if it was allowed again (the GPU was in
\* use), if the alert was not written, if another run was sending the same
\* mail at the same time, or if the process ended in between (sendJobNotification).
MailOnce == resent \subseteq excused

\* When no run is in progress, each job that the cleaner deleted is in a record,
\* unless the record or, for a long-time job, its mail failed, or the process ended
\* before the record (WrapCleanerFunc).
DeletionsRecorded ==
    (\A r \in Runs : run[r].pc = "idle") => cleaned \subseteq recorded \cup unaudited

-----------------------------------------------------------------------------
(***************************************************************************)
(* The inductive invariants behind them                                    *)
(***************************************************************************)
LocksHeld == \A r \in Runs : run[r].locked \subseteq getJobWhiteList

\* A run that is sending the mail of a deletion has not decided yet whether the
\* deletion counts.
MailsDeletion(r) == run[r].pc \in {"mail", "send", "record"}
                    /\ run[r].kind \in {"LongTimeDeleted", "LowGPUDeleted"}

Audited ==
    /\ \A r \in Runs : run[r].pc = "idle" => run[r].deleted = {}
    /\ \A j \in cleaned : \/ j \in recorded \cup unaudited
                          \/ \E r \in Runs : j \in run[r].deleted \/ (MailsDeletion(r) /\ run[r].job = j)

\* A mail without an excuse is in the hands of one run, which sends it for the
\* first time; once it is sent, the alert says so or the run will write it.
MailInOrder(m) ==
    /\ \A r, s \in Runs : /\ run[r].pc \in {"send", "record"} /\ TheMail(r) = m
                          /\ run[s].pc \in {"send", "record"} /\ TheMail(s) = m
                          => r = s
    /\ \A r \in Runs : run[r].pc = "send" /\ TheMail(r) = m => m \notin sent
    /\ m \in sent => alerts[m] = "sent" \/ \E r \in Runs : run[r].pc = "record" /\ TheMail(r) = m
    /\ alerts[m] # "repeat"

CleanerInv ==
    /\ TypeOK
    /\ LocksHeld
    /\ LockedIsSpared
    /\ Audited
    /\ \A m \in Mail \ excused : MailInOrder(m)
    /\ MailOnce
=============================================================================
