-------------------------------- MODULE VcJob --------------------------------
(***************************************************************************)
(* The life of a Volcano job and of its row in the jobs table: the         *)
(* VcJobReconciler (pkg/reconciler/vcjob-reconciler.go), the informer      *)
(* cache it and the handlers read, the delete handler                      *)
(* (internal/handler/vcjob/vcjob.go), the cron cleaners that delete jobs   *)
(* behind the row's back (pkg/cleaner) and the emails about phase changes  *)
(* (pkg/alert).                                                            *)
(*                                                                         *)
(* The jobs table and the cluster are written by different goroutines with *)
(* no transaction across them, so each read, each write and each cluster   *)
(* call is an action.  controller-runtime reconciles a name in one         *)
(* goroutine at a time and repeats it after an error.  The cleaners' own   *)
(* emails, locks and time limits are left out: a cleaner may list any job  *)
(* whose row is Running or Pending.                                        *)
(***************************************************************************)
EXTENDS Naturals

CONSTANTS Jobs,        \* names of the jobs, each submitted at most once
          Slow,        \* jobs that wait more than 10 minutes before they run
          EndPhases,   \* terminal phases the cluster gives a job
          Faults       \* what may fail: "get", "db", "api", "mail", "record", "crash"

VARIABLES
    cluster,   \* the job object in the API server
    cache,     \* the informer's copy, which every Get of the backend reads
    dirty,     \* the name is in the reconciler's work queue
    row,       \* the job's row in the jobs table
    rec,       \* the Reconcile call in progress for the name
    del,       \* the delete request in progress for the name
    clean,     \* a cleaner has listed the job and not yet deleted it
    alerts,    \* rows of the alerts table
    emails,    \* emails sent: 0, 1 or 2 for "more than one"
    userDel,   \* history: a delete request has marked the row Deleted
    unlogged,  \* history: an email was sent whose alerts row was not written
    dropped    \* history: the last event of the name was lost

vars == <<cluster, cache, dirty, row, rec, del, clean, alerts, emails,
          userDel, unlogged, dropped>>

History == <<userDel, unlogged, dropped>>

-----------------------------------------------------------------------------
Terminal == {"Completed", "Failed", "Aborted", "Terminated"}

\* "New" is the empty phase of a job that Volcano has not looked at yet.
Phases == {"New", "Pending", "Running"} \cup Terminal

ASSUME EndPhasesType == EndPhases \subseteq Terminal

\* Mutant: Completed is missing from the list.
Settled_NotCompleted == {"Failed", "Aborted", "Terminated", "Deleted", "Freed"}

\* Statuses that the reconciler leaves alone when the job is gone.
Settled == Terminal \cup {"Deleted", "Freed"}

AlertType == {"Running", "Failed", "Completed"}

\* A job object: its phase, and whether its conditions record that it ran.
\* "absent" is not submitted yet, "gone" is deleted.
Object == [phase : Phases \cup {"absent", "gone"}, ran : BOOLEAN]
Exists(o) == o.phase \in Phases

\* state "soft" is a row with deleted_at set: queries skip it, and the unique
\* index on job_name still holds its name.
Row == [state : {"none", "live", "soft"}, status : Phases \cup {"Deleted", "Freed"},
        ran : BOOLEAN, profile : BOOLEAN, alert : BOOLEAN]
NoRow == [state |-> "none", status |-> "New", ran |-> FALSE, profile |-> FALSE, alert |-> FALSE]
Live(j) == row[j].state = "live"

\* rec[j].job is the object the call has read, rec[j].old the row it has read.
Rec == [pc : {"idle", "gone", "settle", "found", "create", "alert", "record", "update"},
        job : Object, old : Row]
NoObject == [phase |-> "absent", ran |-> FALSE]
IdleRec  == [pc |-> "idle", job |-> NoObject, old |-> NoRow]

\* record: delete the row rather than mark it; job: delete the job as well.
Del == [pc : {"idle", "row", "job"}, record : BOOLEAN, job : BOOLEAN]
IdleDel == [pc |-> "idle", record |-> FALSE, job |-> FALSE]

Init ==
    /\ cluster = [j \in Jobs |-> NoObject]
    /\ cache = [j \in Jobs |-> NoObject]
    /\ dirty = [j \in Jobs |-> FALSE]
    /\ row = [j \in Jobs |-> NoRow]
    /\ rec = [j \in Jobs |-> IdleRec]
    /\ del = [j \in Jobs |-> IdleDel]
    /\ clean = [j \in Jobs |-> FALSE]
    /\ alerts = [j \in Jobs |-> {}]
    /\ emails = [j \in Jobs |-> [t \in AlertType |-> 0]]
    /\ userDel = [j \in Jobs |-> FALSE]
    /\ unlogged = [j \in Jobs |-> FALSE]
    /\ dropped = [j \in Jobs |-> FALSE]

-----------------------------------------------------------------------------
(***************************************************************************)
(* The cluster: Volcano runs, restarts, ends and expires jobs; the         *)
(* informer brings what happened to the backend.                           *)
(***************************************************************************)
ClusterStep(j, o) ==
    /\ cluster' = [cluster EXCEPT ![j] = o]
    /\ UNCHANGED <<cache, dirty, row, rec, del, clean, alerts, emails, History>>

\* The create handlers write no row: the reconciler does, when it sees the job.
SubmitJob(j) ==
    /\ cluster[j].phase = "absent"
    /\ ClusterStep(j, [phase |-> "New", ran |-> FALSE])

\* A job waits for its pods, at first or again after a restart.
JobPends(j) ==
    /\ cluster[j].phase \in {"New", "Running"}
    /\ ClusterStep(j, [cluster[j] EXCEPT !.phase = "Pending"])

JobRuns(j) ==
    /\ cluster[j].phase = "Pending"
    /\ ClusterStep(j, [phase |-> "Running", ran |-> TRUE])

JobEnds(j) ==
    /\ cluster[j].phase \in {"Pending", "Running"}
    /\ \E p \in EndPhases : ClusterStep(j, [cluster[j] EXCEPT !.phase = p])

\* ttlSecondsAfterFinished, three days in every job the backend creates.
JobExpires(j) ==
    /\ cluster[j].phase \in Terminal
    /\ ClusterStep(j, [cluster[j] EXCEPT !.phase = "gone"])

\* An event reaches the backend: a change, an update that leaves the phase
\* alone, or a resync.
Inform(j) ==
    /\ cache[j] # cluster[j] \/ Exists(cluster[j])
    /\ cache' = [cache EXCEPT ![j] = cluster[j]]
    /\ dirty' = [dirty EXCEPT ![j] = TRUE]
    /\ dropped' = [dropped EXCEPT ![j] = FALSE]
    /\ UNCHANGED <<cluster, row, rec, del, clean, alerts, emails, userDel, unlogged>>

-----------------------------------------------------------------------------
(***************************************************************************)
(* Reconcile(name), from the Get of the job to the last write of its row.  *)
(***************************************************************************)
Goto(j, pc) == rec' = [rec EXCEPT ![j].pc = pc]
Done(j)     == rec' = [rec EXCEPT ![j] = IdleRec]

\* Mutant: the call gives up and does not return the error.
Requeue_Forgotten(j) ==
    /\ "db" \in Faults
    /\ Done(j)
    /\ UNCHANGED <<cluster, cache, dirty, row, del, clean, alerts, emails, History>>

\* The call returns an error: the work queue holds the name again.
Requeue(j) ==
    /\ "db" \in Faults
    /\ Done(j)
    /\ dirty' = [dirty EXCEPT ![j] = TRUE]
    /\ UNCHANGED <<cluster, cache, row, del, clean, alerts, emails, History>>

\* A Get that fails with anything but NotFound ends the call without an error.
ReconcileGet(j) ==
    /\ dirty[j] /\ rec[j].pc = "idle"
    /\ dirty' = [dirty EXCEPT ![j] = FALSE]
    /\ \/ /\ rec' = [rec EXCEPT ![j] = [pc  |-> IF Exists(cache[j]) THEN "found" ELSE "gone",
                                        job |-> cache[j], old |-> NoRow]]
          /\ UNCHANGED dropped
       \/ /\ "get" \in Faults
          /\ dropped' = [dropped EXCEPT ![j] = TRUE]
          /\ UNCHANGED rec
    /\ UNCHANGED <<cluster, cache, row, del, clean, alerts, emails, userDel, unlogged>>

\* The job is gone: read its row.  A settled row only lacks its profile data.
GoneRead(j) ==
    /\ rec[j].pc = "gone"
    /\ IF Live(j) /\ ~(row[j].status \in Settled /\ row[j].profile)
       THEN rec' = [rec EXCEPT ![j].pc = "settle", ![j].old = row[j]]
       ELSE Done(j)
    /\ UNCHANGED <<cluster, cache, dirty, row, del, clean, alerts, emails, History>>

\* Mutant: the profile data is stored and the status is not.
SettledRow_KeepStatus(r, old) ==
    IF r.state = "live" THEN [r EXCEPT !.profile = TRUE] ELSE r

\* Updates of a row that has been deleted meanwhile affect no row.
SettledRow(r, old) ==
    CASE r.state # "live"       -> r
      [] old.status \in Settled -> [r EXCEPT !.profile = TRUE]
      [] OTHER                  -> [r EXCEPT !.status = "Freed", !.profile = TRUE]

GoneWrite(j) ==
    /\ rec[j].pc = "settle"
    /\ row' = [row EXCEPT ![j] = SettledRow(row[j], rec[j].old)]
    /\ Done(j)
    /\ UNCHANGED <<cluster, cache, dirty, del, clean, alerts, emails, History>>

\* The email that the change from the row's status to the job's phase calls for.
AlertDue(j) ==
    /\ rec[j].old.alert
    /\ rec[j].job.phase \in AlertType
    /\ rec[j].old.status # rec[j].job.phase

FoundRead(j) ==
    /\ rec[j].pc = "found"
    /\ rec' = [rec EXCEPT ![j].pc = IF Live(j) THEN "alert" ELSE "create", ![j].old = row[j]]
    /\ UNCHANGED <<cluster, cache, dirty, row, del, clean, alerts, emails, History>>

\* Mutant: the insert looks at live rows only, with no unique index behind it.
CreateRow_NoIndex(j) ==
    /\ rec[j].pc = "create"
    /\ Done(j)
    /\ \E a \in BOOLEAN :
         row' = [row EXCEPT ![j] = [NoRow EXCEPT !.state = "live", !.alert = a,
                                                 !.status = rec[j].job.phase]]
    /\ UNCHANGED <<cluster, cache, dirty, del, clean, alerts, emails, History>>

\* generateCreateJobModel, then an insert that the unique index refuses while a
\* soft-deleted row holds the name; the error puts the name back in the queue.
CreateRow(j) ==
    /\ rec[j].pc = "create"
    /\ Done(j)
    /\ IF row[j].state = "none"
       THEN /\ \E a \in BOOLEAN :
                 row' = [row EXCEPT ![j] = [NoRow EXCEPT !.state = "live", !.alert = a,
                                                         !.status = rec[j].job.phase]]
            /\ UNCHANGED dirty
       ELSE /\ dirty' = [dirty EXCEPT ![j] = TRUE]
            /\ UNCHANGED row
    /\ UNCHANGED <<cluster, cache, del, clean, alerts, emails, History>>

\* JobRunningAlert asks whether the row's running timestamp is 10 minutes after
\* its creation; the zero timestamp of a job that had not run before is not.
Condition(j) ==
    rec[j].job.phase = "Running" => row[j].ran /\ j \in Slow

OneMore(n) == IF n = 0 THEN 1 ELSE 2

\* sendJobNotification up to the email, whose failure is only logged.
SendAlert(j) ==
    /\ rec[j].pc = "alert"
    /\ IF AlertDue(j) /\ Live(j) /\ Condition(j) /\ rec[j].job.phase \notin alerts[j]
       THEN \/ /\ emails' = [emails EXCEPT ![j][rec[j].job.phase] = OneMore(@)]
               /\ Goto(j, "record")
            \/ /\ "mail" \in Faults
               /\ Goto(j, "update")
               /\ UNCHANGED emails
       ELSE /\ Goto(j, "update")
            /\ UNCHANGED emails
    /\ UNCHANGED <<cluster, cache, dirty, row, del, clean, alerts, History>>

\* Mutant: nothing is written to the alerts table.
RecordAlert_Forgotten(j) ==
    /\ rec[j].pc = "record"
    /\ Goto(j, "update")
    /\ UNCHANGED <<cluster, cache, dirty, row, del, clean, alerts, emails, History>>

\* The alerts row is written after the email has gone out.
RecordAlert(j) ==
    /\ rec[j].pc = "record"
    /\ Goto(j, "update")
    /\ \/ /\ alerts' = [alerts EXCEPT ![j] = @ \cup {rec[j].job.phase}]
          /\ UNCHANGED unlogged
       \/ /\ "record" \in Faults
          /\ unlogged' = [unlogged EXCEPT ![j] = TRUE]
          /\ UNCHANGED alerts
    /\ UNCHANGED <<cluster, cache, dirty, row, del, clean, emails, userDel, dropped>>

\* generateUpdateJobModel.  gorm's Updates skips zero fields: the empty phase
\* and an empty timestamp leave their columns alone.  Profile data is collected
\* at the end, when no pod runs any more and Prometheus has it.
UpdatedRow(r, o, old, collected) ==
    [r EXCEPT !.status  = IF o.phase = "New" THEN @ ELSE o.phase,
              !.ran     = @ \/ o.ran,
              !.profile = @ \/ (o.phase \in Terminal /\ ~old.profile /\ collected)]

UpdateRow(j) ==
    /\ rec[j].pc = "update"
    /\ \E collected \in BOOLEAN :
         row' = [row EXCEPT ![j] = IF Live(j)
                                   THEN UpdatedRow(@, rec[j].job, rec[j].old, collected)
                                   ELSE @]
    /\ Done(j)
    /\ UNCHANGED <<cluster, cache, dirty, del, clean, alerts, emails, History>>

\* Every query of the call may fail, and the call returns the error.
ReconcileFails(j) ==
    /\ rec[j].pc \in {"gone", "settle", "found", "create", "update"}
    /\ Requeue(j)

Reconcile(j) ==
    \/ ReconcileGet(j) \/ GoneRead(j) \/ GoneWrite(j) \/ FoundRead(j)
    \/ CreateRow(j) \/ SendAlert(j) \/ RecordAlert(j) \/ UpdateRow(j)

-----------------------------------------------------------------------------
(***************************************************************************)
(* The delete handler, the alert switch and the cleaners.                  *)
(***************************************************************************)
\* deleteJob: the row must be there; the job is looked up in the cache.
DeleteRequest(j) ==
    /\ Live(j) /\ del[j].pc = "idle"
    /\ del' = [del EXCEPT ![j] =
                 [pc     |-> "row",
                  record |-> ~Exists(cache[j]) \/ cache[j].phase \in Terminal,
                  job    |-> Exists(cache[j])]]
    /\ UNCHANGED <<cluster, cache, dirty, row, rec, clean, alerts, emails, History>>

\* The row goes first: deleted, or marked Deleted.
DeleteRow(j) ==
    /\ del[j].pc = "row"
    /\ IF del[j].record
       THEN /\ row' = [row EXCEPT ![j].state = IF Live(j) THEN "soft" ELSE @]
            /\ UNCHANGED userDel
       ELSE /\ row' = [row EXCEPT ![j].status = IF Live(j) THEN "Deleted" ELSE @]
            /\ userDel' = [userDel EXCEPT ![j] = TRUE]
    /\ del' = [del EXCEPT ![j] = IF del[j].job THEN [@ EXCEPT !.pc = "job"] ELSE IdleDel]
    /\ UNCHANGED <<cluster, cache, dirty, rec, clean, alerts, emails, unlogged, dropped>>

\* Then the job, which may be gone already.
DeleteJob(j) ==
    /\ del[j].pc = "job"
    /\ cluster' = [cluster EXCEPT ![j].phase = IF Exists(cluster[j]) THEN "gone" ELSE @]
    /\ del' = [del EXCEPT ![j] = IdleDel]
    /\ UNCHANGED <<cache, dirty, row, rec, clean, alerts, emails, History>>

\* A failed write or a failed cluster call ends the request where it is.
DeleteFails(j) ==
    /\ \/ del[j].pc = "row" /\ "db" \in Faults
       \/ del[j].pc = "job" /\ "api" \in Faults
    /\ del' = [del EXCEPT ![j] = IdleDel]
    /\ UNCHANGED <<cluster, cache, dirty, row, rec, clean, alerts, emails, History>>

\* ToggleAlertState reads the switch and writes its opposite; two requests at
\* once may leave either value.
ToggleAlertState(j) ==
    /\ Live(j)
    /\ \E a \in BOOLEAN : row' = [row EXCEPT ![j].alert = a]
    /\ UNCHANGED <<cluster, cache, dirty, rec, del, clean, alerts, emails, History>>

\* A cleaner lists the jobs to delete by the status in their rows ...
CleanerList(j) ==
    /\ ~clean[j] /\ Live(j) /\ row[j].status \in {"Running", "Pending"}
    /\ clean' = [clean EXCEPT ![j] = TRUE]
    /\ UNCHANGED <<cluster, cache, dirty, row, rec, del, alerts, emails, History>>

\* ... and deletes each that the cache still has; the row is not written.
CleanerFree(j) ==
    /\ clean[j]
    /\ clean' = [clean EXCEPT ![j] = FALSE]
    /\ \/ /\ Exists(cache[j])
          /\ cluster' = [cluster EXCEPT ![j].phase = IF Exists(cluster[j]) THEN "gone" ELSE @]
       \/ /\ ~Exists(cache[j]) \/ "api" \in Faults
          /\ UNCHANGED cluster
    /\ UNCHANGED <<cache, dirty, row, rec, del, alerts, emails, History>>

\* The process dies and starts again: the new informer lists the jobs that
\* exist, and nothing tells it which ones are gone.
Crash ==
    /\ "crash" \in Faults
    /\ cache' = cluster
    /\ dirty' = [j \in Jobs |-> Exists(cluster[j])]
    /\ dropped' = [j \in Jobs |-> cluster[j].phase = "gone"]
    /\ unlogged' = [j \in Jobs |-> unlogged[j] \/ rec[j].pc = "record"]
    /\ rec' = [j \in Jobs |-> IdleRec]
    /\ del' = [j \in Jobs |-> IdleDel]
    /\ clean' = [j \in Jobs |-> FALSE]
    /\ UNCHANGED <<cluster, row, alerts, emails, userDel>>

Environment(j) ==
    \/ SubmitJob(j) \/ JobPends(j) \/ JobRuns(j) \/ JobEnds(j) \/ JobExpires(j)

JobStep(j) ==
    \/ Environment(j) \/ Inform(j)
    \/ Reconcile(j) \/ ReconcileFails(j)
    \/ DeleteRequest(j) \/ DeleteRow(j) \/ DeleteJob(j) \/ DeleteFails(j)
    \/ ToggleAlertState(j) \/ CleanerList(j) \/ CleanerFree(j)

Next == (\E j \in Jobs : JobStep(j)) \/ Crash

Spec == Init /\ [][Next]_vars

\* The informer keeps delivering; a name in the queue is reconciled, and a write
\* that is retried for ever succeeds at last.  Nothing is assumed of the
\* cluster, the users or the cleaners.
Fairness ==
    \A j \in Jobs :
      /\ WF_vars(Inform(j))
      /\ WF_vars(Reconcile(j))
      /\ SF_vars(GoneRead(j)) /\ SF_vars(GoneWrite(j))
      /\ SF_vars(FoundRead(j)) /\ SF_vars(CreateRow(j)) /\ SF_vars(UpdateRow(j))

FairSpec == Spec /\ Fairness

-----------------------------------------------------------------------------
(***************************************************************************)
(* Properties.                                                             *)
(***************************************************************************)
\* Every variable has its type.  A row never takes a status that is no phase
\* of a job, and an alerts row is only written for a phase with an email.
TypeOK ==
    /\ cluster \in [Jobs -> Object] /\ cache \in [Jobs -> Object]
    /\ dirty \in [Jobs -> BOOLEAN]
    /\ row \in [Jobs -> Row]
    /\ rec \in [Jobs -> Rec] /\ del \in [Jobs -> Del]
    /\ clean \in [Jobs -> BOOLEAN]
    /\ alerts \in [Jobs -> SUBSET AlertType]
    /\ emails \in [Jobs -> [AlertType -> 0..2]]
    /\ userDel \in [Jobs -> BOOLEAN] /\ unlogged \in [Jobs -> BOOLEAN]
    /\ dropped \in [Jobs -> BOOLEAN]

Quiet(j) ==
    ~dirty[j] /\ rec[j].pc = "idle" /\ cache[j] = cluster[j] /\ ~dropped[j]

\* The row of j says of the object o what it should.
SyncedTo(j, o) ==
    /\ o.phase = "absent" => row[j].state = "none"
    /\ o.phase = "gone" /\ Live(j) => row[j].status \in Settled /\ row[j].profile
    /\ Exists(o) => row[j].state # "none"
    /\ Exists(o) /\ Live(j) /\ o.phase # "New" => row[j].status \in {o.phase, "Deleted"}

\* When the reconciler has nothing left to do for a job and no event was lost,
\* the row tells the truth: an existing job has a row with its phase (or with
\* the user's Deleted), and the row of a job that is gone is settled with its
\* profile data.  No order of events, delete requests, cleaners, failed writes
\* and retries leaves a stale row behind.
QuietMeansSynced == \A j \in Jobs : Quiet(j) => SyncedTo(j, cluster[j])

\* A job's end is final in its row: Completed, Failed, Aborted or Terminated is
\* never overwritten by an older phase nor by Freed, only by the user's Deleted.
TerminalFinal ==
    [][\A j \in Jobs : Live(j) /\ row[j].status \in Terminal =>
         row'[j].status \in {row[j].status, "Deleted"}]_vars

\* A row the user has deleted does not come back while its job lingers in the
\* cluster and keeps being reconciled.
NoResurrection ==
    [][\A j \in Jobs : row[j].state = "soft" => row'[j].state = "soft"]_vars

\* A job's owner gets at most one email of each type, whatever is retried after
\* it was sent, unless its alerts row could not be written.
EmailOnce ==
    \A j \in Jobs : \A t \in AlertType : emails[j][t] > 1 => unlogged[j]

\* The row of a job that is gone is settled or deleted in the end.
GoneIsSettled ==
    \A j \in Jobs :
      cluster[j].phase = "gone" ~> (~Live(j) \/ (row[j].status \in Settled /\ row[j].profile))

\* What vcjob-reconciler.go:116 says of a job that is not found, that its status
\* is set: once nothing is left to do, its row no longer shows it alive.
GoneIsMarked ==
    \A j \in Jobs :
      /\ ~dirty[j] /\ rec[j].pc = "idle" /\ del[j].pc = "idle"
      /\ cluster[j].phase = "gone" /\ cache[j] = cluster[j] /\ Live(j)
      => row[j].status \in Settled

-----------------------------------------------------------------------------
(***************************************************************************)
(* The inductive invariant behind QuietMeansSynced, TerminalFinal and      *)
(* EmailOnce, one job at a time.                                           *)
(***************************************************************************)
\* The object o may be what became of the object p.
Follows(o, p) ==
    /\ p.phase \in Terminal => o.phase \in {p.phase, "gone"}
    /\ p.phase = "gone" => o.phase = "gone"
    /\ p.phase # "absent" => o.phase # "absent"

\* The cluster runs ahead of the cache, and the cache of what Reconcile read;
\* a call that no event has overtaken works on what the cache holds.
CopiesInv(j) ==
    /\ Follows(cluster[j], cache[j])
    /\ cluster[j].phase = "absent" => cache[j] = cluster[j]
    /\ rec[j].pc # "idle" => Follows(cache[j], rec[j].job)
    /\ rec[j].pc # "idle" /\ ~dirty[j] => rec[j].job = cache[j]
    /\ cache[j].phase = "absent" => ~dirty[j] /\ rec[j].pc = "idle" /\ row[j].state = "none"

\* What each step of Reconcile may rely on.
StepInv(j) ==
    /\ rec[j].pc \in {"gone", "settle"} => rec[j].job.phase = "gone"
    /\ rec[j].pc \in {"found", "create", "alert", "record", "update"} => Exists(rec[j].job)
    /\ rec[j].pc \in {"alert", "record", "update"} => row[j].state # "none"
    /\ rec[j].pc = "record" => rec[j].job.phase \in AlertType
    /\ rec[j].pc = "settle" /\ Live(j) =>
         (rec[j].old.status \in Settled => row[j].status \in Settled)

\* A row that shows the job's end is ahead of everything still to be written.
EndInv(j) ==
    Live(j) /\ row[j].status \in Terminal =>
      /\ cache[j].phase \in {row[j].status, "gone"}
      /\ rec[j].pc # "idle" => rec[j].job.phase \in {row[j].status, "gone"}
      /\ rec[j].pc = "settle" => rec[j].old.status \in Settled

\* Between calls the row is synced to the cache, unless an event is waiting.
SyncInv(j) ==
    ~dirty[j] /\ ~dropped[j] /\ rec[j].pc = "idle" => SyncedTo(j, cache[j])

\* An email that went out is in the alerts table or about to be.
MailInv(j) ==
    ~unlogged[j] =>
      \A t \in AlertType :
        /\ emails[j][t] <= 1
        /\ emails[j][t] = 1 => \/ t \in alerts[j]
                               \/ rec[j].pc = "record" /\ rec[j].job.phase = t

JobInv(j) == CopiesInv(j) /\ StepInv(j) /\ EndInv(j) /\ SyncInv(j) /\ MailInv(j)

\* Whatever interleaving led here, every job's row, cache, running Reconcile
\* call and alerts fit together; the properties above follow from it.
IInv == TypeOK /\ \A j \in Jobs : JobInv(j)

=============================================================================
