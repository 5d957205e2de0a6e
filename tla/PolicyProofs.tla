---------------------------- MODULE PolicyProofs ----------------------------
(***************************************************************************)
(* Proofs about Cleaner and about CronManager, which fires it.             *)
(*                                                                         *)
(* Cleaner, for any jobs, any number of runs at one time, any limits and   *)
(* any calls that fail: a job whose lock held all along is spared, a mail  *)
(* is repeated only with an excuse, and the records name the jobs deleted. *)
(* Every step of a run replaces the run by one other.  LockStep, AuditStep *)
(* and MailStep say what the new run must satisfy for the three parts of   *)
(* the invariant, QuietStep and WriteStep put them together for steps      *)
(* without and with a mail, and each action is then a matter of shape.     *)
(*                                                                         *)
(* CronManager, for any configurations, any number of entries and any      *)
(* choice of faults: the invariant of rows and entries, that an update     *)
(* takes no entry of another configuration away, and that the manager      *)
(* implements CronSchedule.  Everything rests on one fact: while the       *)
(* manager is in step with the scheduler, the id in an active row belongs  *)
(* to one entry, its own, and the id in a suspended row belongs to none.   *)
(***************************************************************************)
EXTENDS Cleaner, CronManager, TLAPS

\* The kinds of a deletion's mail, and a run as the lemmas below speak of it: the
\* mail in its hands, whether it is sending it, and whether the fate of a deletion
\* hangs on it.
Deletion == {"LongTimeDeleted", "LowGPUDeleted"}
MailOf(q) == <<q.job, q.kind>>
Sends(q)  == q.pc \in {"send", "record"}
Decides(q) == q.pc \in {"mail", "send", "record"} /\ q.kind \in Deletion

\* A run that is not in progress is a run.
LEMMA NoRunShape == NoRun \in Run
  BY CleanerAssumption DEF NoRun, Run, PC, Policy, Kind

\* A step of one run keeps the locks in order if the run lists no job it saw locked.
LEMMA LockStep ==
    ASSUME LocksHeld, LockedIsSpared, run \in [Runs -> Run], NEW r \in Runs, NEW new,
           Set(r, new), UNCHANGED lock, new.locked \subseteq getJobWhiteList,
           new.policy # "jupyter" => new.del \cap new.locked = {}
    PROVE  LocksHeld' /\ LockedIsSpared'
  BY DEF LocksHeld, LockedIsSpared, Set, getJobWhiteList

\* What a run had deleted, and what it deletes now, is recorded, given up, or still
\* with the run.
LEMMA AuditStep ==
    ASSUME Audited, run \in [Runs -> Run], NEW r \in Runs, NEW new, Set(r, new),
           recorded \subseteq recorded', unaudited \subseteq unaudited',
           new.pc = "idle" => new.deleted = {},
           \A j : j \in (cleaned' \ cleaned) \cup run[r].deleted \/ (Decides(run[r]) /\ run[r].job = j)
                  => j \in recorded' \cup unaudited' \cup new.deleted \/ (Decides(new) /\ new.job = j)
    PROVE  Audited'
  <1>1. \A s \in Runs : run'[s] = IF s = r THEN new ELSE run[s]
    BY DEF Set
  <1>2. \A s \in Runs : run'[s].pc = "idle" => run'[s].deleted = {}
    BY <1>1 DEF Audited
  <1>3. ASSUME NEW j \in cleaned'
        PROVE  \/ j \in recorded' \cup unaudited'
               \/ \E s \in Runs : j \in run'[s].deleted \/ (Decides(run'[s]) /\ run'[s].job = j)
    <2>1. \/ j \in cleaned' \ cleaned
          \/ j \in recorded \cup unaudited
          \/ \E s \in Runs : j \in run[s].deleted \/ (Decides(run[s]) /\ run[s].job = j)
      BY <1>3 DEF Audited, MailsDeletion, Decides, Deletion
    <2>2. CASE j \in (cleaned' \ cleaned) \cup run[r].deleted \/ (Decides(run[r]) /\ run[r].job = j)
      BY <1>1, <2>2
    <2>3. ASSUME NEW s \in Runs, s # r, j \in run[s].deleted \/ (Decides(run[s]) /\ run[s].job = j)
          PROVE  \E t \in Runs : j \in run'[t].deleted \/ (Decides(run'[t]) /\ run'[t].job = j)
      <3>1. run'[s] = run[s]
        BY <1>1, <2>3
      <3> QED
        BY <2>3, <3>1
    <2> QED
      BY <2>1, <2>2, <2>3
  <1> QED
    BY <1>2, <1>3 DEF Audited, MailsDeletion, Decides, Deletion

\* The mail of one run: it starts to send what nobody sends and nobody sent, and
\* what it sent is in the alerts or will be.
LEMMA MailStep ==
    ASSUME \A m \in Mail \ excused : MailInOrder(m), run \in [Runs -> Run], NEW r \in Runs, NEW new,
           Set(r, new), excused \subseteq excused', sent \subseteq sent',
           ASSUME NEW m \in Mail \ excused'
           PROVE  /\ Sends(new) /\ MailOf(new) = m =>
                        \/ Sends(run[r]) /\ TheMail(r) = m
                        \/ \A s \in Runs \ {r} : ~(Sends(run[s]) /\ TheMail(s) = m)
                  /\ new.pc = "send" /\ MailOf(new) = m => m \notin sent'
                  /\ m \in sent' \ sent => /\ Sends(run[r]) /\ TheMail(r) = m
                                           /\ new.pc = "record" /\ MailOf(new) = m
                  /\ run[r].pc = "record" /\ TheMail(r) = m =>
                        (new.pc = "record" /\ MailOf(new) = m) \/ alerts'[m] = "sent"
                  /\ alerts[m] = "sent" => alerts'[m] = "sent"
                  /\ alerts'[m] # "repeat"
    PROVE  \A m \in Mail \ excused' : MailInOrder(m)'
  <1> SUFFICES ASSUME NEW m \in Mail \ excused' PROVE MailInOrder(m)'
    OBVIOUS
  <1>0. MailInOrder(m)
    OBVIOUS
  <1>1. \A s \in Runs : run'[s] = IF s = r THEN new ELSE run[s]
    BY DEF Set
  <1>2. \A s \in Runs : TheMail(s)' = IF s = r THEN MailOf(new) ELSE TheMail(s)
    BY <1>1 DEF TheMail, MailOf
  <1> DEFINE has(s) == Sends(run[s]) /\ TheMail(s) = m
  <1>3. \A s, t \in Runs : has(s) /\ has(t) => s = t
    BY <1>0 DEF MailInOrder, Sends
  <1>4. \A s, t \in Runs : has(s)' /\ has(t)' => s = t
    <2> SUFFICES ASSUME NEW s \in Runs, NEW t \in Runs, has(s)', has(t)', s # t PROVE FALSE
      OBVIOUS
    <2>1. \A u \in Runs \ {r} : has(u)' => has(u)
      BY <1>1, <1>2 DEF Sends
    <2>2. has(r)' => has(r) \/ \A u \in Runs \ {r} : ~has(u)
      BY <1>1, <1>2
    <2> QED
      BY <1>3, <2>1, <2>2
  <1>5. ASSUME NEW s \in Runs, run'[s].pc = "send", TheMail(s)' = m PROVE m \notin sent'
    <2>1. CASE s = r
      BY <1>1, <1>2, <1>5, <2>1
    <2>2. CASE s # r
      <3>1. has(s) /\ m \notin sent
        BY <1>0, <1>1, <1>2, <1>5, <2>2 DEF MailInOrder, Sends
      <3> QED
        BY <1>3, <2>2, <3>1
    <2> QED
      BY <2>1, <2>2
  <1>6. m \in sent' => alerts'[m] = "sent" \/ \E s \in Runs : run'[s].pc = "record" /\ TheMail(s)' = m
    <2>1. CASE m \in sent' \ sent
      BY <1>1, <1>2, <2>1
    <2>2. CASE m \in sent
      <3>1. alerts[m] = "sent" \/ \E s \in Runs : run[s].pc = "record" /\ TheMail(s) = m
        BY <1>0, <2>2 DEF MailInOrder
      <3>2. ASSUME NEW s \in Runs, run[s].pc = "record", TheMail(s) = m
            PROVE  alerts'[m] = "sent" \/ \E t \in Runs : run'[t].pc = "record" /\ TheMail(t)' = m
        <4>1. CASE s = r
          BY <1>1, <1>2, <3>2, <4>1
        <4>2. CASE s # r
          BY <1>1, <1>2, <3>2, <4>2
        <4> QED
          BY <4>1, <4>2
      <3> QED
        BY <3>1, <3>2
    <2> QED
      BY <2>1, <2>2
  <1> QED
    BY <1>4, <1>5, <1>6 DEF MailInOrder, Sends

\* The variables that no step of a run writes, and the type of the alerts.
Tables == <<row, scheduled, age, idle, lock, clientSet>>
AlertTable == [Mail -> {"none", "sent", "repeat"}]

\* A step that neither sends nor records a mail, of a run that is not at it.
LEMMA QuietStep ==
    ASSUME CleanerInv, NEW r \in Runs, NEW new \in Run, Set(r, new),
           UNCHANGED <<Tables, alerts, recorded, unaudited, sent, resent, excused>>,
           cluster' \subseteq Jobs, cleaned' \subseteq Jobs, faults' \in 0..MaxFaults,
           run[r].pc \notin {"mail", "send", "record"}, new.pc \notin {"idle", "send", "record"},
           run[r].deleted \subseteq new.deleted,
           \A j \in cleaned' \ cleaned : j \in new.deleted \/ (Decides(new) /\ new.job = j),
           new.locked \subseteq getJobWhiteList,
           new.policy # "jupyter" => new.del \cap new.locked = {}
    PROVE  CleanerInv'
  <1>0. run \in [Runs -> Run] /\ UNCHANGED lock
    BY DEF CleanerInv, TypeOK, Tables
  <1>1. LocksHeld' /\ LockedIsSpared'
    BY <1>0, LockStep DEF CleanerInv
  <1>2. Audited'
    <2>1. \A j : j \in (cleaned' \ cleaned) \cup run[r].deleted \/ (Decides(run[r]) /\ run[r].job = j)
                 => j \in recorded' \cup unaudited' \cup new.deleted \/ (Decides(new) /\ new.job = j)
      BY DEF Decides
    <2> QED
      BY <1>0, <2>1, AuditStep DEF CleanerInv
  <1>3. \A m \in Mail \ excused' : MailInOrder(m)'
    <2>1. ASSUME NEW m \in Mail \ excused' PROVE alerts[m] # "repeat"
      BY DEF CleanerInv, MailInOrder
    <2> QED
      BY <1>0, <2>1, MailStep DEF CleanerInv, Sends
  <1>4. TypeOK'
    BY <1>0 DEF CleanerInv, TypeOK, Set, Tables
  <1> QED
    BY <1>1, <1>2, <1>3, <1>4 DEF CleanerInv, MailOnce

\* A step of a run with a mail in hand, or of one that writes the tables.
LEMMA WriteStep ==
    ASSUME CleanerInv, NEW r \in Runs, NEW new \in Run, Set(r, new),
           UNCHANGED <<Tables, cluster, cleaned>>, faults' \in 0..MaxFaults, alerts' \in AlertTable,
           recorded \subseteq recorded', recorded' \subseteq Jobs,
           unaudited \subseteq unaudited', unaudited' \subseteq Jobs,
           sent \subseteq sent', sent' \subseteq Mail, excused \subseteq excused', excused' \subseteq Mail,
           resent' \subseteq excused',
           new.pc = "idle" => new.deleted = {},
           \A j : j \in run[r].deleted \/ (Decides(run[r]) /\ run[r].job = j)
                  => j \in recorded' \cup unaudited' \cup new.deleted \/ (Decides(new) /\ new.job = j),
           new.locked \subseteq getJobWhiteList,
           new.policy # "jupyter" => new.del \cap new.locked = {},
           ASSUME NEW m \in Mail \ excused'
           PROVE  /\ Sends(new) /\ MailOf(new) = m =>
                        \/ Sends(run[r]) /\ TheMail(r) = m
                        \/ \A s \in Runs \ {r} : ~(Sends(run[s]) /\ TheMail(s) = m)
                  /\ new.pc = "send" /\ MailOf(new) = m => m \notin sent'
                  /\ m \in sent' \ sent => /\ Sends(run[r]) /\ TheMail(r) = m
                                           /\ new.pc = "record" /\ MailOf(new) = m
                  /\ run[r].pc = "record" /\ TheMail(r) = m =>
                        (new.pc = "record" /\ MailOf(new) = m) \/ alerts'[m] = "sent"
                  /\ alerts[m] = "sent" => alerts'[m] = "sent"
                  /\ alerts'[m] # "repeat"
    PROVE  CleanerInv'
  <1>0. run \in [Runs -> Run] /\ UNCHANGED lock
    BY DEF CleanerInv, TypeOK, Tables
  <1>1. LocksHeld' /\ LockedIsSpared'
    BY <1>0, LockStep DEF CleanerInv
  <1>2. Audited'
    BY <1>0, AuditStep DEF CleanerInv
  <1>3. \A m \in Mail \ excused' : MailInOrder(m)'
    BY <1>0, MailStep DEF CleanerInv
  <1>4. TypeOK'
    BY <1>0 DEF CleanerInv, TypeOK, Set, Tables, AlertTable
  <1> QED
    BY <1>1, <1>2, <1>3, <1>4 DEF CleanerInv, MailOnce

-----------------------------------------------------------------------------
\* The lists and the deletions.
LEMMA Lists ==
    ASSUME CleanerInv, NEW p \in Policy
    PROVE  /\ Deletions(p) \subseteq Jobs /\ Reminders(p) \subseteq Jobs
           /\ p # "jupyter" => Deletions(p) \cap getJobWhiteList = {}
  <1>1. getLongTimeVCjobs(0) \subseteq Jobs /\ getLongTimeVCjobs(0) \cap getJobWhiteList = {}
    BY DEF getLongTimeVCjobs
  <1>2. getLongTimeVCjobs(RemindTime) \subseteq Jobs
    BY DEF getLongTimeVCjobs
  <1>3. \A n : getLowGPUUsageVCjobs(n) \subseteq Jobs /\ getLowGPUUsageVCjobs(n) \cap getJobWhiteList = {}
    BY DEF getLowGPUUsageVCjobs, CleanerInv, TypeOK
  <1>4. unscheduledJupyterJobs \subseteq Jobs
    BY CleanerAssumption DEF unscheduledJupyterJobs
  <1>5. CASE p = "long"
    BY <1>1, <1>2, <1>5 DEF Deletions, Reminders
  <1>6. CASE p = "low"
    BY <1>3, <1>6 DEF Deletions, Reminders
  <1>7. CASE p = "jupyter"
    BY <1>4, <1>7 DEF Deletions, Reminders
  <1> QED
    BY <1>5, <1>6, <1>7 DEF Policy

\* What the invariant says of one run, and of the sets that a run changes.
LEMMA RunFacts ==
    ASSUME CleanerInv, NEW r \in Runs
    PROVE  /\ run[r] \in Run /\ run[r].locked \subseteq getJobWhiteList /\ faults \in 0..MaxFaults
           /\ run[r].policy # "jupyter" => run[r].del \cap run[r].locked = {}
           /\ cluster \subseteq Jobs /\ cleaned \subseteq Jobs
  BY DEF CleanerInv, TypeOK, LocksHeld, LockedIsSpared

\* A call that fails leaves the bound on failures.
LEMMA FaultFacts == ASSUME faults \in 0..MaxFaults, Fault PROVE faults' \in 0..MaxFaults
  BY CleanerAssumption DEF Fault

\* The two lists: what is listed is not locked, and what was seen locked is.
LEMMA ListKeeps ==
    ASSUME CleanerInv, NEW r \in Runs, ListDeletions(r) \/ ListReminders(r), UNCHANGED clientSet
    PROVE  CleanerInv'
  <1>0. /\ run[r] \in Run /\ run[r].locked \subseteq getJobWhiteList /\ faults \in 0..MaxFaults
        /\ run[r].policy # "jupyter" => run[r].del \cap run[r].locked = {}
        /\ cluster \subseteq Jobs /\ cleaned \subseteq Jobs
    BY RunFacts
  <1>1. faults' \in 0..MaxFaults /\ UNCHANGED <<jobVars, alerts, recorded, history>>
    BY <1>0, FaultFacts DEF ListDeletions, ListReminders
  <1>2. CASE ListDeletions(r)
    <2>1. PICK pc \in {"check", "list2"}, del \in {Deletions(run[r].policy), run[r].del} :
              Set(r, [run[r] EXCEPT !.pc = pc, !.del = del]) /\ run[r].pc = "list"
      <3>1. [run[r] EXCEPT !.pc = "check"] = [run[r] EXCEPT !.pc = "check", !.del = run[r].del]
            /\ [run[r] EXCEPT !.pc = "list2"] = [run[r] EXCEPT !.pc = "list2", !.del = run[r].del]
        BY <1>0 DEF Run
      <3> QED
        BY <1>2, <3>1 DEF ListDeletions
    <2> QED
      BY <1>0, <1>1, <2>1, QuietStep, Lists DEF Run, PC, Tables, jobVars, history
  <1>3. CASE ListReminders(r)
    <2>1. PICK rem \in SUBSET Jobs, nor \in SUBSET Jobs :
              Set(r, [run[r] EXCEPT !.pc = "delete", !.remind = rem, !.normal = nor])
              /\ run[r].pc = "list2"
      <3>1. PICK reminders, running :
               /\ reminders = Reminders(run[r].policy)
               /\ running = IF run[r].policy = "low" THEN {j \in Jobs : row[j] = "Running"} ELSE {}
        OBVIOUS
      <3>2. /\ run[r].pc = "list2"
            /\ \E rem \in {reminders, {}}, now \in {running, {}} :
                  Set(r, [run[r] EXCEPT !.pc = "delete", !.remind = rem \ run[r].del,
                                        !.normal = now \ (run[r].del \cup rem)])
        BY <1>3, <3>1 DEF ListReminders
      <3>3. reminders \subseteq Jobs /\ running \subseteq Jobs
        BY <1>0, <3>1, Lists DEF Run
      <3>4. \A rem \in {reminders, {}}, now \in {running, {}} :
               rem \ run[r].del \in SUBSET Jobs /\ now \ (run[r].del \cup rem) \in SUBSET Jobs
        BY <3>3
      <3> QED
        BY <3>2, <3>4
    <2> QED
      BY <1>0, <1>1, <2>1, QuietStep DEF Run, PC, Tables, jobVars, history
  <1> QED
    BY <1>2, <1>3

\* The question whether the pods of a Jupyter job are scheduled.
LEMMA CheckKeeps ==
    ASSUME CleanerInv, NEW r \in Runs, NEW j \in Jobs, CheckScheduled(r, j), UNCHANGED clientSet
    PROVE  CleanerInv'
  <1>0. /\ run[r] \in Run /\ run[r].locked \subseteq getJobWhiteList /\ faults \in 0..MaxFaults
        /\ run[r].policy # "jupyter" => run[r].del \cap run[r].locked = {}
        /\ cluster \subseteq Jobs /\ cleaned \subseteq Jobs
    BY RunFacts
  <1>1. /\ faults' \in 0..MaxFaults /\ UNCHANGED <<jobVars, alerts, recorded, history>>
        /\ run[r].pc = "check"
        /\ \/ Set(r, [run[r] EXCEPT !.del = @ \ {j}])
           \/ Set(r, [run[r] EXCEPT !.pc = "remove", !.job = j])
    BY <1>0, FaultFacts DEF CheckScheduled
  <1>2. CASE Set(r, [run[r] EXCEPT !.del = @ \ {j}])
    BY <1>0, <1>1, <1>2, QuietStep DEF Run, PC, Tables, jobVars, history
  <1>3. CASE Set(r, [run[r] EXCEPT !.pc = "remove", !.job = j])
    BY <1>0, <1>1, <1>3, QuietStep DEF Run, PC, Tables, jobVars, history
  <1> QED
    BY <1>1, <1>2, <1>3

\* A deletion, a job that is gone already, or a call that fails.
LEMMA DeletionKeeps ==
    ASSUME CleanerInv, NEW r \in Runs, NEW j \in Jobs, NEW new \in Run,
           \/ Deleted(r, j, new) /\ (j \in new.deleted \/ (Decides(new) /\ new.job = j))
           \/ NotDeleted(r, j, new),
           UNCHANGED clientSet,
           run[r].pc \notin {"mail", "send", "record"}, new.pc \notin {"idle", "send", "record"},
           run[r].deleted \subseteq new.deleted,
           new.locked = run[r].locked, new.policy = run[r].policy, new.del \subseteq run[r].del
    PROVE  CleanerInv'
  <1>0. /\ run[r] \in Run /\ run[r].locked \subseteq getJobWhiteList /\ faults \in 0..MaxFaults
        /\ run[r].policy # "jupyter" => run[r].del \cap run[r].locked = {}
        /\ cluster \subseteq Jobs /\ cleaned \subseteq Jobs
    BY RunFacts
  <1>1. CASE Deleted(r, j, new) /\ (j \in new.deleted \/ (Decides(new) /\ new.job = j))
    BY <1>0, <1>1, QuietStep DEF Deleted, Tables
  <1>2. CASE NotDeleted(r, j, new)
    <2>1. faults' \in 0..MaxFaults
      BY <1>0, <1>2, FaultFacts DEF NotDeleted
    <2> QED
      BY <1>0, <1>2, <2>1, QuietStep DEF NotDeleted, Tables, jobVars, history
  <1> QED
    BY <1>1, <1>2

\* The process ends: every run is gone, and its mails and records are excused.
LEMMA EndKeeps ==
    ASSUME CleanerInv, ProcessEnds, faults' \in 0..MaxFaults, UNCHANGED clientSet
    PROVE  CleanerInv'
  <1>0. run' = [r \in Runs |-> NoRun] /\ NoRun \in Run
    BY NoRunShape DEF ProcessEnds
  <1>1. TypeOK'
    <2>1. {TheMail(s) : s \in {t \in Runs : run[t].pc = "record"}} \subseteq Mail
      BY DEF TheMail, Mail, CleanerInv, TypeOK, Run
    <2> QED
      BY <1>0, <2>1 DEF CleanerInv, TypeOK, ProcessEnds, jobVars
  <1>2. LocksHeld' /\ LockedIsSpared'
    BY <1>0 DEF LocksHeld, LockedIsSpared, NoRun
  <1>3. Audited'
    BY <1>0 DEF Audited, NoRun, ProcessEnds
  <1>4. ASSUME NEW m \in Mail \ excused' PROVE MailInOrder(m)'
    <2>1. MailInOrder(m) /\ m \notin {TheMail(s) : s \in {t \in Runs : run[t].pc = "record"}}
      BY <1>4 DEF CleanerInv, ProcessEnds
    <2>2. m \in sent => alerts[m] = "sent"
      BY <2>1 DEF MailInOrder
    <2>3. \A s \in Runs : run'[s].pc = "idle"
      BY <1>0 DEF NoRun
    <2> QED
      BY <2>1, <2>2, <2>3 DEF MailInOrder, ProcessEnds
  <1>5. MailOnce'
    BY DEF CleanerInv, MailOnce, ProcessEnds
  <1> QED
    BY <1>1, <1>2, <1>3, <1>4, <1>5 DEF CleanerInv

\* Killed, or by a panic of the nil client.
LEMMA CrashKeeps ==
    ASSUME CleanerInv, Killed \/ Panic, UNCHANGED clientSet
    PROVE  CleanerInv'
  <1>1. faults \in 0..MaxFaults
    BY DEF CleanerInv, TypeOK
  <1>2. ProcessEnds /\ faults' \in 0..MaxFaults
    BY <1>1, FaultFacts DEF Killed, Panic
  <1> QED
    BY <1>2, EndKeeps

\* The deletion once it is known what is left in the list.
Deletes(r, j, left) ==
    /\ run[r].pc = "delete"
    /\ LET rest == [run[r] EXCEPT !.del = left]
           low  == run[r].policy = "low"
           done == [rest EXCEPT !.deleted = @ \cup {j}]
           mail == [rest EXCEPT !.pc = "mail", !.job = j, !.deleted = IF low THEN @ \cup {j} ELSE @,
                                !.kind = IF low THEN "LowGPUDeleted" ELSE "LongTimeDeleted"]
       IN  \/ Panic
           \/ \/ Deleted(r, j, IF j \in Alerting THEN mail ELSE done)
              \/ NotDeleted(r, j, rest)

\* The deletion of a listed job, with or without a mail to send.
LEMMA DeleteKeeps ==
    ASSUME CleanerInv, NEW r \in Runs, NEW j \in Jobs, DeleteJob(r, j), UNCHANGED clientSet
    PROVE  CleanerInv'
  <1>l. PICK left \in Left(r, run[r].del, j) : Deletes(r, j, left)
    BY DEF DeleteJob, Deletes
  <1> DEFINE rest == [run[r] EXCEPT !.del = left]
             low  == run[r].policy = "low"
             done == [rest EXCEPT !.deleted = @ \cup {j}]
             counted == IF low THEN run[r].deleted \cup {j} ELSE run[r].deleted
             kind == IF low THEN "LowGPUDeleted" ELSE "LongTimeDeleted"
             mail == [rest EXCEPT !.pc = "mail", !.job = j, !.deleted = counted, !.kind = kind]
  <1>0. run[r] \in Run /\ left \subseteq run[r].del /\ run[r].del \subseteq Jobs
    BY <1>l, RunFacts DEF Left, Run
  <1>1. /\ run[r].pc = "delete"
        /\ Panic \/ Deleted(r, j, mail) \/ Deleted(r, j, done) \/ NotDeleted(r, j, rest)
    <2>1. mail = [rest EXCEPT !.pc = "mail", !.job = j,
                              !.deleted = IF low THEN @ \cup {j} ELSE @,
                              !.kind = IF low THEN "LowGPUDeleted" ELSE "LongTimeDeleted"]
      BY <1>0 DEF Run
    <2> QED
      BY <1>l, <2>1 DEF Deletes
  <1>2. rest \in Run /\ rest.pc = "delete" /\ rest.deleted = run[r].deleted
        /\ rest.locked = run[r].locked /\ rest.policy = run[r].policy /\ rest.del \subseteq run[r].del
    BY <1>0, <1>1 DEF Run
  <1>3. /\ done \in Run /\ done.pc = "delete" /\ done.deleted = run[r].deleted \cup {j}
        /\ done.locked = run[r].locked /\ done.policy = run[r].policy /\ done.del \subseteq run[r].del
    BY <1>0, <1>1, <1>2 DEF Run
  <1>4. /\ mail \in Run /\ mail.pc = "mail" /\ mail.kind \in Deletion /\ mail.job = j
        /\ run[r].deleted \subseteq mail.deleted
        /\ mail.locked = run[r].locked /\ mail.policy = run[r].policy /\ mail.del \subseteq run[r].del
    <2>1. kind \in Kind /\ kind \in Deletion /\ counted \in SUBSET Jobs /\ run[r].deleted \subseteq counted
      BY <1>0 DEF Kind, Deletion, Run
    <2> HIDE DEF kind, counted
    <2> QED
      BY <1>0, <2>1 DEF Run, PC
  <1> HIDE DEF rest, done, mail
  <1>5. CASE Panic
    BY <1>5, CrashKeeps
  <1>6. CASE Deleted(r, j, mail)
    BY <1>1, <1>4, <1>6, DeletionKeeps DEF Decides
  <1>7. CASE Deleted(r, j, done)
    BY <1>1, <1>3, <1>7, DeletionKeeps
  <1>8. CASE NotDeleted(r, j, rest)
    BY <1>1, <1>2, <1>8, DeletionKeeps
  <1> QED
    BY <1>1, <1>5, <1>6, <1>7, <1>8

\* The deletion of a Jupyter job that was not scheduled.
LEMMA RemoveKeeps ==
    ASSUME CleanerInv, NEW r \in Runs, RemoveJupyter(r), UNCHANGED clientSet
    PROVE  CleanerInv'
  <1> DEFINE j    == run[r].job
             rest == [run[r] EXCEPT !.pc = "check", !.del = @ \ {j}]
             done == [rest EXCEPT !.deleted = @ \cup {j}]
  <1>0. run[r] \in Run
    BY RunFacts
  <1>1. run[r].pc = "remove" /\ (Panic \/ Deleted(r, j, done) \/ NotDeleted(r, j, rest))
    BY DEF RemoveJupyter
  <1>2. /\ rest \in Run /\ rest.pc = "check" /\ rest.deleted = run[r].deleted /\ j \in Jobs
        /\ rest.locked = run[r].locked /\ rest.policy = run[r].policy /\ rest.del \subseteq run[r].del
    BY <1>0 DEF Run, PC
  <1>3. /\ done \in Run /\ done.pc = "check" /\ done.deleted = run[r].deleted \cup {j}
        /\ done.locked = run[r].locked /\ done.policy = run[r].policy /\ done.del \subseteq run[r].del
    BY <1>0, <1>2 DEF Run, PC
  <1> HIDE DEF j, rest, done
  <1>4. CASE Panic
    BY <1>4, CrashKeeps
  <1>5. CASE Deleted(r, j, done)
    BY <1>1, <1>2, <1>3, <1>5, DeletionKeeps
  <1>6. CASE NotDeleted(r, j, rest)
    BY <1>1, <1>2, <1>6, DeletionKeeps
  <1> QED
    BY <1>1, <1>4, <1>5, <1>6

-----------------------------------------------------------------------------
\* The mail: a run with a mail in hand, and what it may become.
\* MailDone leaves the run without a mail, and the deletion counted or given up.
LEMMA MailDoneShape ==
    ASSUME CleanerInv, NEW r \in Runs, NEW ok \in BOOLEAN, MailDone(r, ok),
           run[r].pc \in {"mail", "send", "record"}
    PROVE  \E new \in Run :
              /\ Set(r, new) /\ new.pc \in {"delete", "remind"}
              /\ new.locked = run[r].locked /\ new.del = run[r].del /\ new.policy = run[r].policy
              /\ run[r].deleted \subseteq new.deleted
              /\ run[r].kind \in Deletion => run[r].job \in new.deleted \cup unaudited'
              /\ unaudited \subseteq unaudited' /\ unaudited' \subseteq Jobs
  <1> DEFINE j == run[r].job
             deletion == run[r].kind \in Deletion
             counts == deletion /\ (ok \/ run[r].policy = "low")
             pc == IF deletion THEN "delete" ELSE "remind"
             del == IF counts THEN run[r].deleted \cup {j} ELSE run[r].deleted
             new == [run[r] EXCEPT !.pc = pc, !.seen = "none", !.kind = NoRun.kind, !.deleted = del]
  <1>0. run[r] \in Run /\ j \in Jobs /\ unaudited \subseteq Jobs
    BY RunFacts DEF Run, CleanerInv, TypeOK
  <1>1. /\ Set(r, new)
        /\ unaudited' = IF deletion /\ ~counts THEN unaudited \cup {j} ELSE unaudited
    <2>1. new = [run[r] EXCEPT !.pc = pc, !.seen = "none", !.kind = NoRun.kind,
                               !.deleted = IF counts THEN @ \cup {j} ELSE @]
      BY <1>0 DEF Run
    <2> QED
      BY <2>1 DEF MailDone, Deletion
  <1>2. /\ pc \in {"delete", "remind"} /\ del \in SUBSET Jobs /\ run[r].deleted \subseteq del
        /\ deletion => j \in del \cup unaudited'
        /\ unaudited \subseteq unaudited' /\ unaudited' \subseteq Jobs
    BY <1>0, <1>1 DEF Run
  <1>3. NoRun.kind \in Kind
    BY NoRunShape DEF Run
  <1> HIDE DEF pc, del, deletion, counts, j
  <1>4. /\ new \in Run /\ new.pc = pc /\ new.deleted = del /\ new.locked = run[r].locked
        /\ new.del = run[r].del /\ new.policy = run[r].policy
    BY <1>0, <1>2, <1>3 DEF Run, PC
  <1> HIDE DEF new
  <1> QED
    BY <1>1, <1>2, <1>4 DEF deletion, j

\* A run whose mail is done, without the alert being written.
LEMMA MailGivenUp ==
    ASSUME CleanerInv, NEW r \in Runs, NEW ok \in BOOLEAN, MailDone(r, ok),
           run[r].pc \in {"mail", "send", "record"},
           UNCHANGED <<Tables, cluster, cleaned, recorded, sent, resent>>, faults' \in 0..MaxFaults,
           excused \subseteq excused', excused' \subseteq Mail, alerts' \in AlertTable,
           \A m \in Mail \ excused' :
              /\ run[r].pc = "record" /\ TheMail(r) = m => alerts'[m] = "sent"
              /\ alerts[m] = "sent" => alerts'[m] = "sent"
              /\ alerts'[m] # "repeat"
    PROVE  CleanerInv'
  <1>1. PICK new \in Run :
              /\ Set(r, new) /\ new.pc \in {"delete", "remind"}
              /\ new.locked = run[r].locked /\ new.del = run[r].del /\ new.policy = run[r].policy
              /\ run[r].deleted \subseteq new.deleted
              /\ run[r].kind \in Deletion => run[r].job \in new.deleted \cup unaudited'
              /\ unaudited \subseteq unaudited' /\ unaudited' \subseteq Jobs
    BY MailDoneShape
  <1>2. /\ run[r].locked \subseteq getJobWhiteList
        /\ run[r].policy # "jupyter" => run[r].del \cap run[r].locked = {}
        /\ recorded \subseteq Jobs /\ sent \subseteq Mail /\ resent \subseteq excused
    BY RunFacts DEF CleanerInv, TypeOK, MailOnce
  <1>3. \A j : j \in run[r].deleted \/ (Decides(run[r]) /\ run[r].job = j)
               => j \in recorded' \cup unaudited' \cup new.deleted \/ (Decides(new) /\ new.job = j)
    BY <1>1 DEF Decides
  <1>4. ~Sends(new) /\ new.pc # "send" /\ new.pc # "record" /\ new.pc # "idle"
    BY <1>1 DEF Sends
  <1> QED
    BY <1>1, <1>2, <1>3, <1>4, WriteStep

\* The mail of a run is a mail, and an alert is allowed again only with an excuse.
LEMMA MailShape ==
    ASSUME CleanerInv, NEW r \in Runs
    PROVE  TheMail(r) \in Mail /\ alerts \in AlertTable
           /\ \A m \in Mail \ excused : alerts[m] # "repeat"
  BY RunFacts DEF TheMail, Mail, Run, CleanerInv, TypeOK, AlertTable, MailInOrder

\* The alert is looked up: a mail that is neither sent nor being sent is sent next.
LEMMA MailCheckKeeps ==
    ASSUME CleanerInv, NEW r \in Runs, MailCheck(r), UNCHANGED clientSet
    PROVE  CleanerInv'
  <1>0. TheMail(r) \in Mail /\ alerts \in AlertTable /\ excused \subseteq Mail
        /\ \A m \in Mail \ excused : alerts[m] # "repeat"
    BY MailShape DEF CleanerInv, TypeOK
  <1>1. run[r].pc = "mail" /\ UNCHANGED <<Tables, cluster, cleaned, alerts, recorded, sent, resent>>
    BY DEF MailCheck, jobVars, Tables
  <1>2. CASE AlreadySent(alerts[TheMail(r)]) /\ MailDone(r, TRUE) /\ UNCHANGED <<faults, excused>>
    BY <1>0, <1>1, <1>2, RunFacts, MailGivenUp
  <1>3. CASE Fault /\ MailDone(r, FALSE) /\ UNCHANGED excused
    BY <1>0, <1>1, <1>3, RunFacts, FaultFacts, MailGivenUp
  <1>4. CASE /\ ~AlreadySent(alerts[TheMail(r)])
             /\ Set(r, [run[r] EXCEPT !.pc = "send", !.seen = alerts[TheMail(r)]])
             /\ excused' = (IF SameMail(r) THEN excused \cup {TheMail(r)} ELSE excused)
             /\ UNCHANGED <<faults, unaudited>>
    <2> DEFINE new == [run[r] EXCEPT !.pc = "send", !.seen = alerts[TheMail(r)]]
    <2>1. /\ new \in Run /\ new.pc = "send" /\ MailOf(new) = TheMail(r) /\ new.job = run[r].job
          /\ new.kind = run[r].kind /\ new.deleted = run[r].deleted
          /\ new.locked = run[r].locked /\ new.del = run[r].del /\ new.policy = run[r].policy
      <3>1. alerts[TheMail(r)] \in {"none", "sent", "repeat"} /\ run[r] \in Run
        BY <1>0, RunFacts DEF AlertTable
      <3> QED
        BY <3>1 DEF Run, PC, MailOf, TheMail
    <2> HIDE DEF new
    <2>2. ASSUME NEW m \in Mail \ excused', m = TheMail(r)
          PROVE  m \notin sent /\ \A s \in Runs \ {r} : ~(Sends(run[s]) /\ TheMail(s) = m)
      <3>1. ~SameMail(r) /\ m \notin excused
        BY <1>4, <2>2
      <3>2. \A s \in Runs \ {r} : ~(Sends(run[s]) /\ TheMail(s) = m)
        BY <2>2, <3>1 DEF SameMail, Sends
      <3>3. MailInOrder(m) /\ alerts[m] # "sent"
        BY <1>4, <2>2, <3>1 DEF CleanerInv, AlreadySent
      <3>4. ~\E s \in Runs : run[s].pc = "record" /\ TheMail(s) = m
        BY <1>1, <3>2 DEF Sends
      <3> QED
        BY <3>2, <3>3, <3>4 DEF MailInOrder
    <2>3. /\ run[r].locked \subseteq getJobWhiteList /\ faults \in 0..MaxFaults
          /\ run[r].policy # "jupyter" => run[r].del \cap run[r].locked = {}
          /\ recorded \subseteq Jobs /\ unaudited \subseteq Jobs /\ sent \subseteq Mail
          /\ resent \subseteq excused
      BY RunFacts DEF CleanerInv, TypeOK, MailOnce
    <2>4. \A j : j \in run[r].deleted \/ (Decides(run[r]) /\ run[r].job = j)
                 => j \in recorded' \cup unaudited' \cup new.deleted \/ (Decides(new) /\ new.job = j)
      BY <2>1 DEF Decides
    <2>5. excused \subseteq excused' /\ excused' \subseteq Mail
      BY <1>0, <1>4
    <2>6. Set(r, new)
      BY <1>4 DEF new
    <2> QED
      BY <1>0, <1>1, <1>4, <2>1, <2>2, <2>3, <2>4, <2>5, <2>6, WriteStep
  <1> QED
    BY <1>2, <1>3, <1>4 DEF MailCheck

\* The mail goes out: if it went out before, it has an excuse.
LEMMA SendKeeps ==
    ASSUME CleanerInv, NEW r \in Runs, SendMessageTo(r), UNCHANGED clientSet
    PROVE  CleanerInv'
  <1>0. TheMail(r) \in Mail /\ alerts \in AlertTable /\ excused \subseteq Mail
        /\ \A m \in Mail \ excused : alerts[m] # "repeat"
    BY MailShape DEF CleanerInv, TypeOK
  <1>1. run[r].pc = "send" /\ UNCHANGED <<Tables, cluster, cleaned, alerts, recorded, excused>>
    BY DEF SendMessageTo, jobVars, Tables
  <1>2. CASE Fault /\ MailDone(r, FALSE) /\ UNCHANGED <<sent, resent>>
    BY <1>0, <1>1, <1>2, RunFacts, FaultFacts, MailGivenUp
  <1>3. CASE /\ sent' = sent \cup {TheMail(r)}
             /\ resent' = (IF TheMail(r) \in sent THEN resent \cup {TheMail(r)} ELSE resent)
             /\ Set(r, [run[r] EXCEPT !.pc = "record"])
             /\ UNCHANGED <<faults, unaudited>>
    <2> DEFINE new == [run[r] EXCEPT !.pc = "record"]
    <2>1. /\ new \in Run /\ new.pc = "record" /\ MailOf(new) = TheMail(r) /\ new.job = run[r].job
          /\ new.kind = run[r].kind /\ new.deleted = run[r].deleted
          /\ new.locked = run[r].locked /\ new.del = run[r].del /\ new.policy = run[r].policy
      BY RunFacts DEF Run, PC, MailOf, TheMail
    <2> HIDE DEF new
    <2>2. TheMail(r) \notin excused => TheMail(r) \notin sent
      BY <1>0, <1>1 DEF CleanerInv, MailInOrder
    <2>3. /\ run[r].locked \subseteq getJobWhiteList /\ faults \in 0..MaxFaults
          /\ run[r].policy # "jupyter" => run[r].del \cap run[r].locked = {}
          /\ recorded \subseteq Jobs /\ unaudited \subseteq Jobs /\ sent \subseteq Mail
          /\ resent \subseteq excused
      BY RunFacts DEF CleanerInv, TypeOK, MailOnce
    <2>4. \A j : j \in run[r].deleted \/ (Decides(run[r]) /\ run[r].job = j)
                 => j \in recorded' \cup unaudited' \cup new.deleted \/ (Decides(new) /\ new.job = j)
      BY <2>1 DEF Decides
    <2>5. sent' \subseteq Mail /\ resent' \subseteq excused'
      BY <1>0, <1>1, <1>3, <2>2, <2>3
    <2>6. Set(r, new)
      BY <1>3 DEF new
    <2>7. Sends(run[r])
      BY <1>1 DEF Sends
    <2> QED
      BY <1>0, <1>1, <1>3, <2>1, <2>3, <2>4, <2>5, <2>6, <2>7, WriteStep
  <1> QED
    BY <1>2, <1>3 DEF SendMessageTo

\* The alert is written, or excused.
LEMMA RecordKeeps ==
    ASSUME CleanerInv, NEW r \in Runs, MailRecord(r), UNCHANGED clientSet
    PROVE  CleanerInv'
  <1>0. TheMail(r) \in Mail /\ alerts \in AlertTable /\ excused \subseteq Mail
        /\ \A m \in Mail \ excused : alerts[m] # "repeat"
    BY MailShape DEF CleanerInv, TypeOK
  <1>1. run[r].pc = "record" /\ UNCHANGED <<Tables, cluster, cleaned, recorded, sent, resent>>
    BY DEF MailRecord, jobVars, Tables
  <1>2. CASE /\ Fault
             /\ excused' = excused \cup {TheMail(r)}
             /\ MailDone(r, FALSE)
             /\ UNCHANGED alerts
    BY <1>0, <1>1, <1>2, RunFacts, FaultFacts, MailGivenUp
  <1>3. CASE /\ alerts' = [alerts EXCEPT ![TheMail(r)] =
                             IF run[r].seen = "none" /\ @ # "none" THEN @ ELSE "sent"]
             /\ MailDone(r, TRUE)
             /\ UNCHANGED <<faults, excused>>
    <2>1. PICK v \in {alerts[TheMail(r)], "sent"} :
              alerts' = [alerts EXCEPT ![TheMail(r)] = v] /\ (v = "sent" \/ (v = alerts[TheMail(r)] /\ v # "none"))
      BY <1>0, <1>3 DEF AlertTable
    <2>2. v \in {"none", "sent", "repeat"}
      BY <1>0, <2>1 DEF AlertTable
    <2>3. alerts' \in AlertTable
      BY <1>0, <2>1, <2>2 DEF AlertTable
    <2>4. \A m \in Mail \ excused' :
              /\ run[r].pc = "record" /\ TheMail(r) = m => alerts'[m] = "sent"
              /\ alerts[m] = "sent" => alerts'[m] = "sent"
              /\ alerts'[m] # "repeat"
      BY <1>0, <1>3, <2>1, <2>2 DEF AlertTable
    <2> QED
      BY <1>0, <1>1, <1>3, <2>3, <2>4, RunFacts, MailGivenUp
  <1> QED
    BY <1>2, <1>3 DEF MailRecord

-----------------------------------------------------------------------------
\* The reminders, the permissions and the record.
\* The deletions are over, or the next job is reminded.
LEMMA RemindKeeps ==
    ASSUME CleanerInv, NEW r \in Runs, RemindJob(r), UNCHANGED clientSet
    PROVE  CleanerInv'
  <1>0. /\ run[r] \in Run /\ run[r].locked \subseteq getJobWhiteList /\ faults \in 0..MaxFaults
        /\ run[r].policy # "jupyter" => run[r].del \cap run[r].locked = {}
        /\ cluster \subseteq Jobs /\ cleaned \subseteq Jobs
    BY RunFacts
  <1>1. UNCHANGED <<jobVars, alerts, recorded, faults, history>> /\ run[r].pc \in {"delete", "remind"}
    BY DEF RemindJob
  <1>2. CASE Set(r, [run[r] EXCEPT !.pc = "remind", !.locked = {}])
    BY <1>0, <1>1, <1>2, QuietStep DEF Run, PC, Tables, jobVars, history
  <1>3. ASSUME NEW j \in run[r].remind, run[r].pc = "remind",
               NEW kind \in Kind,
               NEW left \in Left(r, run[r].remind, j),
               \/ Set(r, [[run[r] EXCEPT !.remind = left] EXCEPT !.pc = "mail", !.job = j, !.kind = kind])
               \/ Set(r, [run[r] EXCEPT !.remind = left])
        PROVE  CleanerInv'
    <2>0. left \subseteq run[r].remind
      BY <1>3 DEF Left
    <2>1. CASE Set(r, [[run[r] EXCEPT !.remind = left] EXCEPT !.pc = "mail", !.job = j, !.kind = kind])
      BY <1>0, <1>1, <1>3, <2>0, <2>1, QuietStep DEF Run, PC, Tables, jobVars, history
    <2>2. CASE Set(r, [run[r] EXCEPT !.remind = left])
      BY <1>0, <1>1, <1>3, <2>0, <2>2, QuietStep DEF Run, PC, Tables, jobVars, history
    <2> QED
      BY <1>3, <2>1, <2>2
  <1> QED
    BY <1>2, <1>3 DEF RemindJob, Kind

\* The alert of a job that is busy again is read.
LEMMA AllowReadKeeps ==
    ASSUME CleanerInv, NEW r \in Runs, NEW j \in Jobs, AllowRepeatRead(r, j), UNCHANGED clientSet
    PROVE  CleanerInv'
  <1>0. /\ run[r] \in Run /\ run[r].locked \subseteq getJobWhiteList /\ faults \in 0..MaxFaults
        /\ run[r].policy # "jupyter" => run[r].del \cap run[r].locked = {}
        /\ cluster \subseteq Jobs /\ cleaned \subseteq Jobs
    BY RunFacts
  <1>1. UNCHANGED <<jobVars, alerts, recorded, faults, history>> /\ run[r].pc = "remind"
    BY DEF AllowRepeatRead
  <1>2. CASE Set(r, [run[r] EXCEPT !.normal = @ \ {j}])
    BY <1>0, <1>1, <1>2, QuietStep DEF Run, PC, Tables, jobVars, history
  <1>3. CASE Set(r, [[run[r] EXCEPT !.normal = @ \ {j}] EXCEPT !.pc = "allow", !.job = j, !.kind = "LowGPUReminded"])
    BY <1>0, <1>1, <1>3, QuietStep DEF Run, PC, Kind, Tables, jobVars, history
  <1> QED
    BY <1>2, <1>3 DEF AllowRepeatRead

\* The permission to mail again is written, which excuses the mail.
LEMMA AllowSaveKeeps ==
    ASSUME CleanerInv, NEW r \in Runs, AllowRepeatSave(r), UNCHANGED clientSet
    PROVE  CleanerInv'
  <1>0. TheMail(r) \in Mail /\ alerts \in AlertTable /\ excused \subseteq Mail
        /\ \A m \in Mail \ excused : alerts[m] # "repeat"
    BY MailShape DEF CleanerInv, TypeOK
  <1>1. /\ run[r].locked \subseteq getJobWhiteList /\ faults \in 0..MaxFaults /\ run[r] \in Run
        /\ run[r].policy # "jupyter" => run[r].del \cap run[r].locked = {}
        /\ recorded \subseteq Jobs /\ unaudited \subseteq Jobs /\ sent \subseteq Mail
        /\ resent \subseteq excused
    BY RunFacts DEF CleanerInv, TypeOK, MailOnce
  <1> DEFINE new == [run[r] EXCEPT !.pc = "remind", !.kind = NoRun.kind]
  <1>2. /\ run[r].pc = "allow" /\ Set(r, new)
        /\ UNCHANGED <<Tables, cluster, cleaned, recorded, unaudited, sent, resent>>
    BY DEF AllowRepeatSave, Tables, jobVars
  <1>3. /\ new \in Run /\ new.pc = "remind" /\ new.deleted = run[r].deleted
        /\ new.locked = run[r].locked /\ new.del = run[r].del /\ new.policy = run[r].policy
    BY <1>1, NoRunShape DEF Run, PC
  <1> HIDE DEF new
  <1>4. \A j : j \in run[r].deleted \/ (Decides(run[r]) /\ run[r].job = j)
               => j \in recorded' \cup unaudited' \cup new.deleted \/ (Decides(new) /\ new.job = j)
    BY <1>2, <1>3 DEF Decides
  <1>5. ~Sends(new) /\ ~Sends(run[r])
    BY <1>2, <1>3 DEF Sends
  <1>6. CASE /\ alerts' = [alerts EXCEPT ![TheMail(r)] = "repeat"]
             /\ excused' = excused \cup {TheMail(r)}
             /\ UNCHANGED faults
    <2>1. alerts' \in AlertTable /\ excused' \subseteq Mail /\ excused \subseteq excused'
      BY <1>0, <1>6 DEF AlertTable
    <2>2. \A m \in Mail \ excused' : alerts'[m] = alerts[m] /\ alerts'[m] # "repeat"
      BY <1>0, <1>6 DEF AlertTable
    <2>3. resent' \subseteq excused'
      BY <1>1, <1>2, <2>1
    <2> QED
      BY <1>1, <1>2, <1>3, <1>4, <1>5, <1>6, <2>1, <2>2, <2>3, WriteStep
  <1>7. CASE Fault /\ UNCHANGED <<alerts, excused>>
    BY <1>0, <1>1, <1>2, <1>3, <1>4, <1>5, <1>7, FaultFacts, WriteStep
  <1> QED
    BY <1>6, <1>7 DEF AllowRepeatSave

\* A run is over, and NoRun takes its place: its deletions are recorded or given up.
LEMMA RunOverKeeps ==
    ASSUME CleanerInv, NEW r \in Runs, NEW new \in Run, Set(r, new), new.deleted = {},
           new.del = {}, new.locked \subseteq getJobWhiteList, new.pc \in {"idle", "list"},
           run[r].pc \notin {"mail", "send", "record"},
           UNCHANGED <<Tables, cluster, cleaned, alerts, sent, resent, excused>>, faults' \in 0..MaxFaults,
           recorded \subseteq recorded', unaudited \subseteq unaudited',
           recorded' \cup unaudited' \subseteq recorded \cup unaudited \cup run[r].deleted,
           run[r].deleted \subseteq recorded' \cup unaudited'
    PROVE  CleanerInv'
  <1>0. alerts \in AlertTable /\ excused \subseteq Mail
        /\ \A m \in Mail \ excused : alerts[m] # "repeat"
    BY MailShape DEF CleanerInv, TypeOK
  <1>1. /\ recorded' \subseteq Jobs /\ unaudited' \subseteq Jobs /\ sent \subseteq Mail
        /\ resent \subseteq excused
    BY RunFacts DEF CleanerInv, TypeOK, MailOnce, Run
  <1>2. \A j : j \in run[r].deleted \/ (Decides(run[r]) /\ run[r].job = j)
               => j \in recorded' \cup unaudited' \cup new.deleted \/ (Decides(new) /\ new.job = j)
    BY DEF Decides
  <1>3. ~Sends(new) /\ ~Sends(run[r])
    BY DEF Sends
  <1>4. run[r].pc # "record" /\ new.pc # "send" /\ new.del \cap new.locked = {}
    OBVIOUS
  <1> QED
    BY <1>0, <1>1, <1>2, <1>3, <1>4, WriteStep

\* The record of the run, written or not.
LEMMA WriteRecordKeeps ==
    ASSUME CleanerInv, NEW r \in Runs, WriteRecord(r), UNCHANGED clientSet
    PROVE  CleanerInv'
  <1>1. /\ NoRun \in Run /\ NoRun.deleted = {} /\ NoRun.del = {} /\ NoRun.locked = {}
        /\ NoRun.pc = "idle"
    BY NoRunShape DEF NoRun
  <1>2. /\ Set(r, NoRun) /\ run[r].pc \notin {"mail", "send", "record"}
        /\ UNCHANGED <<Tables, cluster, cleaned, alerts, sent, resent, excused>>
    BY DEF WriteRecord, RunOver, Tables, jobVars
  <1>3. faults' \in 0..MaxFaults
    BY RunFacts, FaultFacts DEF WriteRecord
  <1>4. /\ recorded \subseteq recorded' /\ unaudited \subseteq unaudited'
        /\ recorded' \cup unaudited' \subseteq recorded \cup unaudited \cup run[r].deleted
        /\ run[r].deleted \subseteq recorded' \cup unaudited'
    BY DEF WriteRecord
  <1> QED
    BY <1>1, <1>2, <1>3, <1>4, RunOverKeeps

\* The scheduler fires a run, which has deleted nothing.
LEMMA FireKeeps ==
    ASSUME CleanerInv, NEW r \in Runs, NEW p \in Policy, Fire(r, p), UNCHANGED clientSet
    PROVE  CleanerInv'
  <1> DEFINE new == [NoRun EXCEPT !.pc = "list", !.policy = p, !.locked = getJobWhiteList]
  <1>1. getJobWhiteList \subseteq Jobs
    BY DEF getJobWhiteList
  <1>2. /\ new \in Run /\ new.deleted = {} /\ new.del = {} /\ new.locked = getJobWhiteList
        /\ new.pc = "list"
    <2>1. NoRun.deleted = {} /\ NoRun.del = {}
      BY DEF NoRun
    <2> QED
      BY <1>1, <2>1, NoRunShape DEF Run, PC
  <1> HIDE DEF new
  <1>3. /\ Set(r, new) /\ run[r].pc = "idle"
        /\ UNCHANGED <<Tables, cluster, cleaned, alerts, sent, resent, excused, recorded, unaudited, faults>>
    BY DEF Fire, new, Tables, jobVars, history
  <1>4. run[r].deleted = {} /\ faults \in 0..MaxFaults
    BY <1>3, RunFacts DEF CleanerInv, Audited
  <1> QED
    BY <1>2, <1>3, <1>4, RunOverKeeps

-----------------------------------------------------------------------------
\* Jobs, owners and time: the runs only forget locks that have ended.
JobTypes == /\ row \in [Jobs -> {"Pending", "Running", "Ended"}]
            /\ cluster \subseteq Jobs /\ scheduled \subseteq Jobs
            /\ age \in [Jobs -> 0..MaxAge] /\ idle \in [Jobs -> 0..MaxAge]
            /\ lock \in [Jobs -> 0..MaxLock]

\* A step outside the runs forgets the locks that ended, in every run.
LEMMA OutsideStep ==
    ASSUME CleanerInv, NEW js \in SUBSET Jobs, LockEnds(js), JobTypes',
           UNCHANGED <<alerts, recorded, faults, clientSet, history>>,
           getJobWhiteList \ js \subseteq getJobWhiteList'
    PROVE  CleanerInv'
  <1>1. run \in [Runs -> Run]
    BY DEF CleanerInv, TypeOK
  <1>2. \A r \in Runs : run'[r] = [run[r] EXCEPT !.locked = @ \ js]
    BY DEF LockEnds
  <1>3. \A r \in Runs : run[r] \in Run /\ run'[r] \in Run
    <2>1. \A q \in Run : [q EXCEPT !.locked = @ \ js] \in Run
      BY DEF Run
    <2> QED
      BY <1>1, <1>2, <2>1
  <1>4. \A r \in Runs :
           /\ run'[r].pc = run[r].pc /\ run'[r].policy = run[r].policy /\ run'[r].del = run[r].del
           /\ run'[r].job = run[r].job /\ run'[r].kind = run[r].kind
           /\ run'[r].deleted = run[r].deleted /\ run'[r].locked = run[r].locked \ js
    BY <1>2, <1>3 DEF Run
  <1>5. TypeOK'
    <2>1. run' \in [Runs -> Run]
      <3>1. run' = [r \in Runs |-> run'[r]]
        BY DEF LockEnds
      <3> QED
        BY <1>3, <3>1
    <2> QED
      BY <2>1 DEF CleanerInv, TypeOK, JobTypes, history
  <1>6. LocksHeld'
    BY <1>4 DEF CleanerInv, LocksHeld
  <1>7. LockedIsSpared'
    BY <1>4 DEF CleanerInv, LockedIsSpared
  <1>8. Audited'
    BY <1>4 DEF CleanerInv, Audited, MailsDeletion, history
  <1>9. \A m \in Mail \ excused' : MailInOrder(m)'
    <2>1. \A r \in Runs : TheMail(r)' = TheMail(r)
      BY <1>4 DEF TheMail
    <2> QED
      BY <1>4, <2>1 DEF CleanerInv, MailInOrder, history
  <1> QED
    BY <1>5, <1>6, <1>7, <1>8, <1>9 DEF CleanerInv, MailOnce, history

\* A step that ends no lock leaves the runs alone.
LEMMA NoLockEnds ==
    ASSUME run \in [Runs -> Run], UNCHANGED run PROVE LockEnds({})
  <1>1. \A r \in Runs : run[r] = [run[r] EXCEPT !.locked = @ \ {}]
    BY DEF Run
  <1>2. run = [r \in Runs |-> run[r]]
    OBVIOUS
  <1> QED
    BY <1>1, <1>2 DEF LockEnds

\* Ages stay within their bound.
LEMMA OlderType == \A n \in 0..MaxAge : Older(n) \in 0..MaxAge
  BY CleanerAssumption DEF Older

\* The steps of jobs, owners and time.
LEMMA EnvironmentKeeps ==
    ASSUME CleanerInv, Environment, UNCHANGED clientSet
    PROVE  CleanerInv'
  <1>0. JobTypes /\ run \in [Runs -> Run]
    BY DEF CleanerInv, TypeOK, JobTypes
  <1>1. CASE Tick
    <2>1. JobTypes'
      <3>1. age' \in [Jobs -> 0..MaxAge]
        BY <1>0, <1>1, OlderType, CleanerAssumption DEF Tick, JobTypes
      <3>2. idle' \in [Jobs -> 0..MaxAge]
        BY <1>0, <1>1, OlderType, CleanerAssumption DEF Tick, JobTypes
      <3>3. lock' \in [Jobs -> 0..MaxLock]
        BY <1>0, <1>1, CleanerAssumption DEF Tick, JobTypes
      <3> QED
        BY <1>0, <1>1, <3>1, <3>2, <3>3 DEF Tick, JobTypes
    <2>2. getJobWhiteList \ {j \in Jobs : lock[j] = 1} \subseteq getJobWhiteList'
      BY <1>0, <1>1, CleanerAssumption DEF Tick, getJobWhiteList, JobTypes
    <2> QED
      BY <1>1, <2>1, <2>2, OutsideStep DEF Tick
  <1>2. ASSUME NEW j \in Jobs, ClearLock(j) PROVE CleanerInv'
    <2>1. JobTypes'
      BY <1>0, <1>2, CleanerAssumption DEF ClearLock, JobTypes
    <2>2. getJobWhiteList \ {j} \subseteq getJobWhiteList'
      BY <1>0, <1>2 DEF ClearLock, getJobWhiteList, JobTypes
    <2> QED
      BY <1>2, <2>1, <2>2, OutsideStep DEF ClearLock
  <1>3. ASSUME NEW j \in Jobs, SetLock(j) PROVE CleanerInv'
    <2>1. JobTypes'
      BY <1>0, <1>3, CleanerAssumption DEF SetLock, JobTypes
    <2>2. getJobWhiteList \subseteq getJobWhiteList'
      BY <1>0, <1>3 DEF SetLock, getJobWhiteList, JobTypes
    <2> QED
      BY <1>0, <1>3, <2>1, <2>2, NoLockEnds, OutsideStep DEF SetLock
  <1>4. ASSUME NEW j \in Jobs,
               PodsScheduled(j) \/ JobRuns(j) \/ JobGone(j) \/ OwnerDeletes(j) \/ GPUUsed(j)
        PROVE  CleanerInv'
    <2>1. UNCHANGED <<lock, run, alerts, recorded, faults, history>>
      BY <1>4 DEF PodsScheduled, JobRuns, JobGone, OwnerDeletes, GPUUsed
    <2>2. JobTypes'
      <3>1. CASE PodsScheduled(j)
        BY <1>0, <3>1 DEF PodsScheduled, JobTypes
      <3>2. CASE JobRuns(j)
        BY <1>0, <3>2, CleanerAssumption DEF JobRuns, JobTypes
      <3>3. CASE JobGone(j)
        BY <1>0, <3>3, CleanerAssumption DEF JobGone, JobTypes
      <3>4. CASE OwnerDeletes(j)
        BY <1>0, <3>4 DEF OwnerDeletes, JobTypes
      <3>5. CASE GPUUsed(j)
        BY <1>0, <3>5, CleanerAssumption DEF GPUUsed, JobTypes
      <3> QED
        BY <1>4, <3>1, <3>2, <3>3, <3>4, <3>5
    <2>3. getJobWhiteList \subseteq getJobWhiteList'
      BY <2>1 DEF getJobWhiteList
    <2> QED
      BY <1>0, <2>1, <2>2, <2>3, NoLockEnds, OutsideStep
  <1> QED
    BY <1>1, <1>2, <1>3, <1>4 DEF Environment

-----------------------------------------------------------------------------
\* The invariant holds at the start.
LEMMA InitClean == Init => CleanerInv
  <1> SUFFICES ASSUME Init PROVE CleanerInv
    OBVIOUS
  <1>1. NoRun \in Run /\ NoRun.locked = {} /\ NoRun.del = {} /\ NoRun.deleted = {} /\ NoRun.pc = "idle"
    BY NoRunShape DEF NoRun
  <1>2. TypeOK
    BY <1>1, CleanerAssumption DEF Init, TypeOK
  <1>3. LocksHeld /\ LockedIsSpared /\ Audited /\ MailOnce
    BY <1>1 DEF Init, LocksHeld, LockedIsSpared, Audited, MailOnce
  <1>4. \A m \in Mail : MailInOrder(m)
    BY <1>1 DEF Init, MailInOrder
  <1> QED
    BY <1>2, <1>3, <1>4 DEF CleanerInv

\* Every step keeps the invariant.
LEMMA NextCleans == CleanerInv /\ [Next]_cleanerVars => CleanerInv'
  <1> SUFFICES ASSUME CleanerInv, [Next]_cleanerVars PROVE CleanerInv'
    OBVIOUS
  <1>1. CASE Next
    <2>0. UNCHANGED clientSet
      BY <1>1 DEF Next
    <2>1. CASE Environment
      BY <2>0, <2>1, EnvironmentKeeps
    <2>2. ASSUME NEW r \in Runs, Step(r) PROVE CleanerInv'
      <3>1. ASSUME NEW j \in Jobs, DeleteJob(r, j) \/ CheckScheduled(r, j) \/ AllowRepeatRead(r, j)
            PROVE  CleanerInv'
        BY <2>0, <3>1, DeleteKeeps, CheckKeeps, AllowReadKeeps
      <3>2. CASE ListDeletions(r) \/ ListReminders(r) \/ RemoveJupyter(r)
        BY <2>0, <3>2, ListKeeps, RemoveKeeps
      <3>3. CASE MailCheck(r) \/ SendMessageTo(r) \/ MailRecord(r)
        BY <2>0, <3>3, MailCheckKeeps, SendKeeps, RecordKeeps
      <3>4. CASE RemindJob(r) \/ AllowRepeatSave(r) \/ WriteRecord(r)
        BY <2>0, <3>4, RemindKeeps, AllowSaveKeeps, WriteRecordKeeps
      <3> QED
        BY <2>2, <3>1, <3>2, <3>3, <3>4 DEF Step
    <2>3. ASSUME NEW r \in Runs, NEW p \in Policy, Fire(r, p) PROVE CleanerInv'
      BY <2>0, <2>3, FireKeeps
    <2>4. CASE Killed
      BY <2>0, <2>4, CrashKeeps
    <2> QED
      BY <1>1, <2>1, <2>2, <2>3, <2>4 DEF Next
  <1>2. CASE UNCHANGED cleanerVars
    BY <1>2 DEF cleanerVars, jobVars, history, CleanerInv, TypeOK, LocksHeld, LockedIsSpared,
                getJobWhiteList, Audited, MailsDeletion, MailInOrder, TheMail, MailOnce
  <1> QED
    BY <1>1, <1>2

\* The invariant of the cleaner: locks seen are locks held, deletions are accounted
\* for, and a mail without an excuse is in the hands of one run.
THEOREM CleanerInvariance == Spec => []CleanerInv
  BY InitClean, NextCleans, PTL DEF Spec

\* A job locked since the run was fired is not deleted by it (getLongTimeVCjobs,
\* getLowGPUUsageVCjobs), for any jobs, runs and limits.
THEOREM LockedSpared == Spec => []LockedIsSpared
  <1>1. CleanerInv => LockedIsSpared
    BY DEF CleanerInv
  <1> QED
    BY <1>1, CleanerInvariance, PTL

\* A mail is sent again only with an excuse (sendJobNotification).
THEOREM MailedOnce == Spec => []MailOnce
  <1>1. CleanerInv => MailOnce
    BY DEF CleanerInv
  <1> QED
    BY <1>1, CleanerInvariance, PTL

\* When no run is in progress the records name every job deleted, unless a record or
\* a mail failed (WrapCleanerFunc).
THEOREM DeletionsKnown == Spec => []DeletionsRecorded
  <1>1. CleanerInv => DeletionsRecorded
    BY DEF CleanerInv, Audited, DeletionsRecorded, MailsDeletion
  <1> QED
    BY <1>1, CleanerInvariance, PTL
-----------------------------------------------------------------------------

\* The row that ActivateJob and SuspendJob leave, and the entry that AddCronJob adds.
NewRow(s, new, id) == [suspend |-> s, set |-> new, id |-> id]
NewEntry(id, n, new) == [id |-> id, name |-> n, set |-> new]

-----------------------------------------------------------------------------
(***************************************************************************)
(* Facts about the operators.                                              *)
(***************************************************************************)
\* The settings after an update are settings again.
LEMMA MergedType ==
    ASSUME NEW n \in Names, CronTypeOK,
           NEW t \in Given(Types), NEW s \in Given(Specs), NEW c \in Given(Configs)
    PROVE  prepareUpdateConfig(rows[n], t, s, c) \in Settings
<1>1. rows[n].set \in Settings
  BY DEF CronTypeOK, CronJobConfig
<1>2. ASSUME NEW S, NEW given \in Given(S), NEW old \in S
      PROVE  Merged(given, old) \in S
  BY <1>2 DEF Given, Merged
<1>3. Merged(t, rows[n].set.type) \in Types
  BY <1>1, <1>2 DEF Settings
<1>4. Merged(s, rows[n].set.spec) \in Specs
  BY <1>1, <1>2 DEF Settings
<1>5. Merged(c, rows[n].set.config) \in Configs
  BY <1>1, <1>2 DEF Settings
<1> QED
  BY <1>3, <1>4, <1>5 DEF prepareUpdateConfig, Settings

\* No policy is no settings.
LEMMA OffIsNone == Off \notin Settings
BY CronAssumption DEF Settings

\* NoId is the id of no entry: removing it removes nothing.
LEMMA RemoveNoId ==
    ASSUME CronTypeOK
    PROVE  RemoveEntry(NoId) = cron
BY CronAssumption DEF RemoveEntry, NoId, CronTypeOK, Entry, Ids

\* A suspended row has no entry to remove, so that AddCronJob is all that
\* updateActiveJobConfig does to the scheduler.
LEMMA NothingBefore ==
    ASSUME CronTypeOK, SuspendedNoId, NEW n \in Names, NEW new
    PROVE  BeforeAdd(n, new) = cron
BY RemoveNoId DEF BeforeAdd, SuspendedNoId

-----------------------------------------------------------------------------
(***************************************************************************)
(* The invariant, action by action.                                        *)
(***************************************************************************)
LEMMA InitInv == CronInit => CronInv
<1> SUFFICES ASSUME CronInit PROVE CronInv
  OBVIOUS
<1>1. CronTypeOK
  <2>1. \A r \in [suspend : {TRUE}, set : Settings, id : {NoId}] : r \in CronJobConfig
    BY DEF CronJobConfig
  <2>2. rows \in [Names -> CronJobConfig]
    BY <2>1 DEF CronInit
  <2>3. nextId \in 1..(MaxId + 1)
    BY CronAssumption DEF CronInit
  <2>4. cron \subseteq Entry /\ synced \in BOOLEAN /\ lost \in BOOLEAN
    BY DEF CronInit
  <2> QED
    BY <2>2, <2>3, <2>4 DEF CronTypeOK
<1>2. \A n \in Names : rows[n].suspend /\ rows[n].id = NoId
  BY DEF CronInit
<1> QED
  BY <1>1, <1>2 DEF CronInit, CronInv, IdsUnique, IdsUsed, SuspendedNoId, ActiveCanRestart,
                    ActiveIsScheduled, Active

\* Suspending removes the entry of that row and no other.
LEMMA SuspendInv ==
    ASSUME CronInv, NEW n \in Names, NEW new \in Settings, SuspendJob(n, new)
    PROVE  CronInv'
<1> USE DEF SuspendJob, CronInv
<1>1. rows' = [rows EXCEPT ![n] = NewRow(TRUE, new, NoId)]
  BY DEF NewRow
<1>2. /\ rows'[n] = NewRow(TRUE, new, NoId)
      /\ \A m \in Names \ {n} : rows'[m] = rows[m]
  BY <1>1 DEF CronTypeOK
<1>3. CronTypeOK'
  BY <1>1 DEF CronTypeOK, CronJobConfig, NewRow, RemoveEntry
<1>4. IdsUnique' /\ IdsUsed'
  BY DEF IdsUnique, IdsUsed, RemoveEntry
<1>5. SuspendedNoId'
  BY <1>2 DEF SuspendedNoId, NewRow
<1>6. ActiveCanRestart'
  BY <1>2 DEF ActiveCanRestart, Active, CanAdd, NewRow
<1>7. ActiveIsScheduled'
  <2> SUFFICES ASSUME synced, ~lost, NEW m \in Active'
               PROVE  NewEntry(rows'[m].id, m, rows'[m].set) \in cron'
    BY DEF ActiveIsScheduled, NewEntry
  <2>1. m # n /\ m \in Active /\ rows'[m] = rows[m] /\ n \in Active
    BY <1>2 DEF Active, NewRow
  <2>2. /\ NewEntry(rows[m].id, m, rows[m].set) \in cron
        /\ NewEntry(rows[n].id, n, rows[n].set) \in cron
    BY <2>1 DEF ActiveIsScheduled, NewEntry
  <2>3. rows[m].id # rows[n].id
    BY <2>1, <2>2 DEF IdsUnique, NewEntry
  <2> QED
    BY <2>1, <2>2, <2>3 DEF RemoveEntry, NewEntry
<1> QED
  BY <1>3, <1>4, <1>5, <1>6, <1>7

\* Adding an entry with the next id, whatever happens to the row: the entries
\* keep their ids apart.
LEMMA AddedInv ==
    ASSUME CronInv, nextId \in Ids, nextId' = nextId + 1,
           NEW n \in Names, NEW new \in Settings,
           cron' = cron \cup {NewEntry(nextId, n, new)}
    PROVE  /\ cron' \subseteq Entry
           /\ nextId' \in 1..(MaxId + 1)
           /\ IdsUnique'
           /\ IdsUsed'
<1>1. NewEntry(nextId, n, new) \in Entry
  BY DEF NewEntry, Entry
<1>2. cron' \subseteq Entry
  BY <1>1 DEF CronInv, CronTypeOK
<1>3. nextId' \in 1..(MaxId + 1)
  BY CronAssumption DEF Ids
<1>4. \A e \in cron : e.id \in Int /\ e.id < nextId
  BY DEF CronInv, CronTypeOK, IdsUsed, Entry, Ids
<1>5. NewEntry(nextId, n, new).id = nextId
  BY DEF NewEntry
<1>6. \A e \in cron : e.id # nextId
  BY <1>4 DEF Ids
<1>7. IdsUnique'
  BY <1>5, <1>6 DEF CronInv, IdsUnique
<1>8. IdsUsed'
  BY <1>4, <1>5 DEF IdsUsed, Ids
<1> QED
  BY <1>2, <1>3, <1>7, <1>8

\* Activating adds the entry that the row then names.
LEMMA ActivateInv ==
    ASSUME CronInv, NEW n \in Names, NEW new \in Settings, ActivateJob(n, new)
    PROVE  CronInv'
<1>0. BeforeAdd(n, new) = cron
  BY NothingBefore DEF CronInv
<1>1. cron' = cron \cup {NewEntry(nextId, n, new)}
  BY <1>0 DEF ActivateJob, NewEntry
<1>2. /\ cron' \subseteq Entry
      /\ nextId' \in 1..(MaxId + 1)
      /\ IdsUnique'
      /\ IdsUsed'
  BY <1>1, AddedInv DEF ActivateJob
<1>3. rows' = [rows EXCEPT ![n] = NewRow(FALSE, new, nextId)]
  BY DEF ActivateJob, NewRow
<1>4. /\ rows'[n] = NewRow(FALSE, new, nextId)
      /\ \A m \in Names \ {n} : rows'[m] = rows[m]
  BY <1>3 DEF CronInv, CronTypeOK
<1>5. CronTypeOK'
  BY <1>2, <1>3 DEF CronInv, CronTypeOK, CronJobConfig, NewRow, ActivateJob
<1>6. SuspendedNoId'
  BY <1>4 DEF CronInv, SuspendedNoId, NewRow
<1>7. ActiveCanRestart'
  BY <1>4 DEF CronInv, ActiveCanRestart, Active, CanAdd, NewRow, ActivateJob
<1>8. ActiveIsScheduled'
  BY <1>1, <1>4 DEF CronInv, ActiveIsScheduled, Active, NewRow, NewEntry, ActivateJob
<1> QED
  BY <1>2, <1>5, <1>6, <1>7, <1>8 DEF CronInv

\* Every other way an update can end.
LEMMA OtherUpdatesInv ==
    ASSUME CronInv, NEW n \in Names, NEW new \in Settings,
           \/ SuspendUncommitted(n)
           \/ UpdateOnly(n, new)
           \/ ActivateUncommitted(n, new)
           \/ ActivateRefused(n, new)
    PROVE  CronInv'
<1>0. BeforeAdd(n, new) = cron
  BY NothingBefore DEF CronInv
<1>1. CASE SuspendUncommitted(n)
  <2> USE DEF SuspendUncommitted, CronInv
  <2>1. CronTypeOK'
    BY <1>1 DEF CronTypeOK, RemoveEntry
  <2>2. IdsUnique' /\ IdsUsed'
    BY <1>1 DEF IdsUnique, IdsUsed, RemoveEntry
  <2>3. SuspendedNoId' /\ ActiveCanRestart' /\ ActiveIsScheduled'
    BY <1>1 DEF SuspendedNoId, ActiveCanRestart, ActiveIsScheduled, Active
  <2> QED
    BY <2>1, <2>2, <2>3
<1>2. CASE UpdateOnly(n, new)
  <2>1. /\ rows'[n] = [rows[n] EXCEPT !.set = new]
        /\ rows[n] \in CronJobConfig
        /\ \A m \in Names \ {n} : rows'[m] = rows[m]
    BY <1>2 DEF UpdateOnly, CronInv, CronTypeOK
  <2>2. rows'[n] \in CronJobConfig /\ rows'[n].suspend = rows[n].suspend /\ rows'[n].id = rows[n].id
    BY <2>1 DEF CronJobConfig
  <2>3. CronTypeOK'
    BY <1>2, <2>2, <2>1 DEF UpdateOnly, CronInv, CronTypeOK
  <2>4. IdsUnique' /\ IdsUsed'
    BY <1>2 DEF UpdateOnly, CronInv, IdsUnique, IdsUsed
  <2>5. Active' = Active /\ n \notin Active
    BY <1>2, <2>1, <2>2 DEF Active, UpdateOnly
  <2>6. SuspendedNoId'
    BY <2>1, <2>2 DEF CronInv, SuspendedNoId
  <2>7. ActiveCanRestart'
    BY <2>1, <2>5 DEF CronInv, ActiveCanRestart, CanAdd, Active
  <2>8. ActiveIsScheduled'
    BY <1>2, <2>1, <2>5 DEF CronInv, ActiveIsScheduled, UpdateOnly, Active
  <2> QED
    BY <2>3, <2>4, <2>6, <2>7, <2>8 DEF CronInv
<1>3. CASE ActivateUncommitted(n, new)
  <2>1. cron' = cron \cup {NewEntry(nextId, n, new)}
    BY <1>0, <1>3 DEF ActivateUncommitted, NewEntry
  <2>2. /\ cron' \subseteq Entry
        /\ nextId' \in 1..(MaxId + 1)
        /\ IdsUnique'
        /\ IdsUsed'
    BY <1>3, <2>1, AddedInv DEF ActivateUncommitted
  <2>3. rows' = rows /\ synced' = synced /\ lost' = lost /\ cron \subseteq cron'
    BY <1>3, <2>1 DEF ActivateUncommitted
  <2>4. CronTypeOK'
    BY <2>2, <2>3 DEF CronInv, CronTypeOK
  <2>5. SuspendedNoId' /\ ActiveCanRestart' /\ ActiveIsScheduled'
    BY <2>3 DEF CronInv, SuspendedNoId, ActiveCanRestart, ActiveIsScheduled, Active
  <2> QED
    BY <2>2, <2>4, <2>5 DEF CronInv
<1>4. CASE ActivateRefused(n, new)
  <2>1. cron' = cron
    BY <1>0, <1>4 DEF ActivateRefused
  <2>2. nextId' = nextId \/ (nextId \in Ids /\ nextId' = nextId + 1)
    BY <1>4 DEF ActivateRefused
  <2>3. nextId' \in 1..(MaxId + 1) /\ nextId =< nextId' /\ nextId \in Int
    BY <2>2, CronAssumption DEF CronInv, CronTypeOK, Ids
  <2>4. \A e \in cron : e.id \in Int
    BY DEF CronInv, CronTypeOK, Entry, Ids
  <2>5. IdsUsed'
    BY <2>1, <2>3, <2>4 DEF CronInv, IdsUsed
  <2> QED
    BY <1>4, <2>1, <2>3, <2>5 DEF ActivateRefused, CronInv, CronTypeOK, SuspendedNoId,
                 ActiveCanRestart, ActiveIsScheduled, Active, IdsUnique
<1> QED
  BY <1>1, <1>2, <1>3, <1>4

\* The entries that SyncCronJob adds have ids of their own.
LEMMA LoadedInv ==
    ASSUME CronInv, NEW next \in nextId..(MaxId + 1), NEW S \in SUBSET Names,
           NEW f \in Numbering(S, next),
           cron' = cron \cup Scheduled(f), nextId' = next
    PROVE  /\ cron' \subseteq Entry
           /\ nextId' \in 1..(MaxId + 1)
           /\ IdsUnique'
           /\ IdsUsed'
           /\ \A n \in S : f[n] \in Ids
<1>1. f \in [S -> nextId..(next - 1)] /\ IsInjective(f)
  BY DEF Numbering, Bijection, Injection
<1>2. nextId \in 1..(MaxId + 1)
  BY DEF CronInv, CronTypeOK
<1>3. nextId' \in 1..(MaxId + 1)
  BY <1>2, CronAssumption
<1>4. \A n \in S : f[n] \in Ids /\ f[n] >= nextId /\ f[n] < next
  BY <1>1, <1>2, CronAssumption DEF Ids
<1>5. \A n \in S : rows[n].set \in Settings
  BY DEF CronInv, CronTypeOK, CronJobConfig
<1>6. Scheduled(f) = {NewEntry(f[n], n, rows[n].set) : n \in S}
  BY <1>1 DEF Scheduled, NewEntry
<1>7. Scheduled(f) \subseteq Entry
  BY <1>4, <1>5, <1>6 DEF NewEntry, Entry
<1>8. cron' \subseteq Entry
  BY <1>7 DEF CronInv, CronTypeOK
<1>9. \A e \in cron : e.id \in Int /\ e.id < nextId
  BY DEF CronInv, CronTypeOK, IdsUsed, Entry, Ids
<1>10. \A e \in Scheduled(f) : \E n \in S : e = NewEntry(f[n], n, rows[n].set) /\ e.id = f[n]
  BY <1>6 DEF NewEntry
<1>11. ASSUME NEW d \in Scheduled(f), NEW e \in Scheduled(f), d.id = e.id PROVE d = e
  <2>1. PICK m \in S : d = NewEntry(f[m], m, rows[m].set) /\ d.id = f[m]
    BY <1>10
  <2>2. PICK n \in S : e = NewEntry(f[n], n, rows[n].set) /\ e.id = f[n]
    BY <1>10
  <2>3. m = n
    BY <1>1, <1>11, <2>1, <2>2 DEF IsInjective
  <2> QED
    BY <2>1, <2>2, <2>3
<1>12. \A e \in Scheduled(f) : e.id \in Int /\ e.id >= nextId /\ e.id < next
  BY <1>4, <1>10 DEF Ids
<1>13. IdsUnique'
  <2>1. \A d \in cron, e \in Scheduled(f) : d.id # e.id
    BY <1>2, <1>9, <1>12
  <2> QED
    BY <1>11, <2>1 DEF CronInv, IdsUnique
<1>14. IdsUsed'
  BY <1>2, <1>9, <1>12 DEF IdsUsed
<1> QED
  BY <1>3, <1>4, <1>8, <1>13, <1>14

\* Loading gives every active row an entry.
LEMMA SyncInv ==
    ASSUME CronInv, SyncCronJob
    PROVE  CronInv'
<1>1. {n \in Active : CanAdd(n, rows[n].set)} = Active /\ Active \in SUBSET Names
  BY DEF CronInv, ActiveCanRestart, Active
<1>2. PICK next \in nextId..(MaxId + 1) : \E f \in Numbering(Active, next) :
             /\ cron' = cron \cup Scheduled(f)
             /\ rows' = [n \in Names |->
                            IF n \in DOMAIN f THEN [rows[n] EXCEPT !.id = f[n]] ELSE rows[n]]
             /\ nextId' = next
  BY <1>1 DEF SyncCronJob
<1>3. PICK f \in Numbering(Active, next) :
             /\ cron' = cron \cup Scheduled(f)
             /\ rows' = [n \in Names |->
                            IF n \in DOMAIN f THEN [rows[n] EXCEPT !.id = f[n]] ELSE rows[n]]
             /\ nextId' = next
  BY <1>2
<1>4. DOMAIN f = Active
  BY DEF Numbering, Bijection, Injection
<1>5. /\ cron' \subseteq Entry
      /\ nextId' \in 1..(MaxId + 1)
      /\ IdsUnique'
      /\ IdsUsed'
      /\ \A n \in Active : f[n] \in Ids
  BY <1>1, <1>3, LoadedInv
<1>6. \A n \in Names : rows[n] \in CronJobConfig
  BY DEF CronInv, CronTypeOK
<1>7. ASSUME NEW n \in Active
      PROVE  /\ rows'[n] = [rows[n] EXCEPT !.id = f[n]]
             /\ rows'[n] \in CronJobConfig
             /\ rows'[n].suspend = rows[n].suspend
             /\ rows'[n].set = rows[n].set
             /\ rows'[n].id = f[n]
  BY <1>1, <1>3, <1>4, <1>5, <1>6 DEF CronJobConfig
<1>8. \A n \in Names \ Active : rows'[n] = rows[n]
  BY <1>3, <1>4
<1>9. Active' = Active
  BY <1>7, <1>8 DEF Active
<1>10. CronTypeOK'
  <2>1. rows' \in [Names -> CronJobConfig]
    BY <1>3, <1>6, <1>7, <1>8
  <2> QED
    BY <1>5, <2>1 DEF CronTypeOK, SyncCronJob
<1>11. SuspendedNoId'
  BY <1>7, <1>8 DEF CronInv, SuspendedNoId, Active
<1>12. ActiveCanRestart'
  BY <1>7, <1>9 DEF CronInv, ActiveCanRestart, CanAdd
<1>13. ActiveIsScheduled'
  <2>1. ASSUME NEW n \in Active
        PROVE  NewEntry(rows'[n].id, n, rows'[n].set) \in cron'
    <3>1. NewEntry(f[n], n, rows[n].set) \in Scheduled(f)
      BY <1>4 DEF Scheduled, NewEntry
    <3>2. Scheduled(f) \subseteq cron'
      BY <1>3
    <3>3. rows'[n].id = f[n] /\ rows'[n].set = rows[n].set
      BY <1>7
    <3> QED
      BY <3>1, <3>2, <3>3
  <2> QED
    BY <1>9, <2>1 DEF ActiveIsScheduled, NewEntry
<1> QED
  BY <1>5, <1>10, <1>11, <1>12, <1>13 DEF CronInv

\* A load that fails, and the end of the process.
LEMMA FaultsInv ==
    ASSUME CronInv, SyncFails \/ Crash
    PROVE  CronInv'
<1>1. CASE Crash
  <2>1. nextId' \in 1..(MaxId + 1)
    BY <1>1, CronAssumption DEF Crash
  <2>2. rows' = rows /\ cron' = {} /\ synced' = FALSE /\ lost' = FALSE
    BY <1>1 DEF Crash
  <2>3. CronTypeOK'
    BY <2>1, <2>2 DEF CronInv, CronTypeOK
  <2> QED
    BY <2>2, <2>3 DEF CronInv, IdsUnique, IdsUsed, SuspendedNoId, ActiveCanRestart,
                      ActiveIsScheduled, Active
<1>2. CASE SyncFails
  <2>1. synced' = TRUE /\ lost' = TRUE /\ rows' = rows
    BY <1>2 DEF SyncFails
  <2>2. SuspendedNoId' /\ ActiveCanRestart' /\ ActiveIsScheduled'
    BY <2>1 DEF CronInv, SuspendedNoId, ActiveCanRestart, ActiveIsScheduled, Active
  <2>3. CASE UNCHANGED <<cron, nextId>>
    BY <2>1, <2>2, <2>3 DEF CronInv, CronTypeOK, IdsUnique, IdsUsed
  <2>4. CASE \E next \in nextId..(MaxId + 1) :
                \E f \in Numbering({n \in Active : CanAdd(n, rows[n].set)}, next) :
                   cron' = cron \cup Scheduled(f) /\ nextId' = next
    <3>1. {n \in Active : CanAdd(n, rows[n].set)} \in SUBSET Names
      BY DEF Active
    <3>2. cron' \subseteq Entry /\ nextId' \in 1..(MaxId + 1) /\ IdsUnique' /\ IdsUsed'
      BY <2>4, <3>1, LoadedInv
    <3> QED
      BY <2>1, <2>2, <3>2 DEF CronInv, CronTypeOK
  <2> QED
    BY <1>2, <2>3, <2>4 DEF SyncFails
<1> QED
  BY <1>1, <1>2

\* Every step of the manager keeps the invariant.
LEMMA StepInv ==
    ASSUME CronInv, [CronNext]_cronVars
    PROVE  CronInv'
<1>1. CASE UNCHANGED cronVars
  BY <1>1 DEF cronVars, CronInv, CronTypeOK, IdsUnique, IdsUsed, SuspendedNoId,
              ActiveCanRestart, ActiveIsScheduled, Active
<1>2. ASSUME NEW n \in Names, UpdateJobConfig(n) PROVE CronInv'
  <2>1. PICK t \in Given(Types), s \in Given(Specs), c \in Given(Configs) :
            LET new == prepareUpdateConfig(rows[n], t, s, c)
            IN  \/ SuspendJob(n, new)
                \/ SuspendUncommitted(n)
                \/ UpdateOnly(n, new)
                \/ ActivateJob(n, new)
                \/ ActivateUncommitted(n, new)
                \/ ActivateRefused(n, new)
    BY <1>2 DEF UpdateJobConfig
  <2> DEFINE new == prepareUpdateConfig(rows[n], t, s, c)
  <2>2. new \in Settings
    BY MergedType DEF CronInv
  <2>3. \/ SuspendJob(n, new)
        \/ ActivateJob(n, new)
        \/ \/ SuspendUncommitted(n)
           \/ UpdateOnly(n, new)
           \/ ActivateUncommitted(n, new)
           \/ ActivateRefused(n, new)
    BY <2>1
  <2> HIDE DEF new
  <2> QED
    BY <2>2, <2>3, SuspendInv, ActivateInv, OtherUpdatesInv
<1> QED
  BY <1>1, <1>2, SyncInv, FaultsInv DEF CronNext

\* CronManager: the inductive invariant of rows and entries (UpdateJobConfig,
\* SyncCronJob) holds in every reachable state, for all configurations and all
\* failures of transactions and of the process.
THEOREM CronInvariance == CronSpec => []CronInv
<1>1. CronInit => CronInv
  BY InitInv
<1>2. CronInv /\ [CronNext]_cronVars => CronInv'
  BY StepInv
<1> QED
  BY <1>1, <1>2, PTL DEF CronSpec

\* After SyncCronJob an active row names the entry that runs its policy
\* (updateActiveJobConfig stores the id it was given).
THEOREM Scheduling == CronSpec => []ActiveIsScheduled
<1>1. CronInv => ActiveIsScheduled
  BY DEF CronInv
<1> QED
  BY <1>1, CronInvariance, PTL

\* Rows become active only through AddCronJob, so that SyncCronJob can add
\* every active row again.
THEOREM Restartable == CronSpec => []ActiveCanRestart
<1>1. CronInv => ActiveCanRestart
  BY DEF CronInv
<1> QED
  BY <1>1, CronInvariance, PTL

-----------------------------------------------------------------------------
(***************************************************************************)
(* An update takes no entry of another configuration away.                 *)
(***************************************************************************)
\* The entries a step removes belong to the row it changes.
KeepsOthers ==
    \A n \in Names :
        synced /\ ~lost /\ synced' /\ rows'[n] # rows[n] =>
            \A e \in cron \ cron' : e.name = n

\* The entry that updateSuspendedJobConfig removes has the name of the row.
LEMMA RemovedIsOwn ==
    ASSUME CronInv, synced, ~lost, NEW n \in Names, NEW new, SuspendJob(n, new)
    PROVE  \A e \in cron \ cron' : e.name = n
<1>1. n \in Active
  BY DEF SuspendJob, Active
<1>2. NewEntry(rows[n].id, n, rows[n].set) \in cron
  BY <1>1 DEF CronInv, ActiveIsScheduled, NewEntry
<1> QED
  BY <1>2 DEF SuspendJob, RemoveEntry, CronInv, IdsUnique, NewEntry

\* Every step of the manager keeps the entries of the names it is not about.
LEMMA KeepsOthersStep ==
    ASSUME CronInv, [CronNext]_cronVars
    PROVE  KeepsOthers
<1>1. CASE UNCHANGED cronVars
  BY <1>1 DEF cronVars, KeepsOthers
<1>2. ASSUME NEW n \in Names, NEW new \in Settings,
             \/ SuspendJob(n, new)
             \/ SuspendUncommitted(n)
             \/ UpdateOnly(n, new)
             \/ ActivateJob(n, new)
             \/ ActivateUncommitted(n, new)
             \/ ActivateRefused(n, new)
      PROVE  KeepsOthers
  <2>1. BeforeAdd(n, new) = cron
    BY NothingBefore DEF CronInv
  <2>2. CASE SuspendJob(n, new)
    <3>1. \A m \in Names : rows'[m] # rows[m] => m = n
      BY <2>2 DEF SuspendJob, CronInv, CronTypeOK
    <3> QED
      BY <2>2, <3>1, RemovedIsOwn DEF KeepsOthers
  <2>3. CASE SuspendUncommitted(n) \/ UpdateOnly(n, new) \/ ActivateRefused(n, new)
    BY <2>1, <2>3 DEF SuspendUncommitted, UpdateOnly, ActivateRefused, KeepsOthers
  <2>4. CASE ActivateJob(n, new) \/ ActivateUncommitted(n, new)
    <3>1. cron \subseteq cron'
      BY <2>1, <2>4 DEF ActivateJob, ActivateUncommitted
    <3> QED
      BY <3>1 DEF KeepsOthers
  <2> QED
    BY <1>2, <2>2, <2>3, <2>4
<1>3. ASSUME NEW n \in Names, UpdateJobConfig(n) PROVE KeepsOthers
  BY <1>2, <1>3, MergedType DEF UpdateJobConfig, CronInv
<1>4. CASE SyncCronJob \/ SyncFails
  BY <1>4 DEF SyncCronJob, SyncFails, KeepsOthers
<1>5. CASE Crash
  BY <1>5 DEF Crash, KeepsOthers
<1> QED
  BY <1>1, <1>3, <1>4, <1>5 DEF CronNext

\* No update takes the entry of another configuration out of the scheduler
\* (the ids in rows survive a restart, the entries do not).
THEOREM OthersKept == CronSpec => OthersKeepEntries
<1>1. CronInv /\ [CronNext]_cronVars => [KeepsOthers]_cronVars
  BY KeepsOthersStep
<1>2. CronSpec => [][KeepsOthers]_cronVars
  BY <1>1, CronInvariance, PTL DEF CronSpec
<1> QED
  BY <1>2 DEF OthersKeepEntries, KeepsOthers

-----------------------------------------------------------------------------
(***************************************************************************)
(* CronManager implements CronSchedule.                                    *)
(***************************************************************************)
\* The states of CronSchedule that the rows and entries stand for.
Asked   == [n \in Names |-> [suspend |-> rows[n].suspend, set |-> rows[n].set]]
Running == [n \in Names |-> IF Trusted THEN ShownEntry(n) ELSE Off]
Effective == [n \in Names |-> IF Trusted /\ ~rows[n].suspend THEN rows[n].set ELSE Off]

\* What the entry ids show is what was asked for.
LEMMA ShownIsAsked == ASSUME CronInv PROVE Running = Effective
<1> SUFFICES ASSUME NEW n \in Names, Trusted
             PROVE  ShownEntry(n) = IF rows[n].suspend THEN Off ELSE rows[n].set
  BY DEF Running, Effective
<1>1. CASE rows[n].suspend
  <2>1. rows[n].id = NoId
    BY <1>1 DEF CronInv, SuspendedNoId
  <2>2. \A e \in cron : e.id # NoId
    BY CronAssumption DEF CronInv, CronTypeOK, Entry, Ids, NoId
  <2> QED
    BY <1>1, <2>1, <2>2 DEF ShownEntry
<1>2. CASE ~rows[n].suspend
  <2> DEFINE own == NewEntry(rows[n].id, n, rows[n].set)
  <2>1. own \in cron
    BY <1>2 DEF CronInv, ActiveIsScheduled, Active, Trusted, NewEntry
  <2>2. own.id = rows[n].id /\ own.set = rows[n].set
    BY DEF NewEntry
  <2>3. \A e \in cron : e.id = rows[n].id => e = own
    BY <2>1, <2>2 DEF CronInv, IdsUnique
  <2> HIDE DEF own
  <2>4. (CHOOSE e \in cron : e.id = rows[n].id) = own
    BY <2>1, <2>2, <2>3
  <2> QED
    BY <1>2, <2>1, <2>2, <2>4 DEF ShownEntry
<1> QED
  BY <1>1, <1>2

\* In step: what the entry ids show is what was asked for.
InStep == CronInv /\ Running = Effective

\* CronManager: an entry id in a row shows the policy last asked for under its
\* name, or none (UpdateJobConfig, SyncCronJob).
THEOREM Tracking == CronSpec => []InStep
<1>1. CronInv => InStep
  BY ShownIsAsked DEF InStep
<1> QED
  BY <1>1, CronInvariance, PTL

\* The schedule that the manager answers for is a schedule of CronSchedule.
LEMMA StateRange == ASSUME CronInv PROVE Asked \in [Names -> Schedule!Request]
<1>1. \A n \in Names : rows[n].suspend \in BOOLEAN /\ rows[n].set \in Settings
  BY DEF CronInv, CronTypeOK, CronJobConfig
<1>2. \A n \in Names : [suspend |-> rows[n].suspend, set |-> rows[n].set] \in Schedule!Request
  BY <1>1 DEF Schedule!Request
<1> QED
  BY <1>2 DEF Asked

\* An initial state of the manager is one of CronSchedule.
LEMMA RefinedInit == CronInit => Schedule!Init
<1> SUFFICES ASSUME CronInit PROVE Schedule!Init
  OBVIOUS
<1>1. CronInv
  BY InitInv
<1>2. Asked \in [Names -> Schedule!Request]
  BY <1>1, StateRange
<1>3. \A n \in Names : Asked[n].suspend
  BY DEF CronInit, Asked
<1>4. Running = [n \in Names |-> Off] /\ Trusted = FALSE
  BY DEF CronInit, Running, Trusted
<1> QED
  BY <1>2, <1>3, <1>4 DEF Schedule!Init, Schedule!Nothing, Asked, Running

\* What the three actions of CronSchedule are about, in terms of Asked and Effective.
AsksFor(n, a) ==
    /\ a.suspend \/ CanAdd(n, a.set)
    /\ Asked' = [Asked EXCEPT ![n] = a]
    /\ Effective' = IF Trusted THEN [Effective EXCEPT ![n] = Schedule!Wanted(a)] ELSE Effective
    /\ Trusted' = Trusted

\* A row that UpdateJobConfig rewrites without losing track is a request.
LEMMA AskStep ==
    ASSUME CronInv, CronInv', NEW n \in Names, NEW new \in Settings, NEW s \in BOOLEAN,
           s \/ CanAdd(n, new),
           rows'[n].suspend = s, rows'[n].set = new,
           \A m \in Names \ {n} : rows'[m] = rows[m],
           synced' = synced, lost' = lost
    PROVE  AsksFor(n, [suspend |-> s, set |-> new])
<1>1. Trusted' = Trusted
  BY DEF Trusted
<1>2. Asked' = [Asked EXCEPT ![n] = [suspend |-> s, set |-> new]]
  BY DEF Asked
<1>3. Schedule!Wanted([suspend |-> s, set |-> new]) = IF s THEN Off ELSE new
  BY DEF Schedule!Wanted
<1>4. CASE Trusted
  BY <1>1, <1>2, <1>3, <1>4 DEF Effective, AsksFor
<1>5. CASE ~Trusted
  BY <1>1, <1>2, <1>5 DEF Effective, AsksFor
<1> QED
  BY <1>4, <1>5

\* Asking is a step of CronSchedule.
LEMMA AskRefines ==
    ASSUME InStep, InStep', NEW n \in Names, NEW a \in Schedule!Request, AsksFor(n, a)
    PROVE  Schedule!Next
<1>1. Running = Effective /\ Running' = Effective'
  BY DEF InStep
<1>2. Schedule!Ask(n, a)
  BY <1>1 DEF Schedule!Ask, AsksFor, Asked, Running
<1> QED
  BY <1>2 DEF Schedule!Next

\* A step that changes no row and loses track.
LEMMA LoseRefines ==
    ASSUME InStep, InStep', rows' = rows, ~Trusted'
    PROVE  Schedule!Next
<1>1. Running' = [n \in Names |-> Off]
  BY DEF Running
<1>2. Asked' = Asked /\ Trusted' = FALSE
  BY DEF Asked, Trusted
<1>3. Schedule!LoseTrack
  BY <1>1, <1>2 DEF Schedule!LoseTrack, Schedule!Nothing, Asked, Running
<1> QED
  BY <1>3 DEF Schedule!Next

\* A step that changes no row and keeps track as it was.
LEMMA StutterRefines ==
    ASSUME InStep, InStep', rows' = rows, Trusted' = Trusted
    PROVE  UNCHANGED Schedule!vars
<1>1. Running = Effective /\ Running' = Effective'
  BY DEF InStep
<1>2. Effective' = Effective /\ Asked' = Asked
  BY DEF Effective, Asked
<1> QED
  BY <1>1, <1>2 DEF Schedule!vars, Asked, Running

\* SyncCronJob loads what was asked for.
LEMMA LoadRefines ==
    ASSUME InStep, InStep', SyncCronJob
    PROVE  Schedule!Next
<1>1. \A n \in Names : rows'[n].suspend = rows[n].suspend /\ rows'[n].set = rows[n].set
  BY DEF SyncCronJob, InStep, CronInv, CronTypeOK, CronJobConfig
<1>2. Asked' = Asked
  BY <1>1 DEF Asked
<1>3. Trusted' = TRUE
  BY DEF SyncCronJob, Trusted
<1>4. Running' = Effective'
  BY DEF InStep
<1>5. Effective' = [n \in Names |-> Schedule!Wanted(Asked[n])]
  BY <1>1, <1>3 DEF Effective, Asked, Schedule!Wanted
<1>6. Schedule!Load
  BY <1>2, <1>3, <1>4, <1>5 DEF Schedule!Load, Asked, Running
<1> QED
  BY <1>6 DEF Schedule!Next

\* An update of one configuration changes the schedule of one name at most.
LEMMA UpdateRefines ==
    ASSUME InStep, InStep', NEW n \in Names, NEW new \in Settings,
           \/ SuspendJob(n, new)
           \/ SuspendUncommitted(n)
           \/ UpdateOnly(n, new)
           \/ ActivateJob(n, new)
           \/ ActivateUncommitted(n, new)
           \/ ActivateRefused(n, new)
    PROVE  Schedule!Next \/ UNCHANGED Schedule!vars
<1>0. \A s \in BOOLEAN : [suspend |-> s, set |-> new] \in Schedule!Request
  BY DEF Schedule!Request
<1>1. CASE SuspendJob(n, new) \/ UpdateOnly(n, new)
  <2>1. /\ rows'[n].suspend = TRUE /\ rows'[n].set = new
        /\ \A m \in Names \ {n} : rows'[m] = rows[m]
        /\ synced' = synced /\ lost' = lost
    BY <1>1 DEF SuspendJob, UpdateOnly, InStep, CronInv, CronTypeOK, CronJobConfig
  <2>2. AsksFor(n, [suspend |-> TRUE, set |-> new])
    BY <2>1, AskStep DEF InStep
  <2> QED
    BY <1>0, <2>2, AskRefines
<1>2. CASE ActivateJob(n, new)
  <2>1. /\ rows'[n].suspend = FALSE /\ rows'[n].set = new
        /\ \A m \in Names \ {n} : rows'[m] = rows[m]
        /\ synced' = synced /\ lost' = lost
        /\ CanAdd(n, new)
    BY <1>2 DEF ActivateJob, InStep, CronInv, CronTypeOK
  <2>2. AsksFor(n, [suspend |-> FALSE, set |-> new])
    BY <2>1, AskStep DEF InStep
  <2> QED
    BY <1>0, <2>2, AskRefines
<1>3. CASE SuspendUncommitted(n)
  <2>1. rows' = rows /\ ~Trusted'
    BY <1>3 DEF SuspendUncommitted, Trusted
  <2> QED
    BY <2>1, LoseRefines
<1>4. CASE ActivateUncommitted(n, new) \/ ActivateRefused(n, new)
  <2>1. rows' = rows /\ Trusted' = Trusted
    BY <1>4 DEF ActivateUncommitted, ActivateRefused, Trusted
  <2> QED
    BY <2>1, StutterRefines
<1> QED
  BY <1>1, <1>2, <1>3, <1>4

\* Every step of the manager is a step of CronSchedule or a stutter.
LEMMA RefinedStep ==
    ASSUME InStep, InStep', [CronNext]_cronVars
    PROVE  [Schedule!Next]_(Schedule!vars)
<1>1. CASE UNCHANGED cronVars
  <2>1. rows' = rows /\ Trusted' = Trusted
    BY <1>1 DEF cronVars, Trusted
  <2> QED
    BY <2>1, StutterRefines
<1>2. ASSUME NEW n \in Names, UpdateJobConfig(n)
      PROVE  Schedule!Next \/ UNCHANGED Schedule!vars
  BY <1>2, UpdateRefines, MergedType DEF UpdateJobConfig, InStep, CronInv
<1>3. CASE SyncCronJob
  BY <1>3, LoadRefines
<1>4. CASE SyncFails \/ Crash
  <2>1. rows' = rows /\ ~Trusted'
    BY <1>4 DEF SyncFails, Crash, Trusted
  <2> QED
    BY <2>1, LoseRefines
<1> QED
  BY <1>1, <1>2, <1>3, <1>4 DEF CronNext

\* The manager implements CronSchedule: what its entry ids reach in the
\* scheduler is what was last asked for, except while a failed transaction or a
\* dead process has made it lose track.
THEOREM Refinement == CronSpec => KeepsSchedule
<1>1. CronInit => Schedule!Init
  BY RefinedInit
<1>2. InStep /\ InStep' /\ [CronNext]_cronVars => [Schedule!Next]_(Schedule!vars)
  BY RefinedStep
<1> QED
  BY <1>1, <1>2, Tracking, PTL DEF CronSpec, KeepsSchedule, Schedule!Spec
=============================================================================
