---------------------------- MODULE CronManager -----------------------------
(***************************************************************************)
(* The cron manager (pkg/cronjob): rows of cron_job_configs, entries of    *)
(* the robfig scheduler, and the entry id by which a row refers to its     *)
(* entry.                                                                  *)
(*                                                                         *)
(* UpdateJobConfig and SyncCronJob hold cronMutex and run in a database    *)
(* transaction, so each is one step; but the scheduler is no part of the   *)
(* transaction, and a transaction that does not commit leaves its entries  *)
(* as they are.  Entries and their ids die with the process.               *)
(***************************************************************************)
EXTENDS Integers, Functions

CONSTANTS Names,         \* names of the configurations
          Types, Specs, Configs,
          ValidTypes,    \* types that newCronJobFunc knows
          ValidSpecs,    \* schedules that the cron parser accepts
          ValidConfigs,  \* pairs of a name and a configuration its cleaner can decode
          MaxId,         \* bound: entries added in the life of one process
          Faults,        \* what may fail: "update", "commit", "sync", "crash"
          Off            \* no policy

ASSUME CronAssumption ==
    /\ MaxId \in Nat
    /\ Off \notin [type : Types, spec : Specs, config : Configs]

VARIABLES
    rows,    \* the table cron_job_configs
    cron,    \* the entries of the scheduler
    nextId,  \* the id the scheduler gives to its next entry
    synced,  \* SyncCronJob has run in this process
    lost     \* history: a failed transaction has left rows and entries apart

cronVars == <<rows, cron, nextId, synced, lost>>

-----------------------------------------------------------------------------
Settings == [type : Types, spec : Specs, config : Configs]
NoId     == -1
Ids      == 1..MaxId

CronJobConfig == [suspend : BOOLEAN, set : Settings, id : Ids \cup {NoId}]
Entry         == [id : Ids, name : Names, set : Settings]

\* The migration that creates the table inserts every configuration
\* suspended, some with a configuration that its cleaner cannot decode.
CronInit ==
    /\ rows \in [Names -> [suspend : {TRUE}, set : Settings, id : {NoId}]]
    /\ cron = {}
    /\ nextId = 1
    /\ synced = FALSE
    /\ lost = FALSE

Active == {n \in Names : ~rows[n].suspend}

\* newCronJobFunc and AddFunc succeed.
CanAdd(n, s) ==
    /\ s.type \in ValidTypes
    /\ s.spec \in ValidSpecs
    /\ <<n, s.config>> \in ValidConfigs

RemoveEntry(id) == {e \in cron : e.id # id}

-----------------------------------------------------------------------------
(***************************************************************************)
(* UpdateJobConfig(name, type, spec, suspend, config).  The handler gives  *)
(* nil for a field that the request leaves empty, and always a suspend.    *)
(***************************************************************************)
\* A field of a request: one value, or none.
Given(S) == {{}} \cup {{x} : x \in S}

Merged(given, old) == IF given = {} THEN old ELSE CHOOSE x \in given : TRUE

prepareUpdateConfig(cur, t, s, c) ==
    [type   |-> Merged(t, cur.set.type),
     spec   |-> Merged(s, cur.set.spec),
     config |-> Merged(c, cur.set.config)]

jobNeedsUpdate(cur, new) == cur.set # new

\* Suspending an active configuration: the row, then its entry.
SuspendJob(n, new) ==
    /\ ~rows[n].suspend
    /\ rows' = [rows EXCEPT ![n] = [suspend |-> TRUE, set |-> new, id |-> NoId]]
    /\ cron' = RemoveEntry(rows[n].id)
    /\ UNCHANGED <<nextId, synced, lost>>

\* The same, but the transaction fails to commit: only the entry is gone.
SuspendUncommitted(n) ==
    /\ "commit" \in Faults
    /\ ~rows[n].suspend
    /\ cron' = RemoveEntry(rows[n].id)
    /\ lost' = TRUE
    /\ UNCHANGED <<rows, nextId, synced>>

\* A configuration that stays suspended: Updates skips the zero entry id.
UpdateOnly(n, new) ==
    /\ rows[n].suspend
    /\ rows' = [rows EXCEPT ![n].set = new]
    /\ UNCHANGED <<cron, nextId, synced, lost>>

\* What updateActiveJobConfig removes before it adds an entry.
BeforeAdd(n, new) ==
    IF rows[n].suspend /\ jobNeedsUpdate(rows[n], new) THEN RemoveEntry(rows[n].id) ELSE cron

\* Mutant: the row keeps the id it had.
ActivateJob_OldId(n, new) ==
    /\ CanAdd(n, new)
    /\ nextId \in Ids
    /\ rows' = [rows EXCEPT ![n].suspend = FALSE, ![n].set = new]
    /\ cron' = BeforeAdd(n, new) \cup {[id |-> nextId, name |-> n, set |-> new]}
    /\ nextId' = nextId + 1
    /\ UNCHANGED <<synced, lost>>

\* Activating a configuration, active already or not.
ActivateJob(n, new) ==
    /\ CanAdd(n, new)
    /\ nextId \in Ids
    /\ rows' = [rows EXCEPT ![n] = [suspend |-> FALSE, set |-> new, id |-> nextId]]
    /\ cron' = BeforeAdd(n, new) \cup {[id |-> nextId, name |-> n, set |-> new]}
    /\ nextId' = nextId + 1
    /\ UNCHANGED <<synced, lost>>

\* The transaction fails to commit: the entry stays and no row knows it.
ActivateUncommitted(n, new) ==
    /\ "commit" \in Faults
    /\ CanAdd(n, new)
    /\ nextId \in Ids
    /\ cron' = BeforeAdd(n, new) \cup {[id |-> nextId, name |-> n, set |-> new]}
    /\ nextId' = nextId + 1
    /\ UNCHANGED <<rows, synced, lost>>

\* AddCronJob refuses the settings, or the row cannot be written and the new
\* entry is taken back; its id is used up.
ActivateRefused(n, new) ==
    /\ cron' = BeforeAdd(n, new)
    /\ \/ /\ ~CanAdd(n, new)
          /\ UNCHANGED nextId
       \/ /\ "update" \in Faults
          /\ CanAdd(n, new)
          /\ nextId \in Ids
          /\ nextId' = nextId + 1
    /\ UNCHANGED <<rows, synced, lost>>

UpdateJobConfig(n) ==
    \E t \in Given(Types), s \in Given(Specs), c \in Given(Configs) :
        LET new == prepareUpdateConfig(rows[n], t, s, c)
        IN  \/ SuspendJob(n, new)
            \/ SuspendUncommitted(n)
            \/ UpdateOnly(n, new)
            \/ ActivateJob(n, new)
            \/ ActivateUncommitted(n, new)
            \/ ActivateRefused(n, new)

-----------------------------------------------------------------------------
(***************************************************************************)
(* SyncCronJob, in a goroutine of its own at the start of the process.     *)
(***************************************************************************)
\* Entries for the rows f is defined on, by their new ids.
Scheduled(f) == {[id |-> f[n], name |-> n, set |-> rows[n].set] : n \in DOMAIN f}

\* The ids of entries added in the order in which Find returns the rows.
Numbering(S, next) == Bijection(S, nextId..(next - 1))

\* Rows that AddCronJob refuses are skipped.
SyncCronJob ==
    /\ ~synced
    /\ \E next \in nextId..(MaxId + 1) :
          \E f \in Numbering({n \in Active : CanAdd(n, rows[n].set)}, next) :
             /\ cron' = cron \cup Scheduled(f)
             /\ rows' = [n \in Names |->
                            IF n \in DOMAIN f THEN [rows[n] EXCEPT !.id = f[n]] ELSE rows[n]]
             /\ nextId' = next
    /\ synced' = TRUE
    /\ lost' = FALSE

\* The rows cannot be read, or one id cannot be written, which aborts the
\* transaction: the entries run and no row has its new id.
SyncFails ==
    /\ "sync" \in Faults
    /\ ~synced
    /\ \/ UNCHANGED <<cron, nextId>>
       \/ \E next \in nextId..(MaxId + 1) :
             \E f \in Numbering({n \in Active : CanAdd(n, rows[n].set)}, next) :
                /\ cron' = cron \cup Scheduled(f)
                /\ nextId' = next
    /\ synced' = TRUE
    /\ lost' = TRUE
    /\ UNCHANGED rows

Crash ==
    /\ "crash" \in Faults
    /\ cron' = {}
    /\ nextId' = 1
    /\ synced' = FALSE
    /\ lost' = FALSE
    /\ UNCHANGED rows

CronNext ==
    \/ \E n \in Names : UpdateJobConfig(n)
    \/ SyncCronJob
    \/ SyncFails
    \/ Crash

CronSpec == CronInit /\ [][CronNext]_cronVars

-----------------------------------------------------------------------------
\* Rows, entries and the counter of ids have their types.
CronTypeOK ==
    /\ rows \in [Names -> CronJobConfig]
    /\ cron \subseteq Entry
    /\ nextId \in 1..(MaxId + 1)
    /\ synced \in BOOLEAN
    /\ lost \in BOOLEAN

\* After SyncCronJob, the entry id of every active row is the id of an entry
\* that runs this row's policy with the settings the row has now, unless a
\* transaction failed to commit (updateSuspendedJobConfig, SyncCronJob).
ActiveIsScheduled ==
    synced /\ ~lost =>
        \A n \in Active : [id |-> rows[n].id, name |-> n, set |-> rows[n].set] \in cron

\* An active row can be loaded again: whatever UpdateJobConfig stores while a
\* configuration is suspended, it becomes active only through AddCronJob, so
\* that SyncCronJob skips no row after a restart.
ActiveCanRestart == \A n \in Active : CanAdd(n, rows[n].set)

IdsUnique      == \A d, e \in cron : d.id = e.id => d = e
IdsUsed        == \A e \in cron : e.id < nextId
SuspendedNoId  == \A n \in Names : rows[n].suspend => rows[n].id = NoId

\* The inductive invariant.
CronInv ==
    /\ CronTypeOK
    /\ IdsUnique
    /\ IdsUsed
    /\ SuspendedNoId
    /\ ActiveCanRestart
    /\ ActiveIsScheduled

\* An update of one configuration never takes the entry of another away: the
\* id in a row is never the id of somebody else's entry, which a restart, with
\* ids counted from 1 again, could make it.
OthersKeepEntries ==
    [][\A n \in Names :
          synced /\ ~lost /\ synced' /\ rows'[n] # rows[n] =>
              \A e \in cron \ cron' : e.name = n]_cronVars

\* A suspended configuration has no entry in the scheduler ("是否暂停执行",
\* dao/model/cron_job.go).
SuspendedIsStopped ==
    synced /\ ~lost => \A e \in cron : ~rows[e.name].suspend

-----------------------------------------------------------------------------
\* What runs under a name, as far as the rows can tell.
ShownEntry(n) ==
    IF \E e \in cron : e.id = rows[n].id
    THEN (CHOOSE e \in cron : e.id = rows[n].id).set
    ELSE Off

Trusted == synced /\ ~lost

Schedule == INSTANCE CronSchedule WITH
    Supported <- CanAdd,
    asked     <- [n \in Names |-> [suspend |-> rows[n].suspend, set |-> rows[n].set]],
    running   <- [n \in Names |-> IF Trusted THEN ShownEntry(n) ELSE Off],
    trusted   <- Trusted

\* The manager keeps the promise of CronSchedule: with its entry ids it tracks
\* exactly what was last asked for, and a failed commit only loses track until
\* the next start.
KeepsSchedule == Schedule!Spec
=============================================================================
