# Crater backend: a TLA+ model

Crater is the control plane of a GPU cluster: an HTTP server (`internal/handler`), a
database (`dao/model`), reconcilers that follow the cluster (`pkg/reconciler`), a scheduler
of its own for EMIAS tasks (`pkg/aitaskctl`), and periodic policies (`pkg/cronjob`,
`pkg/cleaner`). All of them share a few database tables and the objects of a Kubernetes
cluster, hardly anything is a transaction, and nearly everything that is hard about the code is
one of them acting on what another has changed in the meantime. This project models those
interactions.

`PROJECT.json` lists the components, the hazards with the line at which each one bites, the runs,
and for every definition the source lines it stands for.

## Inventory

| Component | State | What is hard |
|---|---|---|
| EMIAS task controller (`pkg/aitaskctl`) | task table, queue per account, quota cache, AIJobs | the quota is checked long before it is counted; two writers of the status; rebuilt after a crash |
| EMIAS handlers (`handler/aijob`) | none | insert and notification are two steps; delete works with a row read earlier |
| EMIAS profiler (`profiler.go`, `pkg/util/queue`) | keyed queue, profile status, pods | a queue without a lock between scheduler, profiler and handlers |
| Volcano jobs (`handler/vcjob`, `vcjob-reconciler.go`) | job table, cluster, informer cache | reconciler and delete handler write one row; events get lost |
| Job creation (`vcjob/util.go`, `aitaskctl/utils.go`, `middleware/jwt.go`) | rows, tokens | limits are checked against rows written later; tokens outlive rights; tasks share an affinity pointer |
| Job pages (`vcjob`, `aijob`, `spjob` handlers) | token cache | row, object and pods are asked one after the other |
| Services, ingresses, OpenSSH (`tool/podcontainer.go`, `pkg/packer`) | two objects for each rule | made and removed in two calls; repeated requests |
| Cleaner (`pkg/cleaner`) | list of a run, mails, records | a policy acts on a list read earlier, and may run twice at once |
| Locks and approval orders (`operations/lock.go`, `approvalorder.go`) | locked timestamp, orders | read, compute, write; check, extend, insert |
| Cron manager (`pkg/cronjob`) | configuration table, running entries | entries change inside a transaction that may roll back |
| Image build (`image/build.go`, `build-reconciler.go`) | build record, build job, image row | size, image and status are three writes; cancel meets success |
| Images and shares (`image/image.go`) | images, shares, a public flag | look for a share, then insert |
| Image registry (`pkg/imageregistry`) | Harbor account, project | removed and made anew in four calls |
| Accounts and membership (`account.go`, `user.go`, `auth.go`) | accounts, members, Volcano queues, tokens | row and queue are two stores; checks before transactions |
| Users (`context.go`, `user.go`, `auth.go`) | user rows | whole rows saved from a stale copy |
| Datasets (`dataset.go`) | datasets, shares | look for a share, then insert |
| Resources, nodes (`resource.go`, `node.go`, `crclient/nodeclient.go`) | resource table, links, marks of nodes | a sync of many statements; optimistic updates |
| Usage pages (`context.go`, `account.go`, `emias.go`, `node.go`) | none | four sources that follow the cluster at their own pace |
| Start-up (`cmd/crater`) | `RegisterConfig` | handed out by value while it is being filled |
| Migration (`cmd/gorm-gen/models/migrate.go`) | schema, records, seeds | no transaction around a step and its record |

## Modules

| Module | Models |
|---|---|
| `ResourceList`, `Quota` | `v1.ResourceList` with the helpers of `utils.go` (an absent resource is not a zero one); an entry of the quota cache |
| `TaskController` | the controller with all that shares state with it: task table, handlers, reconciler, AIJobs |
| `QuotaLedger` | what the controller promises about quotas (an abstract specification): a ledger for each account, in which a guaranteed task is admitted in one step, if it fits |
| `Profiler` | the keyed queue, the profiling loop and its pods, the profile status in the rows |
| `VcJob` | a Volcano job and its row: cluster, informer cache, reconciler, delete handler, cleaners' deletions, mails |
| `Cleaner` | runs of the three policies, with locks, reminders, records and the nil client |
| `JobLocks` | locks and approval orders |
| `Exposure` | services and ingresses of pods, OpenSSH, the garbage collector |
| `Submission` | checks of rights and limits before a job, and the rows that follow it |
| `UserRows` | one row of `users` under the handlers that save it whole |
| `Tenants` | accounts, members, Volcano queues, tokens |
| `Datasets` | datasets, their locations and shares |
| `PodSpecs` | volumes, mounts and affinity of the pods of a job, with the pointer the tasks share |
| `Builds` | build requests, build jobs, `BuildKitReconciler`, the image row, the pages of a build |
| `Images` | images, shares, publishing, and what users are shown |
| `Resources`, `Nodes` | the resource table and its links; labels, annotations and taints of nodes |
| `CronManager`, `CronSchedule` | the cron manager; what it promises (the abstract specification) |
| `Registry` | a user's account and project in Harbor |
| `Startup`, `Migration` | `main` and the life of the process; the migration that is run again |
| `JobPages`, `Usage` | what the pages of a job, and of what is used, answer |
| `MC*` | constants and compositions for TLC |
| `*Proofs` | theorems (below) |

Components that share no variable are checked in one run: `MCService`, `MCTenants`, `MCJobs` and
`MCPlatform` declare a variable `focus` that picks one at the start, so that the state space of such a
run is the sum of its parts and not their product. Each action is one stretch of code between two calls
that others can observe; `pc` fields are where a goroutine is.

### TaskController

`admitTask` is `Pick`, `CreateJobFromTask`, then `MarkCreated`, `UpdateJobName`, `AddQuota`, `DequeueTask`
(or `MarkFailed`, `DequeueTask`), and any step of the watcher or of a handler may come between two
of them. `db` is the task table (a row whose status is `"None"` does not exist yet); `userQueues`,
`hasQueue`, `quotaInfos` are the memory of the controller; `submit`, `del`, `sched`, `watch` are local states of
goroutines; `aijobs` and `events` are cluster and informer, whose actions are external.

Abstractions. A queue is the set of its tasks: the guaranteed loop of `schedule` takes each task that
still fits, in queue order, so over all orders it selects the maximal sets that fit (`Selections`).
The unlocked iteration over the queues is one step; the fatal map error Go may raise there is a
`Crash`. Two concurrent deletes of one task, two goroutines building the same missing quota entry, and
the node name column are left out.

### VcJob

Nobody owns the row of a job. Creation makes the job in the cluster only; the reconciler inserts and
updates the row when it sees the job, the delete handler deletes or marks it, a cleaner deletes the
job and leaves the row. `cluster` is the job in the API server, `cache` the informer's copy, which all Gets
of the backend read; `Inform` copies the object and raises the name (`dirty`). `row` is `none`, `live` or `soft`
(`deleted_at`, which queries skip and the unique index still sees). controller-runtime runs one call per
name and repeats it after an error; the one error the code swallows loses the event. Volcano's
transient phases are folded into Pending and Running.

### Cron manager

`rows` is the table, `cron` the entries of the scheduler with their ids, `synced` whether this process has loaded the
table, `lost` that a transaction failed after the entries had changed. `CronSchedule` knows what was asked for, what runs
under each name, and whether the manager is trusted to know it; a request takes effect at once or at the
next load. `KeepsSchedule` is the refinement: what runs under a name is the entry whose id the row holds. Ids are counted from 1
again after a restart while the table keeps the old ones, so an id in a row may then be that of another
configuration's entry; the manager is not trusted before it has loaded the table, which writes new ids into all active rows.

## Runs

| Run | Shows |
|---|---|
| `tasks_faults` | two tasks that do not fit together, failing calls, crashes, a quota that is lowered: the controller implements `QuotaLedger`, no AIJob created twice |
| `tasks_accounts` | three service levels, an account created late, failing calls: both counters exact |
| `tasks_live` | without faults every live AIJob is counted, and a queued task that fits is admitted in the end |
| `vcjob_faults` | a job with every fault: quiet rows are right, ends are final, deleted rows stay deleted, one mail each; beside it pages, usage, start-up, migration, registry |
| `vcjob_live` | the row of a job that is gone is settled in the end, though calls fail |
| `cleaner_runs` | two runs at once: a lock spares its job, one reminder is mailed once, deletions are recorded |
| `tenants` | accounts against queues and members, tokens, shares of datasets, pods that can run, the profile queue |
| `jobs` | locks and orders, rules of pods, submissions against limits and rights, users' rows |
| `platform` | builds, image shares, resources, marks of nodes, the cron manager and its refinement |
| `tasks_status`, `vcjob_restart`, `cron_suspended` | three statements of comments that the code does not keep (`findings`) |

### Bounds

* Tasks: two of one account that do not fit together make a check stale; three bring in the other service
  levels and an account without a queue. `MaxEvents` bounds the undelivered phases of an AIJob.
* One Volcano job: jobs share nothing but the process. One job for the cleaner, two runs: what
  can go wrong lies between two runs over one job. Without a client a run only shows the panic, so
  that part has no other faults.
* `MaxSlips`, `MaxMishaps`, `MaxErrors`, `MaxBuildErrors`, `MaxProfFaults`, `MaxHarborFaults`, `MaxMigrationFaults`,
  `MaxFaults` bound failing calls; one is enough to leave a half-done pair of writes behind, and a second
  failure in its repair is covered by the proofs, which have no bound.
* Locks: two instants and two requests, the least in which a lock expires or a window passes; `Hours = {1}` lies below
  `AutoHours`, so an order of a job is refused automatic approval by the window alone. A review's two decisions
  differ in nothing the properties see, so one is given.
* Submission: two jobs, amounts up to one, two replicas, one change by an administrator, two requests: a limit that two
  requests pass together needs no more. Users: one person, one edit value, two handlers at a time.
* Exposure: two pods (one replaces the other), an SSH port and a web port, two clients.
* Tenants: the default account and another, two requests, two membership rows. Datasets: one dataset, three share rows.
  `MaxMounts = 2`, `MaxTasks = 2`: two tasks are enough for what the first leaves in the shared affinity.
* Pages: `focus` fixes the row for tokens and events, whose answers do not depend on it. Two pods, replaced twice.
* Resources: two nodes, two resources, one link with fixed ends; virtual GPU ranges are compared with themselves only.
* Cron: two configurations, three entry ids. `MaxId` bounds entries ever added, restarts included.

`CHECK_DEADLOCK FALSE` stands where the system really rests: all requests answered, all jobs over. `Symmetry` permutes
requests or jobs that have equal roles, in runs without liveness only.

### Fairness

`TaskController`: `Boot`, `Load`, `Schedule`, `WatchRelease` and the handlers are steps of running goroutines (weak).
`WatchReceive` is strongly fair for each task: a channel is served in the order of its senders. Jobs are assumed to start
and end and the informer to resync; nobody has to submit, delete or preempt, and since preemption may
repeat for ever the ends of jobs are strongly fair. `VcJob`: the informer delivers and a raised name is reconciled
(weak); what the work queue repeats after an error is strongly fair: a database asked again and
again answers at last. `Builds`: the reconciler's steps, and a build job that ends or is dropped (weak); calls fail at most
`MaxBuildErrors` times, so weak fairness suffices.

## What is proved

Every theorem holds for all values of the constants: any number of tasks, jobs, users, requests and runs, all
requests and limits, every choice of faults, no bound on failures. The assumptions are the named `ASSUME`s of the
modules (bounds are natural numbers, `Owner` is a function, `EndPhases` are terminal, a new project has a quota, and the like). Each
argument has one inductive invariant, stated in the component's module as a conjunction of named parts;
TLC checked each of them on the run's instance before it was proved.

| Module | Invariant | Theorems about the runs' properties |
|---|---|---|
| `TaskControllerProofs` | `IInv`, `LedgerInv` | `AdmissionIsAtomic` (`KeepsLedger`), `CreatedAtMostOnce` (`LaunchedOnce`), `QuotaIsExact` (`QuotaAccounting`), `LiveJobsAreCounted` (`LiveJobsCounted`); `WithinHardQuota` |
| `VcJobProofs` | `IInv` | `RowsSynced`, `EndsAreFinal`, `DeletedRowsStay`, `OneEmail` |
| `PolicyProofs` | `CleanerInv`, `CronInv` | `LockedSpared`, `MailedOnce`, `DeletionsKnown`; `Refinement` (`KeepsSchedule`), and `Scheduling`, `Restartable`, `OthersKept` |
| `JobsProofs` | `UserRowInv`, `SubmissionInv`, `LockInv`, `UsageInv`, `ResourceInv` | `RowsKept`, `LimitsKept`, `ReducedRightsAreKept`, `ApprovedOnce`, `LocksOnlyGrowHolds`, `PagesAlwaysAddUp` (`PagesAddUp`), `SyncCopiesCluster` (`SyncedIsCluster`) |
| `ExposureProofs` | `ExposureInv` | `RulesAreWhole`, `SSHIsOpenedOnce` |
| `PlatformProofs` | one each for `Builds`, `Images`, `Nodes` | `BuildsShown`, `CancelWorks`, `MarksKept` |
| `TenantsProofs` | `TenantInv`, `DatasetInv`, `ProfilerInv`, `PodSpecInv` | `QueuesAlwaysMatch`, `NoneIsOrphaned`, `FreshTokensWork`, `ListsAreWhole`, `QueueKept`, `NoTaskForgotten`, `PodsAlwaysRun` (`PodsCanRun`) |
| `ServiceProofs` | one each for `Startup`, `Migration`, `Registry`, and `PagesInv` | `NothingIsMissing`, `ServedAfterSync`, `RecordsTellSchema`, `CredentialsWork`; `ListedJobsOpen` (`PagesAgree`), `OneToken` (`TokensAgree`), `EventsAreWhole` (`EventsComplete`) |

The arguments.

* **Quota check.** `CheckStillHolds` alone is not inductive: nobody else may *add* to the entry of the scheduler's
  account. Entries are added to by the scheduler and by the loop that fills a fresh one; an account with a queue
  has an entry that is filled (`QueuesLoaded`), and the scheduler works on such accounts only (`SchedulerShape`).
  All others subtract, and a subtraction cannot invalidate a check (`ReleaseStillFits`).
* **Quota ledger.** `QuotaLedger` knows a limit per account and the set of tasks that are counted, but no counters, no queues and no
  scheduler; it admits a task in one step, after which everything counted fits. The controller's counters are mapped away, its `Hard` is
  the limit, the entries' sets are the tasks counted, and what `AddOrUpdateQuotaInfo` has listed is still to be entered. A step of the
  controller is one of the ledger or a stutter: `AddQuota` is the admission (or counts what is counted already), which fits since the
  check still holds *and* the counters are exact; every release finds a filled entry. `LedgerInv` adds to this that an entry has
  tasks of its own account only, and none while it is not loaded (`EntriesOwned`). What it does not promise is what the code does not:
  a limit is the quota its account had when the entry was made (at a start, or late by `GetQuotaInfo`), and the tasks found running are entered whether or not they fit.
* **Created once.** An AIJob disappears only by a delete that knew its name (`GoneHadName`); the name is the last thing the
  scheduler writes, and from then on the task is out of its reach, also after a restart (`NamedIsDone`).
* **Exact usage.** What an entry counts is, resource by resource, the sum of the requests of the tasks in its sets. The sum over a
  set is a fold of the community modules, which is recursive; that it exists, is unique and does not depend on the order is
  proved by minimal counterexample over the size of the set, which needs no induction theorem with an operator
  parameter. `JobsProofs` uses the same lemmas for the sum of the recorded jobs, and for the pages and the resource table.
* **Live jobs are counted** when `Faults = {}`. A fault really breaks it: a crash between the AIJob and its row leaves a live job that
  no count knows. The invariant follows a task from the scheduler's hands to the count, and its completion through the
  watcher, which may be handled first.
* **Synced rows.** `QuietMeansSynced` speaks of the cluster and is not inductive. `SyncInv` relates the row to the *cache*, and
  the call in progress to the cache by "no event since: what was read is what the cache holds"
  (`CopiesInv`). `TerminalFinal` needs that nothing older than the end is still to be written: cluster, cache
  and call are copies of one another in this order (`Follows`, `EndInv`). `EmailOnce` needs the moment between the mail
  and its record (`MailInv`).
* **Cleaner.** A run's list was made at a moment; a lock that has held ever since cannot be on it, also when a read failed and left an
  empty list of locked jobs. `MailOnce` names the four ways a mail is repeated, and the invariant has the run that is between its
  check and its alert row.
* **Cron refinement.** Ids are unique and below the counter (`IdsUnique`, `IdsUsed`), a suspended row has none (`SuspendedNoId`), and once the
  table is loaded an active row has the id of an entry of its own (`ActiveIsScheduled`); so a removal by a stored id takes the
  entry of that name and no other, and each step is one of `CronSchedule` or a stutter.
* **Limits.** `WithinLimits` speaks of a request that is alone, with the rows of all jobs written and no change of limits meanwhile:
  the invariant carries, for such a request, that the sum it has checked is still the sum of the rows.
  Outside of these conditions the code does not keep the limit (see the observations). `ReducedRightsHold`: a member
  whose rights were reduced gets no job that writes the account's files by a request that begins
  afterwards, although his token still has the old rights.
* **One automatic approval.** Two orders approved without review in one window only if their requests overlapped; `OverlapIsMarked`
  and `NoRecentApproval` relate every request that may still be approved to the others and to the table.
* **Whole rules.** `ExposureInv` has: no object outlives its owner but for the collector (`OwnersBegun`), a name says what its
  object is (`KindsApart`), each object has one maker (`OneMaker`), the half that is missing is in the hand of a request
  (`HalvesAreInHand`), two openers of one pod meet (`OpenersMeet`), and the annotation says what is open
  (`OpenedByAnnotation`).
* **Builds, images, nodes.** What a record says was asked for, and what a container pushed, do not change once read; a cancelled
  share is gone from the rows that a request granted earlier can still insert; a copy of a node with the current version *is* the node.
* **Tenants.** `QueuesFollow` carries, for an account whose row and queue were not split by a failure or an overlap, the update
  that is between the two stores: it was written into the row and nothing else was written since. A row of the members has its
  account or the account was deleted while the member was being added (`AddedInTime`, `RowsHaveAccounts`). A fresh token carries the
  last row's account, and the middleware finds that row as long as the member has only one row there.
* **Datasets.** What is shared is there or was deleted meanwhile, which must be said of the requests too (`SharedIsThere`); the owner's
  share cannot be cancelled, for owners and accounts are different sharees (`OwnerHasShare`); a second share comes from a request that
  looked before the first was made (`SharedTwice`).
* **Profiler.** Along the path scheduler, queue, profiler, pod each holder lets go of a task only when the next has it: the pods in the
  profiler's hands are there unless their task is being deleted (`PodsAreThere`), a task that leaves the queue has a pod or a finished row,
  and one whose pod is removed is finished or submitted anew (`DoneWith`). The last holds because a task is submitted once in the life
  of the process (`SubmittedOnce`). A restart re-establishes all of it from any state. The keyed queue needs lemmas on sequences
  without repetitions: what appending, taking the last and removing one does to the set of keys.
* **Pods of a job.** The volumes are a fold over the sequence of mounts: its value after each prefix exists and is unique (again by
  smallest counterexample), has each claim once and the claims of exactly the mounts so far. `BuiltAsOrdered` says that a task's
  affinity is computed from the base as it was built, so no task sees another's architecture. Assumed are what the names of the code
  give: no claim is called as the fixed volumes are (`crater-cache`, `start-bash-script-volume`, `bash-script-volume`), and a
  selector asks for no architecture, which comes from the image.
* **What the pages add up.** The members' pages add up rows, the node's page pods, the queue's page what is allocated, the account's
  EMIAS page two counters that are moved up and down. `UsageInv` says which pods there are (`PodsFollowJobs`, `PodsFollowTasks`)
  and that the counters are sums over the tasks that hold resources (`CountersCount`); that the pages agree once the rows have
  caught up is then that sums over disjoint sets add up, by member, by phase and by kind of workload.
* **Resource table.** `SyncedIsCluster` is about a sync that began with no other one under way and during which nobody deleted a row.
  `AloneIsCopied` follows it through its three stages: what it is through with stands in the table with the sum and the
  maximum of what it has seen, and what it has not seen is out of the table or on its list to be dropped. Two syncs beside each other
  destroy this, so nobody else may be writing: `alone` is lost when a second one starts.
* **Pages of a job.** A token is written where a copy of the object had none, with the version of that copy: a write that succeeds
  met the object without a token (`WritesTheFirst`), for a copy with the object's version is the object (`CopiesAreOld`). What the events
  page has collected is whole for the pods it is through with (`CollectedSoFar`); it must be said separately for the time before the first
  event of a pod is found, as the code then throws away the job's own events.
* **Start-up, migration, registry.** A part holds the fields that were set when it was made, and `main` sets them in one order; the
  schema is what the recorded ids say, plus a prefix of the steps of the next; a credential that was answered last is that of the account
  made last unless a request is in progress.

### Only model-checked

* Liveness (`QueuedIsAdmitted`, `GoneIsSettled`, `BuildSettles`): ENABLED and fairness are out of the prover's reach.

Every invariant and action property of a passing run is stated by a theorem; the runs that expect a violation show theirs by a counterexample.

## Observations

What the model records of the code, beyond the findings of the three violation runs.

Jobs and cleaning
* A completion handled before the count is released first and counted afterwards, and stays counted until a resync
  repeats the phase (`controller.go:325`); a delete before the job name is written leaves the AIJob (`:166`); a
  failed Get of the job is not retried; `Freed` may overwrite `Deleted` (`vcjob-reconciler.go:163`); the Running mail is decided
  on the row as it was before the update.
* Queues of EMIAS accounts are made at start only; tasks of an account created later are dropped silently until a restart.
* The cron manager's cleaners hold a copy of `RegisterConfig` made before the client is set (`helper/config.go:85-92`, `:97`): each
  scheduled deletion dereferences nil. Seeds and cleaners disagree on the type `clean-waiting-jupyter(-job)`, and
  `"batchDays": "4"` does not decode into `*int`: two of the seeded configurations cannot be activated.
* The limits of a submission count recorded rows, and a parallel job's check ignores replicas. `PublicAccessMode` of a token is
  never compared with the table, and mode NA still mounts read-only. `AddLockTime` has no upper bound, approvals have.
* The profile queue is last-in first-out in spite of `fifoOrdering`; a restart forgets queued profiles; the profile of a pod that succeeded
  sets the task's status to Succeeded and the task is admitted again; a failed one leaves the row Queueing.

Services
* Two requests can give one port to two rules (`podcontainer.go:272` says the port must be unique). A failed ingress leaves a
  service that the API cannot delete. Deleting the SSH rule leaves the annotation, so OpenSSH answers a dead address.
  A replaced pod gets a second service. `checkUserPermissionForJob` looks the job up by another name.

Accounts, datasets, users
* Duplicate membership is possible, and login and the middleware then read different rows. The default account can be deleted when
  empty; an account without a queue cannot. Saving a stale row of a user takes back a role and revives a deleted user.
* Verification codes never expire, though the mail says ten minutes; updating an email writes only its verification time.
* `UpdateDataset` redirects a location that is stored already, and loses `Editable`; `ListUserOfDataset` dereferences nil for a
  missing user; lists of accounts do not filter deleted ones.

Images, builds, registry
* An administrator's build hands on neither platforms nor requirements; envd builds linux/amd64 whatever was asked for; a
  snapshot has no platforms and is shown as linux/amd64; it is pinned to the node in the job's row, which may be stale.
  Removing a finished build deletes the artifact of another build with the same link; a cancel that races with
  success leaves an artifact without a row; `getPodName` writes an error and the handler then answers success as well.
* A cancelled account share is looked up among users (`image.go:731-737`); the public flag may disagree with the share;
  searching ungranted users by name finds granted ones (precedence of OR and AND).
* Overlapping requests for a credential each delete the account the other made. `UpdateProjectQuota` answers success after an
  error and leaves `users.image_quota`.

Resources and pages
* A soft-deleted resource that is still in the cluster makes every `SyncResource` fail; a type change leaves wrong links; a link's
  minimum may exceed its maximum.
* A notebook token whose caching was refused is answered all the same, and a cached one outlives its pod. The events page of a sparse job
  keeps only the last pod's. Lists and details of EMIAS tasks disagree on deleted tasks' profile status and on rows without
  owner; administrators see tasks they cannot open. `GetAllJobsInDays` says 14 days and takes 7. `ToggleAlertState` reads, then
  writes. Node pages count ended pods as used.

Start and migration
* A signal after the manager's handler and before the server's is never seen by the server, which goes on alone; cache sync is not
  asked whether it succeeded. Every replica runs scheduler, profiler and cron manager, leader or not. `SMTP.Enable`
  and `Registry.Enable` are never consulted.
* `InitSchema` omits the two cron tables but records all ids, so a new database never gets them. A missing `CRATER_ADMIN_*` fails after
  the default account exists, and the run that follows cannot succeed. Steps that add a column cannot be repeated after a crash.

## Not modelled

Templates, tools and metrics handlers (rows that one handler writes; queries of Prometheus), the job types that forward to
external services, LDAP and the ACT service, contents of Dockerfiles, mails, names and labels, search and paging, the generated
query layer, API types and documents, and containers nothing reaches. `PROJECT.json` says for each component what is left out of it.
