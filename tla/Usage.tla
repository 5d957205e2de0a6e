--------------------------------- MODULE Usage ---------------------------------
(***************************************************************************)
(* The pages that say how much of a resource is used: a member's quota     *)
(* page (internal/handler/context.go), the page of his account             *)
(* (account.go), the page of the account's EMIAS tasks (aijob/emias.go)    *)
(* and the pages of the nodes (node.go, pkg/crclient/nodeclient.go).  Each *)
(* reads another source, and the sources follow the cluster at their own   *)
(* pace: the rows written by the reconciler, the status Volcano writes     *)
(* into the queue, the counters of the task controller, the pods, what     *)
(* Prometheus last collected.  One account, one node, one resource.        *)
(***************************************************************************)
EXTENDS Integers, FiniteSets, FiniteSetsExt

CONSTANTS Members,      \* of the account
          UsageJobs,    \* jobs that are ever submitted
          UsageTasks,   \* EMIAS tasks that are ever admitted
          JobAmount     \* what each of them asks of the resource

VARIABLES
    limits,      \* what the account's quota and the table resources say of the resource
    work,        \* the jobs of the cluster: member, amount and phase
    rowPhase,    \* the status in each job's row
    allocated,   \* status.allocated of the account's queue
    podPhase,    \* the pods of jobs and tasks, on the node
    task,        \* the admitted tasks: amount and SLO
    counters,    \* HardUsed and SoftUsed of the task controller
    collected    \* the jobs whose pods Prometheus last saw on the node's GPUs

usageVars == <<limits, work, rowPhase, allocated, podPhase, task, counters, collected>>

NotSubmitted == [member |-> "none", amount |-> 0, phase |-> "none"]
NotAdmitted == [amount |-> 0, slo |-> "none"]
Workloads == UsageJobs \cup UsageTasks

ASSUME UsageAssumption ==
    /\ IsFiniteSet(Members) /\ IsFiniteSet(UsageJobs) /\ IsFiniteSet(UsageTasks)
    /\ UsageJobs \cap UsageTasks = {}
    /\ \A w \in Workloads : JobAmount[w] \in Nat

UsageInit ==
    /\ limits \in [deserved : BOOLEAN, capability : {0, 3}, total : {4}]
    /\ work = [j \in UsageJobs |-> NotSubmitted]
    /\ rowPhase = [j \in UsageJobs |-> "none"]
    /\ allocated = 0
    /\ podPhase = [w \in Workloads |-> "none"]
    /\ task = [t \in UsageTasks |-> NotAdmitted]
    /\ counters = [hard |-> 0, soft |-> 0]
    /\ collected = {}

Sum(f, S) == MapThenSumSet(LAMBDA x : f[x].amount, S)

-----------------------------------------------------------------------------
(* The pages.  A quantity that is not shown is 0.                          *)

\* Mutant: jobs that ended are counted too.
Counted_Any(j) == rowPhase[j] # "none"

\* A member's page: the jobs whose rows say they wait or run.
Counted(j) == rowPhase[j] \in {"Running", "Pending"}

\* The capability of the member is only shown beside something allocated.
ContextGetQuota(m) ==
    LET used == Sum(work, {j \in UsageJobs : work[j].member = m /\ Counted(j)})
    IN  [allocated |-> used, capability |-> IF used > 0 THEN limits.capability ELSE 0]

\* The capability comes from the queue, or from the table resources.
Capability(shown) == IF ~shown THEN 0 ELSE IF limits.capability > 0 THEN limits.capability ELSE limits.total

\* What the queue does not have allocated is not shown.
AccountGetQuota == [allocated |-> allocated, capability |-> Capability(allocated > 0)]

\* The hard and the soft use together, of what the quota says is deserved.
EmiasGetQuota ==
    [allocated |-> IF limits.deserved THEN counters.hard + counters.soft ELSE 0,
     capability |-> Capability(limits.deserved)]

OnNode == {w \in Workloads : podPhase[w] # "none"}
PodRequest(w) == IF w \in UsageJobs THEN work[w].amount ELSE task[w].amount

\* Every pod on the node counts, one that has ended too.
ListNodes == [used |-> MapThenSumSet(PodRequest, OnNode), workloads |-> OnNode]

\* The pods of the node, each with its phase (its job's lock is left out).
GetPodsForNode == {[pod |-> w, phase |-> podPhase[w]] : w \in OnNode}

\* The jobs of the busy GPUs of the node: those whose pods Prometheus has collected.
\* A query that fails is answered with no metrics, and the page names no job.
GetNodeGPUInfo(answered) == IF answered THEN collected ELSE {}

-----------------------------------------------------------------------------
(* What moves.                                                             *)

Submit(j, m) ==
    /\ work[j] = NotSubmitted
    /\ work' = [work EXCEPT ![j] = [member |-> m, amount |-> JobAmount[j], phase |-> "Pending"]]
    /\ UNCHANGED <<limits, rowPhase, allocated, podPhase, task, counters, collected>>

\* The job runs, restarts or ends; a pod that ended stays until it is removed.
JobMoves(j) ==
    /\ \/ /\ work[j].phase \in {"Pending", "Restarting"}
          /\ work' = [work EXCEPT ![j].phase = "Running"]
          /\ podPhase' = [podPhase EXCEPT ![j] = "Running"]
       \/ /\ work[j].phase = "Running" /\ work' = [work EXCEPT ![j].phase = "Restarting"]
          /\ podPhase' = [podPhase EXCEPT ![j] = "none"]
       \/ /\ work[j].phase = "Running" /\ work' = [work EXCEPT ![j].phase = "Completed"]
          /\ podPhase' = [podPhase EXCEPT ![j] = "Succeeded"]
    /\ UNCHANGED <<limits, rowPhase, allocated, task, counters, collected>>

PodIsRemoved(w) ==
    /\ podPhase[w] = "Succeeded" /\ podPhase' = [podPhase EXCEPT ![w] = "none"]
    /\ UNCHANGED <<limits, work, rowPhase, allocated, task, counters, collected>>

\* The reconciler writes the phase into the row.
RowFollows(j) ==
    /\ rowPhase[j] # work[j].phase /\ rowPhase' = [rowPhase EXCEPT ![j] = work[j].phase]
    /\ UNCHANGED <<limits, work, allocated, podPhase, task, counters, collected>>

\* Volcano writes into the queue what its running jobs hold.
Holding == Sum(work, {j \in UsageJobs : work[j].phase = "Running"})
QueueFollows ==
    /\ allocated # Holding /\ allocated' = Holding
    /\ UNCHANGED <<limits, work, rowPhase, podPhase, task, counters, collected>>

\* Prometheus collects the GPUs' metrics and the pods of the jobs.
OnGPUs == {j \in UsageJobs : podPhase[j] = "Running"}
Scrape ==
    /\ collected # OnGPUs /\ collected' = OnGPUs
    /\ UNCHANGED <<limits, work, rowPhase, allocated, podPhase, task, counters>>

\* A task is admitted and counted, and runs; it ends, and is released later.
TaskRuns(t, slo) ==
    /\ task[t] = NotAdmitted
    /\ task' = [task EXCEPT ![t] = [amount |-> JobAmount[t], slo |-> slo]]
    /\ counters' = [counters EXCEPT ![slo] = @ + JobAmount[t]]
    /\ podPhase' = [podPhase EXCEPT ![t] = "Running"]
    /\ UNCHANGED <<limits, work, rowPhase, allocated, collected>>

TaskEnds(t) ==
    /\ podPhase[t] = "Running" /\ podPhase' = [podPhase EXCEPT ![t] = "Succeeded"]
    /\ UNCHANGED <<limits, work, rowPhase, allocated, task, counters, collected>>

TaskReleased(t) ==
    /\ task[t] # NotAdmitted /\ podPhase[t] # "Running" /\ task[t].slo # "released"
    /\ counters' = [counters EXCEPT ![task[t].slo] = @ - task[t].amount]
    /\ task' = [task EXCEPT ![t].slo = "released"]
    /\ UNCHANGED <<limits, work, rowPhase, allocated, podPhase, collected>>

UsageNext ==
    \/ \E j \in UsageJobs : \/ \E m \in Members : Submit(j, m)
                            \/ JobMoves(j) \/ RowFollows(j)
    \/ \E w \in Workloads : PodIsRemoved(w)
    \/ \E t \in UsageTasks : \/ \E slo \in {"hard", "soft"} : TaskRuns(t, slo)
                             \/ TaskEnds(t) \/ TaskReleased(t)
    \/ QueueFollows
    \/ Scrape

-----------------------------------------------------------------------------

\* Nothing is between two phases, and every source has caught up.
CaughtUp ==
    /\ \A j \in UsageJobs : rowPhase[j] = work[j].phase /\ work[j].phase # "Restarting"
    /\ allocated = Holding
    /\ collected = OnGPUs
    /\ \A t \in UsageTasks : task[t] # NotAdmitted =>
          (task[t].slo = "released" <=> podPhase[t] # "Running")
    /\ \A w \in Workloads : podPhase[w] # "Succeeded"

Waiting == Sum(work, {j \in UsageJobs : work[j].phase = "Pending"})
OnPages == MapThenSumSet(LAMBDA m : ContextGetQuota(m).allocated, Members)

\* When the sources have caught up the pages add up: what the members see is
\* what their account has allocated and what waits, and the nodes hold what
\* the account and its tasks use; the GPU page, when Prometheus answers, and the pod page
\* name the same jobs.
PagesAddUp ==
    CaughtUp =>
        /\ OnPages = AccountGetQuota.allocated + Waiting
        /\ limits.deserved => ListNodes.used = AccountGetQuota.allocated + EmiasGetQuota.allocated
        /\ {p.pod : p \in GetPodsForNode} \cap UsageJobs = GetNodeGPUInfo(TRUE)

-----------------------------------------------------------------------------
(* What is inductive of it. *)

UsageSpec == UsageInit /\ [][UsageNext]_usageVars

WorkPhases == {"none", "Pending", "Running", "Restarting", "Completed"}

UsageTypeOK ==
    /\ limits \in [deserved : BOOLEAN, capability : {0, 3}, total : {4}]
    /\ work \in [UsageJobs -> [member : Members \cup {"none"}, amount : Nat, phase : WorkPhases]]
    /\ rowPhase \in [UsageJobs -> WorkPhases]
    /\ allocated \in Nat
    /\ podPhase \in [Workloads -> {"none", "Running", "Succeeded"}]
    /\ task \in [UsageTasks -> [amount : Nat, slo : {"none", "hard", "soft", "released"}]]
    /\ counters \in [hard : Int, soft : Int]
    /\ collected \subseteq UsageJobs

\* A job has a member, and pods while it runs and until those that ended are removed.
PodsFollowJobs == \A j \in UsageJobs :
    /\ work[j].phase # "none" => work[j].member \in Members
    /\ work[j].phase = "Running" <=> podPhase[j] = "Running"

\* Only an admitted task has a pod.
PodsFollowTasks == \A t \in UsageTasks :
    task[t].slo = "none" => task[t] = NotAdmitted /\ podPhase[t] = "none"

\* The counters count the tasks that are not released.
WithSLO(slo) == {t \in UsageTasks : task[t].slo = slo}
CountersCount == /\ counters.hard = Sum(task, WithSLO("hard"))
                 /\ counters.soft = Sum(task, WithSLO("soft"))

UsageInv == UsageTypeOK /\ PodsFollowJobs /\ PodsFollowTasks /\ CountersCount
================================================================================
