------------------------------- MODULE Quota -------------------------------
(***************************************************************************)
(* The quota cache entry of one account (QuotaInfo, pkg/aitaskctl/         *)
(* quota.go): the hard limit, what guaranteed and best-effort tasks use,   *)
(* and the tasks counted.  A task's SLO and request never change once the  *)
(* row is written, so the map of task pointers is a set of task ids.       *)
(***************************************************************************)
EXTENDS ResourceList, FiniteSetsExt

CONSTANTS Tasks,          \* task ids, in the order of their creation
          SLO,            \* SLO[t]: the service level the request asked for
          Request         \* Request[t]: the resource list of task t

HighSLO == 1
LowSLO == 0

ASSUME TasksAreNumbers == Tasks \subseteq Nat \ {0}
ASSUME SLOType == SLO \in [Tasks -> Nat]
ASSUME RequestType == \A t \in Tasks : IsNatResourceList(Request[t])

IsQuotaInfo(info) ==
    /\ info \in [loaded : BOOLEAN, Hard : {info.Hard}, HardUsed : {info.HardUsed},
                 SoftUsed : {info.SoftUsed}, UsedTasks : SUBSET Tasks]
    /\ IsNatResourceList(info.Hard)
    /\ IsResourceList(info.HardUsed)
    /\ IsResourceList(info.SoftUsed)

\* The total that a set of tasks requests.
SumRequests(S) ==
    FoldSet(LAMBDA t, total : AddResourceList(total, Request[t]), EmptyList, S)

\* No entry in the sync.Map.
NoQuotaInfo == [loaded |-> FALSE, Hard |-> EmptyList, HardUsed |-> EmptyList,
                SoftUsed |-> EmptyList, UsedTasks |-> {}]

\* A fresh entry, before the loop that counts the tasks of the database.
NewQuotaInfo(hard) == [NoQuotaInfo EXCEPT !.loaded = TRUE, !.Hard = hard]

\* Mutant: every task is charged to the hard quota.
AddTask_AnySLO(info, t) ==
    IF t \in info.UsedTasks THEN info
    ELSE [info EXCEPT !.UsedTasks = @ \cup {t}, !.HardUsed = AddResourceList(@, Request[t])]

\* Counts t unless it is already counted.
AddTask(info, t) ==
    IF t \in info.UsedTasks THEN info
    ELSE [info EXCEPT
            !.UsedTasks = @ \cup {t},
            !.HardUsed = IF SLO[t] = HighSLO THEN AddResourceList(@, Request[t]) ELSE @,
            !.SoftUsed = IF SLO[t] = LowSLO THEN AddResourceList(@, Request[t]) ELSE @]

\* Stops counting t, if it is counted.
DeleteTask(info, t) ==
    IF t \notin info.UsedTasks THEN info
    ELSE [info EXCEPT
            !.UsedTasks = @ \ {t},
            !.HardUsed = IF SLO[t] = HighSLO THEN SubResourceList(@, Request[t]) ELSE @,
            !.SoftUsed = IF SLO[t] = LowSLO THEN SubResourceList(@, Request[t]) ELSE @]

\* The entry counts what its tasks request, level by level.
Accounted(info) ==
    \A k \in Resources :
        LET total(level) == Quantity(SumRequests({t \in info.UsedTasks : SLO[t] = level}), k)
        IN  Quantity(info.HardUsed, k) = total(HighSLO) /\ Quantity(info.SoftUsed, k) = total(LowSLO)

\* A best-effort task is never held back by the hard quota.
CheckHardQuotaExceed(info, t) ==
    /\ SLO[t] # LowSLO
    /\ CheckResourceListExceed(info.Hard, info.HardUsed, Request[t])
=============================================================================
