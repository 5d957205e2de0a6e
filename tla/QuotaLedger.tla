---------------------------- MODULE QuotaLedger ----------------------------
(***************************************************************************)
(* What the task controller promises about quotas: a ledger for each       *)
(* account, in which a guaranteed task is entered only if all guaranteed   *)
(* tasks entered fit into the limit, as if checking and entering were one  *)
(* step.  The limit is the quota the account had when its ledger was       *)
(* opened.  All ledgers may be lost; opening one anew enters the tasks     *)
(* that were found running, whether or not they fit.                       *)
(***************************************************************************)
CONSTANTS Tasks, Accounts,
          Owner,        \* Owner[t]: the account that pays for t
          Guaranteed,   \* the tasks that a limit holds for
          Quotas,       \* the quotas an account may be given
          Fits(_, _)    \* a set of tasks fits into a quota

VARIABLES quota,    \* the quota of each account
          limit,    \* the limit of each open ledger
          listed,   \* tasks found running that are still to be entered
          counted   \* the tasks entered, in all ledgers

vars == <<quota, limit, listed, counted>>

Of(a) == {t \in Tasks : Owner[t] = a}

\* The ledger of a is open and everything found running is entered.
Ready(a) == a \in DOMAIN limit /\ listed \cap Of(a) = {}

Closed == [a \in {} |-> {}]

Init ==
    /\ quota \in [Accounts -> Quotas]
    /\ limit = Closed
    /\ listed = {} /\ counted = {}

SetQuota(a, q) ==
    /\ quota' = [quota EXCEPT ![a] = q]
    /\ UNCHANGED <<limit, listed, counted>>

Open(a) ==
    /\ a \notin DOMAIN limit
    /\ limit' = [b \in DOMAIN limit \cup {a} |-> IF b = a THEN quota[a] ELSE limit[b]]
    /\ \E found \in SUBSET Of(a) : listed' = listed \cup found
    /\ UNCHANGED <<quota, counted>>

Enter(t) ==
    /\ t \in listed
    /\ listed' = listed \ {t}
    /\ counted' = counted \cup {t}
    /\ UNCHANGED <<quota, limit>>

Admit(t) ==
    /\ t \notin counted
    /\ counted' = counted \cup {t}
    /\ Ready(Owner[t])
    /\ t \in Guaranteed =>
         Fits(limit[Owner[t]], (counted \cap Of(Owner[t]) \cap Guaranteed) \cup {t})
    /\ UNCHANGED <<quota, limit, listed>>

Release(t) ==
    /\ t \in counted
    /\ counted' = counted \ {t}
    /\ Ready(Owner[t])
    /\ UNCHANGED <<quota, limit, listed>>

Lose ==
    /\ counted' = {} /\ listed' = {}
    /\ limit' = Closed
    /\ UNCHANGED quota

Next ==
    \/ \E a \in Accounts : Open(a) \/ \E q \in Quotas : SetQuota(a, q)
    \/ \E t \in Tasks : Enter(t) \/ Admit(t) \/ Release(t)
    \/ Lose

Spec == Init /\ [][Next]_vars
=============================================================================
