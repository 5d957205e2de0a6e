---------------------------- MODULE ResourceList ----------------------------
(***************************************************************************)
(* Kubernetes resource lists (v1.ResourceList) and the four helpers that   *)
(* pkg/aitaskctl/utils.go defines on them.  A list is a partial function   *)
(* from resource names to quantities: the code tells a resource that is    *)
(* absent from one whose quantity is zero, and so does this module.        *)
(***************************************************************************)
EXTENDS Integers

CONSTANT Resources        \* resource names: "cpu", "nvidia.com/gpu", ...

\* Lists of usages: a quantity may be anything a subtraction leaves.
IsResourceList(list) ==
    DOMAIN list \subseteq Resources /\ list \in [DOMAIN list -> Int]

\* Lists a request or a quota may hold: no quantity is negative.
IsNatResourceList(list) ==
    DOMAIN list \subseteq Resources /\ list \in [DOMAIN list -> Nat]

\* The empty list, v1.ResourceList{}.
EmptyList == [k \in {} |-> 0]

\* The quantity of k, zero when the map has no such key.
Quantity(list, k) == IF k \in DOMAIN list THEN list[k] ELSE 0

\* a + b: every key of b enters a.
AddResourceList(a, b) ==
    [k \in DOMAIN a \cup DOMAIN b |-> Quantity(a, k) + Quantity(b, k)]

\* a - b: only the keys of a are kept, and they are kept even at zero.
SubResourceList(a, b) ==
    [k \in DOMAIN a |-> a[k] - Quantity(b, k)]

\* Mutant: only the request is compared with the limit.
CheckResourceListExceed_RequestOnly(hard, used, requested) ==
    \E k \in DOMAIN requested : k \notin DOMAIN hard \/ requested[k] > hard[k]

\* Some key of used + requested is above hard, or hard does not name it.
CheckResourceListExceed(hard, used, requested) ==
    LET total == AddResourceList(used, requested)
    IN  \E k \in DOMAIN total : k \notin DOMAIN hard \/ total[k] > hard[k]

\* Every key of used is named by hard and within it.
WithinHard(hard, used) ==
    \A k \in DOMAIN used : k \in DOMAIN hard /\ used[k] <= hard[k]
=============================================================================
