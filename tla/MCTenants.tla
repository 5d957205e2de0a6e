------------------------------ MODULE MCTenants ------------------------------
(***************************************************************************)
(* Accounts with their members, datasets with their shares, how a pod      *)
(* mounts what an account and its datasets give, and how a best-effort     *)
(* task is profiled before it is scheduled.  focus picks one of them at    *)
(* the start.                                                              *)
(***************************************************************************)
EXTENDS Tenants, Datasets, PodSpecs, Profiler, TLC

VARIABLE focus   \* the part this behaviour is about

allVars == <<focus, tenantVars, datasetVars, podSpecVars, profVars>>

MCInit ==
    /\ focus \in {"tenants", "podspecs", "datasets", "profiling"}
    /\ TenantInit
    /\ IF focus = "podspecs" THEN PodSpecInit ELSE built = NothingBuilt /\ order = CHOOSE o \in Orders : TRUE
    /\ DatasetInit
    /\ ProfilerInit

MCNext ==
    \/ focus = "tenants" /\ TenantNext
       /\ UNCHANGED <<focus, datasetVars, podSpecVars, profVars>>
    \/ focus = "podspecs" /\ PodSpecNext
       /\ UNCHANGED <<focus, tenantVars, datasetVars, profVars>>
    \/ focus = "datasets" /\ DatasetNext
       /\ UNCHANGED <<focus, tenantVars, podSpecVars, profVars>>
    \/ focus = "profiling" /\ ProfilerNext
       /\ UNCHANGED <<focus, tenantVars, datasetVars, podSpecVars>>

MCSpec == MCInit /\ [][MCNext]_allVars

\* A shared folder is stored under a prefix of the same length as the one the
\* client gives; a user's folder under a longer one.
MCPrefix == [a \in Areas |-> IF a = "public" THEN "same" ELSE "longer"]

\* All best-effort tasks run the same command.
MCCommand == [t \in ProfileTasks |-> "a"]

\* Calls and Ops are given one set of values.
Symmetry == Permutations(Calls)
=============================================================================
