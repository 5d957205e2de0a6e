-------------------------- MODULE MCTaskController --------------------------
(* Instances of TaskController for TLC.                                    *)
EXTENDS TaskController, TLC

MCResources == {"gpu", "cpu"}

Gpu(n) == [k \in {"gpu"} |-> n]
GpuCpu(n, m) == ("gpu" :> n) @@ ("cpu" :> m)

MCInitQuota == Gpu(2)
MCQuotaLowered == {Gpu(1)}
MCNoQuotaChoices == {}

\* Two guaranteed tasks of one account, too large to run together.
MCRequestTwo == (1 :> Gpu(1)) @@ (2 :> Gpu(2))
MCSLOTwo == (1 :> 1) @@ (2 :> 1)
MCOwnerTwo == (1 :> "A") @@ (2 :> "A")

\* A guaranteed Jupyter task and a best-effort task of the account that
\* exists from the start, and a task of an account that is created later, of
\* a service level that no queue knows.
MCRequestMixed == (1 :> Gpu(1)) @@ (2 :> GpuCpu(1, 1)) @@ (3 :> Gpu(1))
MCSLOMixed == (1 :> 1) @@ (2 :> 0) @@ (3 :> 2)
MCOwnerMixed == (1 :> "A") @@ (2 :> "A") @@ (3 :> "B")
=============================================================================
