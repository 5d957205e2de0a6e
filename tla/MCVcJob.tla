------------------------------ MODULE MCVcJob ------------------------------
(***************************************************************************)
(* Instances of VcJob.  Jobs share no state but the process, so one job    *)
(* meets every interleaving of its own actors, and two are enough for the  *)
(* crash that ends the calls of both.                                      *)
(***************************************************************************)
EXTENDS VcJob

\* A process that keeps running: GoneIsMarked is about one that starts anew.
MCLiveSpec == Init /\ [][\E j \in Jobs : JobStep(j)]_vars /\ Fairness
=============================================================================
