-------------------------------- MODULE MCJobs --------------------------------
(***************************************************************************)
(* What surrounds a job: its lock and the orders that extend it, the ways  *)
(* to reach its pod, its submission within the limits of its account, and  *)
(* the row of its user.  focus picks one of them at the start.             *)
(***************************************************************************)
EXTENDS JobLocks, Exposure, Submission, UserRows, TLC

VARIABLE focus   \* the part this behaviour is about

allVars == <<focus, lockVars, exposureVars, submissionVars, userRowVars>>

MCInit ==
    /\ focus \in {"locks", "exposure", "submission", "users"}
    /\ LockInit
    /\ ExposureInit
    /\ SubmissionInit
    /\ UserRowInit

MCNext ==
    \/ focus = "locks" /\ LockNext
       /\ UNCHANGED <<focus, exposureVars, submissionVars, userRowVars>>
    \/ focus = "exposure" /\ ExposureNext
       /\ UNCHANGED <<focus, lockVars, submissionVars, userRowVars>>
    \/ focus = "submission" /\ SubmissionNext
       /\ UNCHANGED <<focus, lockVars, exposureVars, userRowVars>>
    \/ focus = "users" /\ UserRowNext
       /\ UNCHANGED <<focus, lockVars, exposureVars, submissionVars>>

MCSpec == MCInit /\ [][MCNext]_allVars

MCJobPorts == <<"web">>
MCHours == {-1, 1}

\* Requests, Clients and Submits are given one set of values.
Symmetry == Permutations(Clients) \cup Permutations(JobSlots)
=============================================================================
