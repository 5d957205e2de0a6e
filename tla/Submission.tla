----------------------------- MODULE Submission -----------------------------
(***************************************************************************)
(* The creation of a Volcano job by a member of an account (the create     *)
(* handlers of internal/handler/vcjob with the limits of                   *)
(* pkg/aitaskctl/utils.go).  The limits are checked against the table      *)
(* jobs; the job is created in the cluster, and its row is written by the  *)
(* reconciler when it sees the job, later.  What the member may do with    *)
(* the account's files is in the token, and is compared with the table     *)
(* when the request begins.  One user, one account and one resource.       *)
(***************************************************************************)
EXTENDS Naturals, FiniteSets, FiniteSetsExt

CONSTANTS JobSlots,     \* jobs that are ever created
          Submits,      \* create requests in progress at one time
          MaxAmount,    \* bound: what a task asks of the resource
          MaxReplicas,  \* bound: replicas of a task
          MaxAdmin      \* bound: changes by administrators

ASSUME SubmissionAssumption ==
    /\ IsFiniteSet(JobSlots)
    /\ MaxAmount \in Nat \ {0} /\ MaxReplicas \in Nat \ {0} /\ MaxAdmin \in Nat

VARIABLES
    quota,       \* the member's quota of the resource, and of jupyter jobs
    mode,        \* the member's access mode in the table user_accounts
    tokenMode,   \* the access mode in the member's token
    vcjob,       \* the jobs
    submit,      \* requests
    adminSteps   \* changes by administrators left

submissionVars == <<quota, mode, tokenMode, vcjob, submit, adminSteps>>

-----------------------------------------------------------------------------
NoLimit == 1000
Modes == {"RO", "RW"}
\* What is asked for.  The space is mounted the same way for every kind of job.
Work == [kind : {"jupyter"}, amount : 1..MaxAmount, replicas : {1}, mounts : BOOLEAN]
        \cup [kind : {"training"}, amount : 1..MaxAmount, replicas : 1..MaxReplicas, mounts : {FALSE}]

NoJob  == [state |-> "none"]
Waits  == [pc |-> "idle"]
Quotas == [amount : (1..MaxAmount) \cup {NoLimit}, jupyter : {1, NoLimit}]

SubmissionInit ==
    /\ quota = [amount |-> NoLimit, jupyter |-> NoLimit]
    /\ mode = "RW" /\ tokenMode = "RW"
    /\ vcjob = [j \in JobSlots |-> NoJob]
    /\ submit = [s \in Submits |-> Waits]
    /\ adminSteps = MaxAdmin

OccupyingStatuses == {"Pending", "Running"}

\* Mutant: jobs that wait are not counted.
Recorded_Running == {j \in JobSlots : vcjob[j].state = "Running"}

\* The rows of the table that count: a job whose row is not written yet does not.
Recorded == {j \in JobSlots : vcjob[j].state \in OccupyingStatuses}
InCluster == {j \in JobSlots : vcjob[j].state \in {"created", "Pending", "Running"}}

\* The resources of a row are those of all replicas (generateCreateJobModel).
Resources(jobs) == MapThenSumSet(LAMBDA j : vcjob[j].amount, jobs)
Jupyters(jobs) == Cardinality({j \in jobs : vcjob[j].kind = "jupyter"})

SetSubmit(s, new) == submit' = [submit EXCEPT ![s] = new]
Disturbed == submit' = [s \in Submits |-> IF submit[s] = Waits THEN Waits
                                          ELSE [submit[s] EXCEPT !.alone = FALSE]]

-----------------------------------------------------------------------------
(* Administration and login *)

UpdateUserProject(q, m) ==
    /\ adminSteps > 0 /\ <<q, m>> # <<quota, mode>>
    /\ quota' = q /\ mode' = m
    /\ adminSteps' = adminSteps - 1
    /\ Disturbed
    /\ UNCHANGED <<tokenMode, vcjob>>

Login ==
    /\ tokenMode # mode
    /\ tokenMode' = mode
    /\ UNCHANGED <<quota, mode, vcjob, submit, adminSteps>>

-----------------------------------------------------------------------------
(* A create request *)

Begin(s, work, token) ==
    LET others == {t \in Submits \ {s} : submit[t] # Waits}
    IN  submit' = [t \in Submits |->
            IF t = s THEN [pc |-> "jupyter", work |-> work, token |-> token, begun |-> mode,
                           alone |-> others = {} /\ \A j \in JobSlots : vcjob[j].state # "created"]
            ELSE IF submit[t] = Waits THEN Waits ELSE [submit[t] EXCEPT !.alone = FALSE]]

\* Mutant: the access mode of the token is not compared with the table.
AuthProtected_RoleOnly(s, work) ==
    /\ submit[s] = Waits
    /\ Begin(s, work, tokenMode)
    /\ UNCHANGED <<quota, mode, tokenMode, vcjob, adminSteps>>

\* AuthProtected, for a POST: a token that does not say what the table says is refused.
AuthProtected(s, work) ==
    /\ submit[s] = Waits
    /\ tokenMode = mode
    /\ Begin(s, work, tokenMode)
    /\ UNCHANGED <<quota, mode, tokenMode, vcjob, adminSteps>>

\* CheckJupyterLimitBeforeCreateJupyter, for jupyter jobs only.
CheckJupyterLimit(s) ==
    /\ submit[s].pc = "jupyter"
    /\ SetSubmit(s, IF submit[s].work.kind = "jupyter" /\ Jupyters(Recorded) >= quota.jupyter
                    THEN Waits ELSE [submit[s] EXCEPT !.pc = "resources"])
    /\ UNCHANGED <<quota, mode, tokenMode, vcjob, adminSteps>>

\* CheckResourcesBeforeCreateJob: the rows, and the tasks of the request, each
\* once, whatever their replicas.
CheckResources(s) ==
    /\ submit[s].pc = "resources"
    /\ SetSubmit(s, IF Resources(Recorded) + submit[s].work.amount > quota.amount
                    THEN Waits ELSE [submit[s] EXCEPT !.pc = "create"])
    /\ UNCHANGED <<quota, mode, tokenMode, vcjob, adminSteps>>

\* A query of the quota or of the rows that fails: nothing is exceeded, and the handlers
\* go on.
LookupFails(s) ==
    /\ submit[s].pc = "resources"
    /\ SetSubmit(s, [submit[s] EXCEPT !.pc = "create", !.alone = FALSE])
    /\ UNCHANGED <<quota, mode, tokenMode, vcjob, adminSteps>>

\* The job is created, with the account's space mounted as the token says.
CreateVcJob(s, j) ==
    /\ submit[s].pc = "create" /\ vcjob[j] = NoJob
    /\ vcjob' = [vcjob EXCEPT ![j] = [state |-> "created", kind |-> submit[s].work.kind,
                                     amount |-> submit[s].work.amount * submit[s].work.replicas,
                                     writes |-> submit[s].work.mounts /\ submit[s].token = "RW"]]
    /\ submit' = [t \in Submits |-> IF t = s \/ submit[t] = Waits THEN Waits
                                    ELSE [submit[t] EXCEPT !.alone = FALSE]]
    /\ UNCHANGED <<quota, mode, tokenMode, adminSteps>>

\* The jupyter jobs cannot be counted; an email that is not verified, a mount that is
\* not resolved, a creation that fails.
SubmitFails(s) ==
    /\ \/ submit[s].pc = "jupyter" /\ submit[s].work.kind = "jupyter"
       \/ submit[s].pc = "create"
    /\ SetSubmit(s, Waits)
    /\ UNCHANGED <<quota, mode, tokenMode, vcjob, adminSteps>>

\* The reconciler writes the row, and follows the job (VcJob has it in detail).
Record(j, state) ==
    /\ \/ vcjob[j].state = "created" /\ state \in {"Pending", "Running", "Completed"}
       \/ vcjob[j].state = "Pending" /\ state \in {"Running", "Completed"}
       \/ vcjob[j].state = "Running" /\ state \in {"Pending", "Completed"}
    /\ vcjob' = [vcjob EXCEPT ![j].state = state]
    /\ UNCHANGED <<quota, mode, tokenMode, submit, adminSteps>>

-----------------------------------------------------------------------------
SubmissionNext ==
    \/ \E q \in Quotas, m \in Modes : UpdateUserProject(q, m)
    \/ Login
    \/ \E s \in Submits, work \in Work : AuthProtected(s, work)
    \/ \E s \in Submits : CheckJupyterLimit(s) \/ CheckResources(s) \/ LookupFails(s) \/ SubmitFails(s)
    \/ \E s \in Submits, j \in JobSlots : CreateVcJob(s, j)
    \/ \E j \in JobSlots, state \in {"Pending", "Running", "Completed"} : Record(j, state)

SubmissionSpec == SubmissionInit /\ [][SubmissionNext]_submissionVars

-----------------------------------------------------------------------------
(* Properties *)

Created(s, j) == vcjob[j] = NoJob /\ vcjob'[j] # NoJob /\ submit[s].pc = "create" /\ submit'[s] = Waits

\* A request that was alone, with the rows of all jobs written and no change of
\* the limits meanwhile, does not take the member over the limits, when its tasks
\* have one replica and its lookups were answered: not of the resource and not of
\* jupyter jobs.  The check sees the table and the limit is about the cluster, which
\* runs ahead of it; and a failed query lets any request through.
WithinLimits == [][
    \A s \in Submits, j \in JobSlots :
        Created(s, j) /\ submit[s].alone /\ submit[s].work.replicas = 1 =>
            /\ Resources(InCluster)' <= quota.amount
            /\ submit[s].work.kind = "jupyter" => Jupyters(InCluster)' <= quota.jupyter ]_submissionVars

\* A member whose rights in the account were reduced gets no job that writes the
\* account's files by a request that begins afterwards, although the token still
\* has the rights of before.
ReducedRightsHold == [][
    \A s \in Submits, j \in JobSlots :
        Created(s, j) /\ vcjob'[j].writes => submit[s].begun = "RW" ]_submissionVars

-----------------------------------------------------------------------------
(* The inductive invariant: a request that is alone has every job's row in  *)
(* the table that it checked.                                               *)

VcJobRow == [state : {"created", "Pending", "Running", "Completed"}, kind : {"jupyter", "training"},
             amount : Nat, writes : BOOLEAN]
\* alone is history: no other request, no change of the limits, no failed query.
SubmitCall == [pc : {"jupyter", "resources", "create"}, work : Work, token : Modes, begun : Modes,
               alone : BOOLEAN]

SubmissionTypeOK ==
    /\ quota \in Quotas /\ mode \in Modes /\ tokenMode \in Modes /\ adminSteps \in 0..MaxAdmin
    /\ vcjob \in [JobSlots -> {NoJob} \cup VcJobRow]
    /\ submit \in [Submits -> {Waits} \cup SubmitCall]

TokenAsBegun == \A s \in Submits : submit[s] # Waits => submit[s].token = submit[s].begun

\* What the checks that the request has passed say.
Checked(s) ==
    /\ submit[s].pc # "jupyter" /\ submit[s].work.kind = "jupyter" => Jupyters(Recorded) < quota.jupyter
    /\ submit[s].pc = "create" => Resources(Recorded) + submit[s].work.amount <= quota.amount

AloneIsChecked == \A s \in Submits :
    submit[s] # Waits /\ submit[s].alone =>
        /\ \A t \in Submits \ {s} : submit[t] = Waits
        /\ \A j \in JobSlots : vcjob[j].state # "created"
        /\ Checked(s)

SubmissionInv == SubmissionTypeOK /\ TokenAsBegun /\ AloneIsChecked
=============================================================================
