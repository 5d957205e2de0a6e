------------------------------ MODULE JobLocks ------------------------------
(***************************************************************************)
(* Locks of jobs and the approval orders that ask for them                 *)
(* (internal/handler/operations/lock.go, internal/handler/approvalorder.go)*)
(*                                                                         *)
(* A lock is the column locked_timestamp of the job's row.  Every handler  *)
(* that extends it reads the row, computes the new time and writes it      *)
(* back, with no transaction; an order is auto-approved by a check of the  *)
(* user's recent orders, an extension of the lock, and the insert of the   *)
(* order, again one after the other.                                       *)
(***************************************************************************)
EXTENDS Integers, FiniteSets

CONSTANTS Users,      \* who creates orders
          Jobs,       \* names of jobs
          Requests,   \* HTTP requests in progress at one time
          MaxOrders,  \* bound: orders ever created
          Hours,      \* extensions that are asked for; orders ask for natural ones
          Reviews,    \* what reviews decide
          AutoHours,  \* an extension below is auto-approved (12)
          MaxHours,   \* an extension above is refused by lockJobForApproval (1440)
          Window,     \* orders this recent count (48 hours)
          MaxTime,    \* bound: the clock
          MaxLock,    \* bound: the time up to which a job is locked, if not for ever
          DbFails     \* whether a database call may fail

ASSUME LockAssumption ==
    /\ Users # {} /\ Jobs # {} /\ Hours \subseteq Int
    /\ AutoHours \in Nat /\ MaxHours \in Nat /\ Window \in Nat
    /\ MaxTime \in Nat \ {0} /\ MaxLock \in Nat /\ MaxOrders \in Nat \ {0}
    /\ Reviews \subseteq {"Approved", "Rejected"} /\ DbFails \in BOOLEAN

VARIABLES
    now,        \* the clock
    job,        \* status of the job's row; "gone" when it is deleted
    lock,       \* locked_timestamp; NoLock is NULL
    orders,     \* the table approval_orders, and the ids that were used up
    req         \* requests in progress

lockVars == <<now, job, lock, orders, req>>

-----------------------------------------------------------------------------
NoLock    == 0
Permanent == MaxLock + 1
Times     == 0..Permanent
OrderIds  == 1..MaxOrders

OrderStatus == {"Pending", "Approved", "Rejected", "Canceled"}
OrderType   == {"job", "dataset"}

\* auto: the notes are those of an automatic approval.  alone is history: a lock was
\* extended for it without review, and meanwhile no other request of the same user was
\* between its check and its insert.
Order == [state : {"none", "live", "deleted", "failed"}, name : Jobs, type : OrderType,
          status : OrderStatus, auto : BOOLEAN, creator : Users, created : 0..MaxTime,
          alone : BOOLEAN]

Req == [pc : {"idle", "write", "lock", "autowrite", "insert", "list", "cancel"},
        user : Users, name : Jobs, type : OrderType, hours : Hours \cup {0},
        read : Times, value : Times, auto : BOOLEAN, overlapped : BOOLEAN,
        todo : SUBSET (OrderIds \X Jobs), order : OrderIds]

Found(j)   == job[j] \in {"Running", "Completed"}
NoOrder == [state |-> "none", name |-> CHOOSE j \in Jobs : TRUE, type |-> "job",
            status |-> "Pending", auto |-> FALSE, creator |-> CHOOSE u \in Users : TRUE,
            created |-> 0, alone |-> FALSE]

NoReq == [pc |-> "idle", user |-> CHOOSE u \in Users : TRUE, name |-> CHOOSE j \in Jobs : TRUE,
          type |-> "job", hours |-> 0, read |-> NoLock,
          value |-> NoLock, auto |-> FALSE, overlapped |-> FALSE, todo |-> {}, order |-> 1]

Idle(q)     == req[q].pc = "idle"
Start(q, r) == req' = [req EXCEPT ![q] = r]
Return(q)   == req' = [req EXCEPT ![q] = NoReq]

LockInit ==
    /\ now = 1
    /\ job = [j \in Jobs |-> "Running"]
    /\ lock = [j \in Jobs |-> NoLock]
    /\ orders = [o \in OrderIds |-> NoOrder]
    /\ req = [q \in Requests |-> NoReq]

Tick ==
    /\ now < MaxTime
    /\ now' = now + 1
    /\ UNCHANGED <<job, lock, orders, req>>

\* The reconciler ends the row, a user deletes it (VcJob).
JobChanges(j) ==
    /\ \/ job[j] = "Running" /\ job' = [job EXCEPT ![j] = "Completed"]
       \/ job[j] = "Completed" /\ job' = [job EXCEPT ![j] = "gone"]
    /\ UNCHANGED <<now, lock, orders, req>>

-----------------------------------------------------------------------------
(***************************************************************************)
(* AddLockTime, ClearLockTime                                              *)
(***************************************************************************)
\* The lock is extended from its end while it holds, and else from now; AddLockTime
\* takes any number of hours, also a negative one.  Bound: the new time is after now,
\* since a lock that has ended is as none, and at most MaxLock.
Extended(l, h) == (IF l > now THEN l ELSE now) + h

LockRead(q, j, h, permanent) ==
    /\ Idle(q)
    /\ Found(j)
    /\ lock[j] # Permanent
    /\ Start(q, [req[q] EXCEPT !.pc = "write", !.name = j, !.hours = h, !.read = lock[j],
                    !.value = IF permanent THEN Permanent ELSE Extended(lock[j], h)])
    /\ permanent \/ Extended(lock[j], h) \in now + 1 .. MaxLock
    /\ UNCHANGED <<now, job, lock, orders>>

\* The Update names the job and nothing else, so it overwrites what others
\* have written since the row was read.
WriteLock(q) ==
    /\ lock' = [lock EXCEPT ![req[q].name] = IF Found(req[q].name) THEN req[q].value ELSE @]
    /\ UNCHANGED <<now, job, orders>>

AddLockTime(q) ==
    \/ \E j \in Jobs : LockRead(q, j, 0, TRUE) \/ \E h \in Hours : LockRead(q, j, h, FALSE)
    \/ /\ req[q].pc = "write"
       /\ WriteLock(q)
       /\ Return(q)
    \/ /\ DbFails
       /\ req[q].pc = "write"
       /\ Return(q)
       /\ UNCHANGED <<now, job, lock, orders>>

ClearLockTime(j) ==
    /\ Found(j)
    /\ lock' = [lock EXCEPT ![j] = NoLock]
    /\ UNCHANGED <<now, job, orders, req>>

\* getJobWhiteList: the jobs whose lock holds.
WhiteList == {j \in Jobs : Found(j) /\ lock[j] > now}

-----------------------------------------------------------------------------
(***************************************************************************)
(* CreateApprovalOrder                                                     *)
(***************************************************************************)
Recent(u) == {o \in OrderIds : /\ orders[o].state = "live"
                               /\ orders[o].creator = u
                               /\ orders[o].created + Window > now}

\* Mutant: the recent orders are not looked at.
checkAutoApprovalEligibility_Always(u, type, h) == type = "job" /\ h < AutoHours

\* ReviewNotes of none of the user's recent orders is the automatic one.
checkAutoApprovalEligibility(u, type, h) ==
    /\ type = "job"
    /\ h < AutoHours
    /\ \A o \in Recent(u) : ~orders[o].auto

\* A request whose order may be approved, between its check and its insert.
MayApprove(r) == r.pc \in {"lock", "autowrite"} \/ (r.pc = "insert" /\ r.auto)

\* The other requests of the same user that may be approved.
Overlapping(q, u) == {r \in Requests \ {q} : req[r].user = u /\ MayApprove(req[r])}

CheckOrder(q, u, j, type, h) ==
    /\ Idle(q)
    /\ req' = [r \in Requests |->
                 CASE r = q ->
                        [req[q] EXCEPT !.pc = IF checkAutoApprovalEligibility(u, type, h)
                                              THEN "lock" ELSE "insert",
                                       !.user = u, !.name = j, !.type = type,
                                       !.hours = IF checkAutoApprovalEligibility(u, type, h)
                                                 THEN h ELSE 0,
                                       !.overlapped = /\ checkAutoApprovalEligibility(u, type, h)
                                                      /\ Overlapping(q, u) # {}]
                   [] r \in Overlapping(q, u) ->
                        [req[r] EXCEPT !.overlapped = @ \/ checkAutoApprovalEligibility(u, type, h)]
                   [] OTHER -> req[r]]
    /\ UNCHANGED <<now, job, lock, orders>>

\* Mutant: the extension is added to the present, also where the lock still holds.
LockForApproval_FromNow(q) ==
    /\ req[q].pc = "lock"
    /\ LET j == req[q].name
           granted == Found(j) /\ lock[j] # Permanent /\ req[q].hours <= MaxHours
       IN  Start(q, IF granted
                    THEN [req[q] EXCEPT !.pc = "autowrite", !.read = lock[j],
                                        !.value = now + req[q].hours]
                    ELSE [req[q] EXCEPT !.pc = "insert", !.hours = 0])
    /\ UNCHANGED <<now, job, lock, orders>>

\* lockJobForApproval: a job that is unknown or locked for ever, or too long an
\* extension, and the order is created without approval.
LockForApproval(q) ==
    /\ req[q].pc = "lock"
    /\ LET j == req[q].name
           granted == /\ Found(j)
                      /\ lock[j] # Permanent
                      /\ req[q].hours <= MaxHours
                      /\ Extended(lock[j], req[q].hours) <= MaxLock
       IN  Start(q, IF granted
                    THEN [req[q] EXCEPT !.pc = "autowrite", !.read = lock[j],
                                        !.value = Extended(lock[j], req[q].hours)]
                    ELSE [req[q] EXCEPT !.pc = "insert", !.hours = 0])
    /\ UNCHANGED <<now, job, lock, orders>>

AutoWrite(q) ==
    /\ req[q].pc = "autowrite"
    /\ WriteLock(q)
    /\ Start(q, [req[q] EXCEPT !.pc = "insert", !.auto = TRUE, !.hours = 0,
                            !.read = NoLock, !.value = NoLock])

AutoWriteFails(q) ==
    /\ DbFails
    /\ req[q].pc \in {"lock", "autowrite"}
    /\ Start(q, [req[q] EXCEPT !.pc = "insert", !.hours = 0, !.read = NoLock, !.value = NoLock])
    /\ UNCHANGED <<now, job, lock, orders>>

\* The next id gets the order.
PutOrder(q, state) ==
    \E o \in OrderIds :
       /\ \A p \in OrderIds : orders[p].state = "none" <=> p >= o
       /\ orders' = [orders EXCEPT ![o] =
             [state |-> state, name |-> req[q].name, type |-> req[q].type,
              status |-> IF req[q].auto THEN "Approved" ELSE "Pending",
              auto |-> req[q].auto, creator |-> req[q].user, created |-> now,
              alone |-> req[q].auto /\ ~req[q].overlapped]]

InsertOrder(q) ==
    /\ req[q].pc = "insert"
    /\ PutOrder(q, "live")
    /\ Return(q)
    /\ UNCHANGED <<now, job, lock>>

\* The insert fails, or the process ends before it: a lock that was extended stays so.
InsertFails(q) ==
    /\ DbFails
    /\ req[q].pc = "insert"
    /\ IF req[q].auto THEN PutOrder(q, "failed") ELSE UNCHANGED orders
    /\ Return(q)
    /\ UNCHANGED <<now, job, lock>>

CreateApprovalOrder(q) ==
    \/ \E u \in Users, j \in Jobs, t \in OrderType, h \in Hours \cap Nat : CheckOrder(q, u, j, t, h)
    \/ LockForApproval(q)
    \/ AutoWrite(q)
    \/ AutoWriteFails(q)
    \/ InsertOrder(q)
    \/ InsertFails(q)

-----------------------------------------------------------------------------
\* UpdateApprovalOrder: name and type are always written, the status and the
\* notes when they are given.  Approving locks nothing, and clears the mark of an
\* automatic approval by overwriting the notes.  Two kinds of request are
\* enumerated: a review (a status with notes), and an edit of name and type while the
\* order is pending, for they are read of no other.
UpdateApprovalOrder(o) ==
    /\ orders[o].state = "live"
    /\ \/ \E s \in Reviews :
             orders' = [orders EXCEPT ![o].status = s, ![o].auto = FALSE]
       \/ /\ orders[o].status = "Pending"
          /\ \E j \in Jobs, t \in OrderType :
                orders' = [orders EXCEPT ![o].name = j, ![o].type = t]
    /\ UNCHANGED <<now, job, lock, req>>

\* Only the creator deletes an order; of the row, which gorm keeps, the history is left.
DeleteApprovalOrder(u, o) ==
    /\ orders[o].state = "live"
    /\ orders[o].creator = u
    /\ orders' = [orders EXCEPT ![o] = [NoOrder EXCEPT !.state = "deleted", !.creator = u,
                                                !.created = orders[o].created,
                                                !.alone = orders[o].alone]]
    /\ UNCHANGED <<now, job, lock, req>>

isJobRunning(j) == job[j] = "Running"

\* UpdateApprovalOrderByJobStatus: the pending orders are listed, then for each
\* one the job is looked up and the order cancelled.
ListPending(q) ==
    /\ Idle(q)
    /\ Start(q, [req[q] EXCEPT !.pc = "list",
                   !.todo = {<<o, orders[o].name>> : o \in
                                {p \in OrderIds : /\ orders[p].state = "live"
                                                  /\ orders[p].status = "Pending"
                                                  /\ orders[p].type = "job"}}])
    /\ UNCHANGED <<now, job, lock, orders>>

CheckJob(q, o, j) ==
    /\ req[q].pc = "list"
    /\ <<o, j>> \in req[q].todo
    /\ Start(q, IF isJobRunning(j) THEN [req[q] EXCEPT !.todo = @ \ {<<o, j>>}]
                ELSE [req[q] EXCEPT !.pc = "cancel", !.todo = @ \ {<<o, j>>}, !.order = o])
    /\ UNCHANGED <<now, job, lock, orders>>

\* Deleted rows are skipped by the Updates, whatever their status.
cancelApprovalOrder(q) ==
    /\ req[q].pc = "cancel"
    /\ orders' = [orders EXCEPT ![req[q].order].status =
                     IF orders[req[q].order].state = "live" THEN "Canceled" ELSE @]
    /\ Start(q, [req[q] EXCEPT !.pc = "list", !.order = NoReq.order])
    /\ UNCHANGED <<now, job, lock>>

CheckDone(q) ==
    /\ req[q].pc = "list"
    /\ req[q].todo = {}
    /\ Return(q)
    /\ UNCHANGED <<now, job, lock, orders>>

UpdateApprovalOrderByJobStatus(q) ==
    \/ ListPending(q)
    \/ \E o \in OrderIds, j \in Jobs : CheckJob(q, o, j)
    \/ cancelApprovalOrder(q)
    \/ CheckDone(q)

LockNext ==
    \/ Tick
    \/ \E j \in Jobs : JobChanges(j) \/ ClearLockTime(j)
    \/ \E q \in Requests : \/ AddLockTime(q)
                           \/ CreateApprovalOrder(q)
                           \/ UpdateApprovalOrderByJobStatus(q)
    \/ \E o \in OrderIds : \/ UpdateApprovalOrder(o)
                           \/ \E u \in Users : DeleteApprovalOrder(u, o)

LockSpec == LockInit /\ [][LockNext]_lockVars

-----------------------------------------------------------------------------
\* Rows, requests and orders have their types.
LockTypeOK ==
    /\ now \in 0..MaxTime
    /\ job \in [Jobs -> {"Running", "Completed", "gone"}]
    /\ lock \in [Jobs -> Times]
    /\ orders \in [OrderIds -> Order]
    /\ req \in [Requests -> Req]

\* The row of the order is there and says that it was approved automatically.
SaysSo(o) == orders[o].state = "live" /\ orders[o].auto

\* Within 48 hours a lock is extended for a user without review once only, unless two
\* of his requests overlapped (checkAutoApprovalEligibility sees no order before its
\* insert) or the order of the earlier one says so no more: its insert failed after
\* the lock was extended, he deleted it, or an update overwrote its notes.
AutoOncePerWindow ==
    \A o, p \in OrderIds :
        /\ o < p /\ orders[o].alone /\ orders[p].alone
        /\ orders[o].creator = orders[p].creator
        /\ orders[p].created < orders[o].created + Window
        => ~SaysSo(o)

\* A lock gets shorter only when it is cleared, by a request to AddLockTime for a
\* negative time, or by a handler that has read it before another one wrote it: of two
\* extensions at once one may be lost, one after the other they add up.
LocksOnlyGrow ==
    [][\A j \in Jobs : lock'[j] < lock[j] =>
          \/ ClearLockTime(j)
          \/ \E q \in Requests : /\ req[q].pc \in {"write", "autowrite"}
                                 /\ req[q].name = j
                                 /\ req[q].read # lock[j] \/ req[q].hours < 0]_lockVars

-----------------------------------------------------------------------------
(* The inductive invariant *)

\* What is written extends what was read, if it was asked to.
ValueGrows ==
    \A q \in Requests : req[q].pc \in {"write", "autowrite"} =>
        req[q].hours < 0 \/ req[q].read <= req[q].value

\* Only AddLockTime is asked for a negative time.
OrdersAskForMore == \A q \in Requests : req[q].pc \in {"lock", "autowrite"} => req[q].hours >= 0

\* Orders are made now or earlier, and an idle request approves nothing.
OrdersArePast ==
    \A o \in OrderIds : /\ orders[o].created <= now
                        /\ orders[o].state = "none" => ~orders[o].alone
IdleIsClean == \A q \in Requests : req[q].pc = "idle" => ~req[q].auto

\* Two requests of one user that may be approved know of each other.
OverlapIsMarked ==
    \A q, r \in Requests :
        q # r /\ req[q].user = req[r].user /\ MayApprove(req[q]) /\ MayApprove(req[r])
            => req[q].overlapped /\ req[r].overlapped

\* A request that may be approved, and has met no other, finds no recent order
\* that was.
NoRecentApproval ==
    \A q \in Requests, o \in OrderIds :
        MayApprove(req[q]) /\ ~req[q].overlapped /\ o \in Recent(req[q].user) => ~orders[o].auto

LockInv ==
    /\ LockTypeOK /\ ValueGrows /\ OrdersAskForMore /\ OrdersArePast /\ IdleIsClean
    /\ OverlapIsMarked /\ NoRecentApproval /\ AutoOncePerWindow
=============================================================================
