---------------------------- MODULE TenantsProofs ----------------------------
(***************************************************************************)
(* Proofs about Tenants, Datasets, Profiler and PodSpecs, for any users,   *)
(* accounts, datasets, tasks, mounts and images, any number of requests at *)
(* one time and any choice of failures.                                    *)
(*                                                                         *)
(* Tenants: the queue of an account follows its row unless an update or a  *)
(* failure came between, and a row of the members' table has its account.  *)
(* Datasets: a share has its dataset, a dataset the share of its owner,    *)
(* and a pair one share.  Profiler: a task passes from the scheduler       *)
(* through the queue to the profiler and to a pod, and each lets go of it  *)
(* only when the next one has it.  PodSpecs: the volumes are folded over   *)
(* the mounts, each name once, and every task starts from the same base.   *)
(***************************************************************************)
EXTENDS Tenants, Datasets, Profiler, PodSpecs,
        FiniteSetTheorems, NaturalsInduction, WellFoundedInduction, SequenceTheorems, TLAPS

-----------------------------------------------------------------------------
(* Minima and maxima *)

\* The least of a set of numbers is one of them.
LEMMA LeastIn ==
    ASSUME NEW S, S \subseteq Nat, S # {}
    PROVE  Min(S) \in S /\ \A n \in S : Min(S) <= n
  <1>1. IsWellFoundedOn(OpToRel(<, Nat), Nat)
    BY NatLessThanWellFounded
  <1>2. PICK m \in S : \A n \in S : ~(<<n, m>> \in OpToRel(<, Nat))
    BY <1>1, WFMin
  <1>3. \A n \in S : m <= n
    <2> SUFFICES ASSUME NEW n \in S PROVE m <= n
      OBVIOUS
    <2>1. m \in Nat /\ n \in Nat
      OBVIOUS
    <2>2. ~(n < m)
      BY <1>2, <2>1 DEF OpToRel
    <2> QED
      BY <2>1, <2>2
  <1> QED
    BY <1>3 DEF Min

\* The greatest of a set of ids is one of them: seen from the top, it is the least.
LEMMA GreatestIn ==
    ASSUME NEW N \in Nat, NEW S, S \subseteq 1..N, S # {}
    PROVE  Max(S) \in S
  <1> DEFINE D == {N - n : n \in S}
  <1>1. D \subseteq Nat /\ D # {}
    OBVIOUS
  <1>2. Min(D) \in D /\ \A d \in D : Min(D) <= d
    <2> HIDE DEF D
    <2> QED
      BY <1>1, LeastIn
  <1>3. PICK m \in S : Min(D) = N - m
    BY <1>2
  <1>4. \A n \in S : N - m <= N - n
    BY <1>2, <1>3
  <1>5. \A n \in S : m >= n
    BY <1>4
  <1> QED
    BY <1>5 DEF Max

-----------------------------------------------------------------------------
(* Accounts and members *)

\* The bounds are numbers.
LEMMA TenantBounds == MaxMembers \in Nat /\ MaxMishaps \in Nat
  BY TenantAssumption
\* The default account is one, and no quota looks like a missing queue.
LEMMA TenantConstants == Default \in Accounts /\ NoQueue \notin Quotas
  BY TenantAssumption DEF NoQueue

\* Rows and calls have their shapes.
LEMMA TenantShapes ==
    /\ TheGrant \in Grants /\ TheQuota \in Quotas /\ NoCall \in TenantCall /\ NoCall.pc = "idle"
    /\ NoMember \in MemberRow /\ NoMember.state = "none"
    /\ DeletedMember \in MemberRow /\ DeletedMember.state = "deleted"
    /\ DeletedAccount \in AccountRow /\ DeletedAccount.state = "deleted"
    /\ \A s \in AccountState, q \in Quotas :
          /\ [state |-> s, quota |-> q] \in AccountRow
    /\ \A r \in AccountRow, q \in Quotas : [r EXCEPT !.quota = q] \in AccountRow
    /\ \A r \in AccountRow, s \in AccountState : [r EXCEPT !.state = s] \in AccountRow
    /\ \A u \in Users, a \in Accounts, g \in Grants : NewMember(u, a, g) \in MemberRow
    /\ \A r \in MemberRow, g \in Grants :
          /\ [r EXCEPT !.grant = g] \in MemberRow
          /\ [r EXCEPT !.grant = g].state = r.state /\ [r EXCEPT !.grant = g].account = r.account
    /\ \A a \in Accounts, q \in Quotas :
          /\ [NoCall EXCEPT !.pc = "queue", !.account = a, !.quota = q] \in TenantCall
          /\ [NoCall EXCEPT !.pc = "delete", !.account = a] \in TenantCall
    /\ \A u \in Users, a \in Accounts, g \in Grants :
          [NoCall EXCEPT !.pc = "add", !.user = u, !.account = a, !.grant = g] \in TenantCall
    /\ \A u \in Users : [NoCall EXCEPT !.pc = "default", !.user = u] \in TenantCall
    /\ \A r \in TenantCall : r.user \in Users /\ r.account \in Accounts /\ r.grant \in Grants /\ r.quota \in Quotas
  <1>1. TheGrant \in Grants /\ TheQuota \in Quotas /\ (CHOOSE u \in Users : TRUE) \in Users /\ Default \in Accounts
    BY TenantAssumption DEF TheGrant, TheQuota
  <1>2. NoCall \in TenantCall /\ NoCall.pc = "idle" /\ NoCall.user \in Users
    BY <1>1 DEF NoCall, TenantCall
  <1>3. /\ NoMember \in MemberRow /\ NoMember.state = "none"
        /\ DeletedMember \in MemberRow /\ DeletedMember.state = "deleted"
    BY <1>1, <1>2 DEF NoMember, DeletedMember, MemberRow, UserState
  <1>4. DeletedAccount \in AccountRow /\ DeletedAccount.state = "deleted"
    BY <1>1 DEF DeletedAccount, AccountRow, AccountState
  <1>5. /\ \A s \in AccountState, q \in Quotas : [state |-> s, quota |-> q] \in AccountRow
        /\ \A r \in AccountRow, q \in Quotas : [r EXCEPT !.quota = q] \in AccountRow
        /\ \A r \in AccountRow, s \in AccountState : [r EXCEPT !.state = s] \in AccountRow
    BY DEF AccountRow
  <1>6. \A u \in Users, a \in Accounts, g \in Grants : NewMember(u, a, g) \in MemberRow
    BY DEF NewMember, MemberRow, UserState
  <1>7. \A r \in MemberRow, g \in Grants :
           /\ [r EXCEPT !.grant = g] \in MemberRow
           /\ [r EXCEPT !.grant = g].state = r.state /\ [r EXCEPT !.grant = g].account = r.account
    BY DEF MemberRow
  <1>8. /\ \A a \in Accounts, q \in Quotas :
              /\ [NoCall EXCEPT !.pc = "queue", !.account = a, !.quota = q] \in TenantCall
              /\ [NoCall EXCEPT !.pc = "delete", !.account = a] \in TenantCall
        /\ \A u \in Users, a \in Accounts, g \in Grants :
              [NoCall EXCEPT !.pc = "add", !.user = u, !.account = a, !.grant = g] \in TenantCall
        /\ \A u \in Users : [NoCall EXCEPT !.pc = "default", !.user = u] \in TenantCall
        /\ \A r \in TenantCall : r.user \in Users /\ r.account \in Accounts /\ r.grant \in Grants /\ r.quota \in Quotas
    BY <1>2 DEF TenantCall
  <1> QED
    BY <1>1, <1>2, <1>3, <1>4, <1>5, <1>6, <1>7, <1>8

\* Where a member is inserted, and which row is the first of some, are ids.
LEMMA RowIds ==
    /\ FreeIds # {} => Min(FreeIds) \in FreeIds
    /\ \A u \in Users, a \in Accounts : RowsOf(u, a) # {} => FirstRow(RowsOf(u, a)) \in RowsOf(u, a)
    /\ \A u \in Users : Memberships(u) # {} => LastRow(Memberships(u)) \in Memberships(u)
  <1>1. MemberIds \subseteq Nat
    BY TenantBounds DEF MemberIds
  <1>2. FreeIds \subseteq Nat /\ \A u \in Users, a \in Accounts : RowsOf(u, a) \subseteq Nat
    BY <1>1 DEF FreeIds, RowsOf
  <1>3. ASSUME NEW u \in Users, Memberships(u) # {}
        PROVE  LastRow(Memberships(u)) \in Memberships(u)
    <2>1. Memberships(u) \subseteq 1..MaxMembers
      BY DEF Memberships, RowsOf, MemberIds
    <2> QED
      BY <1>3, <2>1, GreatestIn, TenantBounds DEF LastRow
  <1> QED
    BY <1>2, <1>3, LeastIn DEF FirstRow

\* A transaction that begins changes its own call only.
LEMMA FindMembersTo ==
    ASSUME TenantTypeOK, NEW c \in Calls, FindMembers(c)
    PROVE  /\ UNCHANGED <<user, account, member, queue, mishaps, raced, split>>
           /\ call[c].pc = "delete"
           /\ \E new \in TenantCall : new.pc \in {"idle", "drop"} /\ call' = [call EXCEPT ![c] = new]
  <1>1. PICK rows : rows = MembersOf(call[c].account)
    OBVIOUS
  <1>2. rows \subseteq MemberIds
    BY <1>1 DEF MembersOf, RowsOf
  <1>3. call[c] \in TenantCall
    BY DEF TenantTypeOK
  <1>4. PICK more : more = [call[c] EXCEPT !.pc = "drop", !.found = rows]
    OBVIOUS
  <1>5. more \in TenantCall /\ more.pc = "drop"
    BY <1>2, <1>3, <1>4 DEF TenantCall
  <1>6. call' = [call EXCEPT ![c] = more] \/ call' = [call EXCEPT ![c] = NoCall]
    BY <1>1, <1>4 DEF FindMembers, Await, Answer
  <1> QED
    BY <1>5, <1>6, TenantShapes DEF FindMembers

\* The steps, one by one.
LEMMA TenantBranches ==
    ASSUME TenantNext
    PROVE  \/ \E a \in Accounts, u \in Users, q \in Quotas, w \in BOOLEAN : CreateAccount(a, u, q, w)
           \/ \E a \in Accounts, q \in Quotas : CreateUncommitted(a, q)
           \/ \E c \in Calls, a \in Accounts, q \in Quotas, w \in BOOLEAN : UpdateRow(c, a, q, w)
           \/ \E c \in Calls : updateVolcanoQueue(c) \/ DeleteAccount(c) \/ AddInsert(c) \/ AddDefault(c)
           \/ \E c \in Calls : FindMembers(c)
           \/ \E c \in Calls, a \in Accounts : CheckMembers(c, a)
           \/ \E c \in Calls, u \in Users : createUser(c, u)
           \/ \E u \in Users, a \in Accounts, g \in Grants : UpdateUserProject(u, a, g) \/ PutUserInProject(u, a, g)
           \/ \E c \in Calls, u \in Users, a \in Accounts, g \in Grants : AddUserProject(c, u, a, g)
           \/ \E u \in Users : DeleteUser(u)
           \/ \E u \in Users, a \in Accounts : DeleteUserProject(u, a)
  BY Zenon DEF TenantNext

\* The tables that a transaction changes keep their types.
LEMMA TenantTypeStep ==
    ASSUME TenantTypeOK, [TenantNext]_tenantVars
    PROVE  TenantTypeOK'
  <1> USE DEF TenantTypeOK
  <1>0. \A c \in Calls : /\ call[c] \in TenantCall /\ call[c].user \in Users /\ call[c].account \in Accounts
                         /\ call[c].grant \in Grants /\ call[c].quota \in Quotas
    BY TenantShapes
  <1>1. ASSUME NEW a \in Accounts, NEW u \in Users, NEW q \in Quotas, NEW w \in BOOLEAN, CreateAccount(a, u, q, w)
        PROVE  TenantTypeOK'
    <2>1. member' \in [MemberIds -> MemberRow]
      BY <1>1, RowIds, TenantShapes DEF CreateAccount, InsertMember, FreeIds
    <2>2. account' \in [Accounts -> AccountRow]
      BY <1>1, TenantShapes DEF CreateAccount, AccountState
    <2>3. queue' \in [Accounts -> Quotas \cup {NoQueue}] /\ split' \in SUBSET Accounts
      BY <1>1 DEF CreateAccount
    <2> QED
      BY <1>1, <2>1, <2>2, <2>3 DEF CreateAccount
  <1>2. ASSUME NEW a \in Accounts, NEW q \in Quotas, CreateUncommitted(a, q) PROVE TenantTypeOK'
    <2>1. account' \in [Accounts -> AccountRow]
      <3>1. account' = [account EXCEPT ![a] = [account[a] EXCEPT !.state = "lost"]]
        BY <1>2 DEF CreateUncommitted
      <3> QED
        BY <3>1, TenantShapes DEF AccountState
    <2>2. mishaps' \in 0..MaxMishaps
      BY <1>2, TenantBounds DEF CreateUncommitted, Mishap
    <2> QED
      BY <1>2, <2>1, <2>2 DEF CreateUncommitted
  <1>3. ASSUME NEW c \in Calls, NEW a \in Accounts, NEW q \in Quotas, NEW w \in BOOLEAN, UpdateRow(c, a, q, w)
        PROVE  TenantTypeOK'
    <2>1. account' \in [Accounts -> AccountRow]
      <3>1. account' = [account EXCEPT ![a] = [account[a] EXCEPT !.quota = q]]
        BY <1>3 DEF UpdateRow
      <3>2. [account[a] EXCEPT !.quota = q] \in AccountRow
        BY TenantShapes
      <3> QED
        BY <3>1, <3>2
    <2>2. call' \in [Calls -> TenantCall]
      <3> DEFINE new == [NoCall EXCEPT !.pc = "queue", !.account = a, !.quota = q]
      <3>1. new \in TenantCall
        BY TenantShapes
      <3>2. call' = call \/ call' = [call EXCEPT ![c] = new]
        BY <1>3 DEF UpdateRow, Await
      <3> HIDE DEF new
      <3> QED
        BY <3>1, <3>2
    <2> QED
      BY <1>3, <2>1, <2>2 DEF UpdateRow
  <1>4. ASSUME NEW c \in Calls, updateVolcanoQueue(c) PROVE TenantTypeOK'
    <2>1. queue' \in [Accounts -> Quotas \cup {NoQueue}] /\ split' \in SUBSET Accounts
      BY <1>0, <1>4 DEF updateVolcanoQueue
    <2>2. mishaps' \in 0..MaxMishaps
      BY <1>4, TenantBounds DEF updateVolcanoQueue, Mishap
    <2> QED
      BY <1>4, <2>1, <2>2, TenantShapes DEF updateVolcanoQueue, Answer
  <1>5. ASSUME NEW c \in Calls, DeleteAccount(c) PROVE TenantTypeOK'
    <2>0. DeletedMember \in MemberRow /\ DeletedAccount \in AccountRow
      BY TenantShapes
    <2>1. member' \in [MemberIds -> MemberRow]
      <3>1. \/ member' = member
            \/ member' = [i \in MemberIds |-> IF i \in call[c].found THEN DeletedMember ELSE member[i]]
        BY <1>5 DEF DeleteAccount
      <3> QED
        BY <2>0, <3>1
    <2>4. account' \in [Accounts -> AccountRow]
      <3>1. account' = account \/ account' = [account EXCEPT ![call[c].account] = DeletedAccount]
        BY <1>5 DEF DeleteAccount
      <3> QED
        BY <2>0, <3>1
    <2>2. /\ queue' \in [Accounts -> Quotas \cup {NoQueue}]
          /\ split' \in SUBSET Accounts /\ raced' \in SUBSET Accounts
      BY <1>0, <1>5 DEF DeleteAccount
    <2>3. mishaps' \in 0..MaxMishaps
      BY <1>5, TenantBounds DEF DeleteAccount, Mishap
    <2> QED
      BY <1>5, <2>1, <2>2, <2>3, <2>4, TenantShapes DEF DeleteAccount, Answer
  <1>6. ASSUME NEW c \in Calls, AddInsert(c) PROVE TenantTypeOK'
    <2>1. member' \in [MemberIds -> MemberRow]
      BY <1>0, <1>6, RowIds, TenantShapes DEF AddInsert, InsertMember, FreeIds
    <2> QED
      BY <1>6, <2>1, TenantShapes DEF AddInsert, Answer
  <1>7. ASSUME NEW c \in Calls, AddDefault(c) PROVE TenantTypeOK'
    <2>1. member' \in [MemberIds -> MemberRow]
      <3> DEFINE new == NewMember(call[c].user, Default, TheGrant)
      <3>1. new \in MemberRow
        BY <1>0, TenantShapes, TenantConstants
      <3>2. member' = member \/ (FreeIds # {} /\ member' = [member EXCEPT ![Min(FreeIds)] = new])
        BY <1>7 DEF AddDefault, InsertMember
      <3>3. FreeIds # {} => Min(FreeIds) \in MemberIds
        BY RowIds DEF FreeIds
      <3> HIDE DEF new
      <3> QED
        BY <3>1, <3>2, <3>3
    <2>2. mishaps' \in 0..MaxMishaps
      BY <1>7, TenantBounds DEF AddDefault, Mishap
    <2> QED
      BY <1>7, <2>1, <2>2, TenantShapes DEF AddDefault, Answer
  <1>8. ASSUME NEW c \in Calls, NEW a \in Accounts, CheckMembers(c, a) PROVE TenantTypeOK'
    BY <1>8, TenantShapes DEF CheckMembers, Await
  <1>17. ASSUME NEW c \in Calls, FindMembers(c) PROVE TenantTypeOK'
    BY <1>17, FindMembersTo
  <1>9. ASSUME NEW c \in Calls, NEW u \in Users, createUser(c, u) PROVE TenantTypeOK'
    BY <1>9, TenantShapes DEF createUser, Await, UserState
  <1>10. ASSUME NEW u \in Users, NEW a \in Accounts, NEW g \in Grants, UpdateUserProject(u, a, g) PROVE TenantTypeOK'
    <2> DEFINE k == FirstRow(RowsOf(u, a))
    <2>1. k \in MemberIds
      BY <1>10, RowIds DEF UpdateUserProject, RowsOf
    <2>2. member' = [member EXCEPT ![k] = [member[k] EXCEPT !.grant = g]]
      BY <1>10 DEF UpdateUserProject
    <2> HIDE DEF k
    <2>3. member' \in [MemberIds -> MemberRow]
      BY <2>1, <2>2, TenantShapes
    <2> QED
      BY <1>10, <2>3 DEF UpdateUserProject
  <1>11. ASSUME NEW u \in Users, NEW a \in Accounts, NEW g \in Grants, PutUserInProject(u, a, g) PROVE TenantTypeOK'
    <2>1. member' \in [MemberIds -> MemberRow]
      BY <1>11, TenantShapes DEF PutUserInProject
    <2> QED
      BY <1>11, <2>1 DEF PutUserInProject
  <1>12. ASSUME NEW c \in Calls, NEW u \in Users, NEW a \in Accounts, NEW g \in Grants, AddUserProject(c, u, a, g)
         PROVE  TenantTypeOK'
    BY <1>12, TenantShapes DEF AddUserProject, Await
  <1>13. ASSUME NEW u \in Users, DeleteUser(u) PROVE TenantTypeOK'
    BY <1>13 DEF DeleteUser, UserState
  <1>14. ASSUME NEW u \in Users, NEW a \in Accounts, DeleteUserProject(u, a) PROVE TenantTypeOK'
    <2>1. member' \in [MemberIds -> MemberRow]
      BY <1>14, RowIds, TenantShapes DEF DeleteUserProject, RowsOf
    <2> QED
      BY <1>14, <2>1 DEF DeleteUserProject
  <1>15. CASE UNCHANGED tenantVars
    BY <1>15 DEF tenantVars
  <1> HIDE DEF TenantTypeOK
  <1> QED
    BY <1>1, <1>2, <1>3, <1>4, <1>5, <1>6, <1>7, <1>8, <1>9, <1>10, <1>11, <1>12, <1>13, <1>14, <1>15, <1>17, TenantBranches

\* It gives the property.
LEMMA QueuesFollowMatch == QueuesFollow => QueuesMatch
  <1> SUFFICES ASSUME QueuesFollow, NEW a \in Accounts \ split, Waiting("queue", a) = {}
               PROVE  queue[a] = (IF LiveAccount(a) THEN account[a].quota ELSE NoQueue)
    BY DEF QueuesMatch
  <1>2. Follows(a)
    BY DEF QueuesFollow
  <1>3. CASE LiveAccount(a)
    BY <1>2, <1>3 DEF Follows
  <1>4. CASE ~LiveAccount(a)
    BY <1>2, <1>4 DEF Follows
  <1> QED
    BY <1>3, <1>4

\* A step that changes neither accounts nor queues, and starts or ends no update.
LEMMA QueueFrame ==
    ASSUME QueuesFollow, UNCHANGED <<account, queue>>, split \subseteq split',
           \A c \in Calls : call'[c] = call[c] \/ (call[c].pc # "queue" /\ call'[c].pc # "queue")
    PROVE  QueuesFollow'
  BY DEF QueuesFollow, Follows, LiveAccount, Waiting

\* Every step keeps queues and rows together.
LEMMA QueueStep ==
    ASSUME TenantTypeOK, QueuesFollow, [TenantNext]_tenantVars
    PROVE  QueuesFollow'
  <1>0. \A c \in Calls : /\ call[c] \in TenantCall /\ call[c].account \in Accounts /\ call[c].quota \in Quotas
    BY TenantShapes DEF TenantTypeOK
  <1>1. ASSUME NEW a \in Accounts, NEW u \in Users, NEW q \in Quotas, NEW w \in BOOLEAN, CreateAccount(a, u, q, w)
        PROVE  QueuesFollow'
    <2>1. /\ account[a].state = "none" /\ UNCHANGED call
          /\ account' = [account EXCEPT ![a] = [state |-> "live", quota |-> q]]
          /\ queue' = [queue EXCEPT ![a] = IF w THEN NoQueue ELSE q]
          /\ split' = IF w THEN split \cup {a} ELSE split
      BY <1>1 DEF CreateAccount
    <2>2. \A c \in Calls : call[c].pc = "queue" => call[c].account # a
      BY <2>1 DEF QueuesFollow
    <2>3. account' \in [Accounts -> AccountRow] /\ account \in [Accounts -> AccountRow] /\ queue \in [Accounts -> Quotas \cup {NoQueue}]
      BY <1>1, TenantTypeStep DEF TenantNext, TenantTypeOK
    <2>4. Follows(a)'
      <3> SUFFICES ASSUME a \notin split' PROVE Follows(a)'
        BY DEF Follows
      <3>1. queue'[a] = q /\ account'[a].state = "live" /\ account'[a].quota = q /\ q # NoQueue
        BY <2>1, <2>3, TenantConstants
      <3>2. \A c \in Calls : ~(call'[c].pc = "queue" /\ call'[c].account = a)
        BY <2>1, <2>2
      <3> QED
        <4>1. Waiting("queue", a)' = {}
          BY <3>2 DEF Waiting
        <4>2. LiveAccount(a)'
          BY <3>1 DEF LiveAccount
        <4> QED
          BY <3>1, <4>1, <4>2 DEF Follows
    <2>5. ASSUME NEW b \in Accounts, b # a PROVE Follows(b)'
      <3>1. account'[b] = account[b] /\ queue'[b] = queue[b] /\ (b \in split' <=> b \in split)
        BY <2>1, <2>3, <2>5
      <3> QED
        BY <2>1, <3>1 DEF QueuesFollow, Follows, LiveAccount, Waiting
    <2>6. \A c \in Calls : call'[c].pc = "queue" => account'[call'[c].account].state # "none"
      BY <1>0, <2>1, <2>2, <2>3 DEF QueuesFollow
    <2> QED
      BY <2>4, <2>5, <2>6 DEF QueuesFollow
  <1>2. ASSUME NEW a \in Accounts, NEW q \in Quotas, CreateUncommitted(a, q) PROVE QueuesFollow'
    <2>1. /\ account[a].state = "none" /\ UNCHANGED call
          /\ account' = [account EXCEPT ![a] = [account[a] EXCEPT !.state = "lost"]]
          /\ queue' = [queue EXCEPT ![a] = q]
          /\ split' = split \cup {a}
      BY <1>2 DEF CreateUncommitted
    <2>2. \A c \in Calls : call[c].pc = "queue" => call[c].account # a
      BY <2>1 DEF QueuesFollow
    <2>3. account \in [Accounts -> AccountRow] /\ queue \in [Accounts -> Quotas \cup {NoQueue}]
      BY DEF TenantTypeOK
    <2>4. Follows(a)'
      BY <2>1 DEF Follows
    <2>5. ASSUME NEW b \in Accounts, b # a PROVE Follows(b)'
      <3>1. account'[b] = account[b] /\ queue'[b] = queue[b] /\ (b \in split' <=> b \in split)
        BY <2>1, <2>3, <2>5
      <3> QED
        BY <2>1, <3>1 DEF QueuesFollow, Follows, LiveAccount, Waiting
    <2>6. \A c \in Calls : call'[c].pc = "queue" => account'[call'[c].account].state # "none"
      BY <1>0, <2>1, <2>2, <2>3 DEF QueuesFollow
    <2> QED
      BY <2>4, <2>5, <2>6 DEF QueuesFollow
  <1>3. ASSUME NEW c \in Calls, NEW a \in Accounts, NEW q \in Quotas, NEW w \in BOOLEAN, UpdateRow(c, a, q, w)
        PROVE  QueuesFollow'
    <2> DEFINE new == [NoCall EXCEPT !.pc = "queue", !.account = a, !.quota = q]
    <2>1. /\ call[c].pc = "idle" /\ LiveAccount(a) /\ UNCHANGED queue
          /\ account' = [account EXCEPT ![a] = [account[a] EXCEPT !.quota = q]]
          /\ IF w THEN UNCHANGED call ELSE call' = [call EXCEPT ![c] = new]
          /\ split' = IF w \/ Waiting("queue", a) # {} THEN split \cup {a} ELSE split
      BY <1>3 DEF UpdateRow, Idle, Await
    <2>2. new.pc = "queue" /\ new.account = a /\ new.quota = q
      BY TenantShapes DEF TenantCall
    <2>3. /\ account \in [Accounts -> AccountRow] /\ queue \in [Accounts -> Quotas \cup {NoQueue}]
          /\ call \in [Calls -> TenantCall]
      BY DEF TenantTypeOK
    <2> HIDE DEF new
    <2>4. account'[a].state = "live" /\ account'[a].quota = q
      BY <2>1, <2>3 DEF LiveAccount, AccountRow
    <2>5. Follows(a)'
      <3> SUFFICES ASSUME a \notin split' PROVE Follows(a)'
        BY DEF Follows
      <3>1. ~w /\ a \notin split /\ Waiting("queue", a) = {} /\ call' = [call EXCEPT ![c] = new]
        BY <2>1
      <3>2. \A d \in Calls : ~(call[d].pc = "queue" /\ call[d].account = a)
        BY <3>1 DEF Waiting
      <3>3. queue'[a] # NoQueue
        BY <2>1, <3>1 DEF QueuesFollow, Follows
      <3>4. \A d \in Calls : call'[d].pc = "queue" /\ call'[d].account = a <=> d = c
        BY <2>2, <2>3, <3>1, <3>2
      <3>5. call'[c].quota = q
        BY <2>2, <2>3, <3>1
      <3>6. Waiting("queue", a)' = {c}
        BY <3>4 DEF Waiting
      <3>7. LiveAccount(a)'
        BY <2>4 DEF LiveAccount
      <3> QED
        BY <2>4, <3>3, <3>5, <3>6, <3>7 DEF Follows
    <2>6. ASSUME NEW b \in Accounts, b # a PROVE Follows(b)'
      <3>1. account'[b] = account[b] /\ queue'[b] = queue[b] /\ (b \in split' <=> b \in split)
        BY <2>1, <2>3, <2>6
      <3>2. \A d \in Calls : call'[d] = call[d] \/ (d = c /\ call'[d].account # b)
        BY <2>1, <2>2, <2>3, <2>6
      <3>3. call[c].pc # "queue"
        BY <2>1
      <3>4. \A d \in Calls : /\ call'[d].pc = "queue" /\ call'[d].account = b <=> call[d].pc = "queue" /\ call[d].account = b
                             /\ call'[d].account = b => call'[d] = call[d]
        BY <3>2, <3>3
      <3> QED
        BY <3>1, <3>4 DEF QueuesFollow, Follows, LiveAccount, Waiting
    <2>7. \A d \in Calls : call'[d].pc = "queue" => account'[call'[d].account].state # "none"
      <3> SUFFICES ASSUME NEW d \in Calls, call'[d].pc = "queue" PROVE account'[call'[d].account].state # "none"
        OBVIOUS
      <3>1. CASE call'[d].account = a
        BY <2>4, <3>1
      <3>2. CASE call'[d].account # a
        <4>1. call'[d] = call[d]
          BY <2>1, <2>2, <2>3, <3>2
        <4>2. account[call[d].account].state # "none"
          BY <4>1 DEF QueuesFollow
        <4>3. account'[call[d].account] = account[call[d].account]
          BY <1>0, <2>1, <2>3, <3>2, <4>1
        <4> QED
          BY <4>1, <4>2, <4>3
      <3> QED
        BY <3>1, <3>2
    <2> QED
      BY <2>5, <2>6, <2>7 DEF QueuesFollow
  <1>4. ASSUME NEW c \in Calls, updateVolcanoQueue(c) PROVE QueuesFollow'
    <2>0. PICK a \in Accounts : a = call[c].account
      BY <1>0
    <2>1. /\ call[c].pc = "queue" /\ UNCHANGED account /\ call' = [call EXCEPT ![c] = NoCall]
          /\ \/ queue[a] # NoQueue /\ queue' = [queue EXCEPT ![a] = call[c].quota] /\ UNCHANGED split
             \/ queue[a] = NoQueue /\ UNCHANGED <<queue, split>>
             \/ split' = split \cup {a} /\ UNCHANGED queue
      BY <1>4, <2>0 DEF updateVolcanoQueue, Answer
    <2>2. /\ call[c].quota \in Quotas /\ NoCall.pc = "idle"
          /\ queue \in [Accounts -> Quotas \cup {NoQueue}] /\ call \in [Calls -> TenantCall]
      BY <1>0, TenantShapes DEF TenantTypeOK
    <2>3. \A d \in Calls : call'[d].pc = "queue" => d # c /\ call'[d] = call[d]
      BY <2>1, <2>2
    <2>4. Follows(a)'
      <3> SUFFICES ASSUME a \notin split' PROVE Follows(a)'
        BY DEF Follows
      <3>1. a \notin split /\ Follows(a)
        BY <2>1 DEF QueuesFollow
      <3>2. Waiting("queue", a)' = {}
        <4>1. \A d \in Calls : call[d].pc = "queue" /\ call[d].account = a => d = c
          BY <2>0, <2>1, <3>1 DEF Follows, Waiting
        <4> QED
          BY <2>3, <4>1 DEF Waiting
      <3>3. LiveAccount(a) <=> queue[a] # NoQueue
        BY <3>1 DEF Follows
      <3>4. LiveAccount(a) => call[c].quota = account[a].quota
        BY <2>0, <2>1, <3>1 DEF Follows, Waiting
      <3>5. CASE LiveAccount(a)
        <4>1. queue' = [queue EXCEPT ![a] = call[c].quota]
          BY <2>1, <3>1, <3>3, <3>5
        <4>2. queue'[a] = account[a].quota /\ queue'[a] # NoQueue
          BY <2>2, <3>4, <3>5, <4>1, TenantConstants
        <4>3. LiveAccount(a)' /\ account' = account
          BY <2>1, <3>5 DEF LiveAccount
        <4> QED
          BY <3>2, <4>2, <4>3 DEF Follows
      <3>6. CASE ~LiveAccount(a)
        <4>1. queue'[a] = NoQueue
          BY <2>1, <3>3, <3>6
        <4>2. ~LiveAccount(a)'
          BY <2>1, <3>6 DEF LiveAccount
        <4> QED
          BY <3>2, <4>1, <4>2 DEF Follows
      <3> QED
        BY <3>5, <3>6
    <2>5. ASSUME NEW b \in Accounts, b # a PROVE Follows(b)'
      <3>1. queue'[b] = queue[b] /\ (b \in split' <=> b \in split)
        BY <2>1, <2>2, <2>5
      <3>2. \A d \in Calls : /\ call'[d].pc = "queue" /\ call'[d].account = b <=> call[d].pc = "queue" /\ call[d].account = b
                             /\ call'[d].pc = "queue" => call'[d] = call[d]
        BY <2>0, <2>1, <2>2, <2>5
      <3> QED
        BY <2>1, <3>1, <3>2 DEF QueuesFollow, Follows, LiveAccount, Waiting
    <2>6. \A d \in Calls : call'[d].pc = "queue" => account'[call'[d].account].state # "none"
      BY <2>1, <2>3 DEF QueuesFollow
    <2> QED
      BY <2>4, <2>5, <2>6 DEF QueuesFollow
  <1>5. ASSUME NEW c \in Calls, DeleteAccount(c) PROVE QueuesFollow'
    <2> DEFINE a == call[c].account
    <2>1. /\ call[c].pc = "drop" /\ call' = [call EXCEPT ![c] = NoCall]
          /\ \/ /\ account' = [account EXCEPT ![a] = DeletedAccount] /\ queue' = [queue EXCEPT ![a] = NoQueue]
                /\ UNCHANGED split
             \/ UNCHANGED <<account, queue, split>>
             \/ queue' = [queue EXCEPT ![a] = NoQueue] /\ UNCHANGED account /\ split' = split \cup {a}
      BY <1>5 DEF DeleteAccount, Answer
    <2>2. /\ a \in Accounts /\ NoCall.pc = "idle" /\ DeletedAccount.state = "deleted"
          /\ queue \in [Accounts -> Quotas \cup {NoQueue}] /\ call \in [Calls -> TenantCall]
          /\ account \in [Accounts -> AccountRow]
      BY <1>0, TenantShapes DEF TenantTypeOK
    <2>3. \A d \in Calls : /\ call'[d].pc = "queue" <=> call[d].pc = "queue"
                           /\ call'[d].pc = "queue" => call'[d] = call[d]
      BY <2>1, <2>2
    <2>4. CASE UNCHANGED <<account, queue, split>>
      <3>1. \A d \in Calls : call'[d] = call[d] \/ (call[d].pc # "queue" /\ call'[d].pc # "queue")
        BY <2>3
      <3> QED
        BY <2>4, <3>1, QueueFrame
    <2>5. CASE ~UNCHANGED <<account, queue, split>>
      <3>1. ASSUME NEW b \in Accounts, b # a PROVE Follows(b)'
        <4>1. account'[b] = account[b] /\ queue'[b] = queue[b] /\ (b \in split' <=> b \in split)
          BY <2>1, <2>2, <3>1
        <4> QED
          BY <2>3, <4>1 DEF QueuesFollow, Follows, LiveAccount, Waiting
      <3>2. ASSUME NEW b \in Accounts, b = a PROVE Follows(b)'
        <4>1. CASE b \in split'
          BY <4>1 DEF Follows
        <4>2. CASE b \notin split'
          <5>1. b \notin split /\ queue'[b] = NoQueue /\ account'[b].state = "deleted"
            BY <2>1, <2>2, <2>5, <3>2, <4>2
          <5> QED
            BY <2>3, <5>1 DEF QueuesFollow, Follows, LiveAccount, Waiting
        <4> QED
          BY <4>1, <4>2
      <3>3. \A d \in Calls : call'[d].pc = "queue" => account'[call'[d].account].state # "none"
        BY <1>0, <2>1, <2>2, <2>3 DEF QueuesFollow
      <3> QED
        BY <3>1, <3>2, <3>3 DEF QueuesFollow
    <2> QED
      BY <2>4, <2>5
  <1>6. ASSUME NEW c \in Calls, AddInsert(c) \/ AddDefault(c) PROVE QueuesFollow'
    <2>1. /\ call[c].pc # "queue" /\ call' = [call EXCEPT ![c] = NoCall] /\ UNCHANGED <<account, queue, split>>
      BY <1>6 DEF AddInsert, AddDefault, Answer
    <2>2. \A d \in Calls : call'[d] = call[d] \/ (call[d].pc # "queue" /\ call'[d].pc # "queue")
      BY <2>1, TenantShapes DEF TenantTypeOK
    <2> QED
      BY <2>1, <2>2, QueueFrame
  <1>17. ASSUME NEW c \in Calls, FindMembers(c) PROVE QueuesFollow'
    <2>1. PICK new \in TenantCall : new.pc \in {"idle", "drop"} /\ call' = [call EXCEPT ![c] = new]
      BY <1>17, FindMembersTo
    <2>2. call[c].pc = "delete" /\ UNCHANGED <<account, queue, split>>
      BY <1>17, FindMembersTo
    <2>3. \A d \in Calls : call'[d] = call[d] \/ (call[d].pc # "queue" /\ call'[d].pc # "queue")
      BY <2>1, <2>2 DEF TenantTypeOK
    <2> QED
      BY <2>2, <2>3, QueueFrame
  <1>7. ASSUME NEW c \in Calls, NEW a \in Accounts, NEW u \in Users, NEW g \in Grants,
               CheckMembers(c, a) \/ createUser(c, u) \/ AddUserProject(c, u, a, g)
        PROVE  QueuesFollow'
    <2>1. /\ call[c].pc = "idle" /\ UNCHANGED <<account, queue, split>>
          /\ \/ UNCHANGED call
             \/ call' = [call EXCEPT ![c] = [NoCall EXCEPT !.pc = "delete", !.account = a]]
             \/ call' = [call EXCEPT ![c] = [NoCall EXCEPT !.pc = "default", !.user = u]]
             \/ call' = [call EXCEPT ![c] = [NoCall EXCEPT !.pc = "add", !.user = u, !.account = a, !.grant = g]]
      BY <1>7 DEF CheckMembers, createUser, AddUserProject, Idle, Await
    <2>2. /\ [NoCall EXCEPT !.pc = "delete", !.account = a].pc # "queue"
          /\ [NoCall EXCEPT !.pc = "default", !.user = u].pc # "queue"
          /\ [NoCall EXCEPT !.pc = "add", !.user = u, !.account = a, !.grant = g].pc # "queue"
      BY TenantShapes DEF TenantCall
    <2>3. \A d \in Calls : call'[d] = call[d] \/ (call[d].pc # "queue" /\ call'[d].pc # "queue")
      BY <2>1, <2>2 DEF TenantTypeOK
    <2> QED
      BY <2>1, <2>3, QueueFrame
  <1>8. ASSUME NEW u \in Users, NEW a \in Accounts, NEW g \in Grants,
               UpdateUserProject(u, a, g) \/ PutUserInProject(u, a, g) \/ DeleteUserProject(u, a) \/ DeleteUser(u)
        PROVE  QueuesFollow'
    <2>1. UNCHANGED <<account, queue, split, call>>
      BY <1>8 DEF UpdateUserProject, PutUserInProject, DeleteUserProject, DeleteUser
    <2> QED
      BY <2>1, QueueFrame
  <1>9. CASE UNCHANGED tenantVars
    BY <1>9, QueueFrame DEF tenantVars
  <1>10. Default \in Accounts /\ TheGrant \in Grants
    BY TenantConstants, TenantShapes
  <1>11. (\E u \in Users : TRUE)
    BY TenantAssumption
  <1> HIDE DEF QueuesFollow
  <1> QED
    BY <1>1, <1>2, <1>3, <1>4, <1>5, <1>6, <1>7, <1>8, <1>9, <1>10, <1>11, <1>17, TenantBranches

\* Rows that are left as they are, or end, and accounts and races that stay.
LEMMA RowsFrame ==
    ASSUME AddedInTime, RowsHaveAccounts, UNCHANGED account, raced \subseteq raced',
           \A i \in MemberIds : \/ member'[i].state # "live"
                                \/ member'[i].state = member[i].state /\ member'[i].account = member[i].account
                                \/ member'[i].account = Default \/ LiveAccount(member'[i].account)
                                \/ member'[i].account \in raced,
           \A c \in Calls : \/ call'[c] = call[c] \/ call'[c].pc # "add"
                            \/ LiveAccount(call'[c].account)
    PROVE  AddedInTime' /\ RowsHaveAccounts'
  BY DEF AddedInTime, RowsHaveAccounts, LiveAccount

\* The rows of an account are the live ones that name it.
LEMMA MembersAre ==
    ASSUME TenantTypeOK, NEW a \in Accounts
    PROVE  MembersOf(a) = {i \in MemberIds : member[i].state = "live" /\ member[i].account = a}
  <1>1. \A i \in MemberIds : member[i].user \in Users
    BY DEF TenantTypeOK, MemberRow
  <1> QED
    BY <1>1 DEF MembersOf, RowsOf

\* Every step leaves rows with accounts, but for races.
LEMMA MemberStep ==
    ASSUME TenantTypeOK, AddedInTime, RowsHaveAccounts, [TenantNext]_tenantVars
    PROVE  AddedInTime' /\ RowsHaveAccounts'
  <1>0. /\ \A c \in Calls : call[c] \in TenantCall /\ call[c].account \in Accounts
        /\ member \in [MemberIds -> MemberRow] /\ call \in [Calls -> TenantCall] /\ NoCall.pc = "idle"
        /\ account \in [Accounts -> AccountRow] /\ raced \subseteq Accounts
    BY TenantShapes DEF TenantTypeOK
  <1>1. ASSUME NEW a \in Accounts, NEW u \in Users, NEW q \in Quotas, NEW w \in BOOLEAN, CreateAccount(a, u, q, w)
        PROVE  AddedInTime' /\ RowsHaveAccounts'
    <2>1. /\ account' = [account EXCEPT ![a] = [state |-> "live", quota |-> q]]
          /\ UNCHANGED <<call, raced>>
          /\ FreeIds # {} /\ member' = [member EXCEPT ![Min(FreeIds)] = NewMember(u, a, TheGrant)]
      BY <1>1 DEF CreateAccount, InsertMember
    <2>2. \A b \in Accounts : LiveAccount(b) \/ b = a => LiveAccount(b)'
      BY <1>0, <2>1 DEF LiveAccount
    <2>3. \A i \in MemberIds : member'[i] = member[i] \/ member'[i].account = a
      BY <1>0, <2>1 DEF NewMember
    <2>4. \A i \in MemberIds : member[i].account \in Accounts
      BY <1>0 DEF MemberRow
    <2>5. AddedInTime'
      BY <1>0, <2>1, <2>2 DEF AddedInTime
    <2>6. RowsHaveAccounts'
      BY <2>1, <2>2, <2>3, <2>4 DEF RowsHaveAccounts
    <2> QED
      BY <2>5, <2>6
  <1>2. ASSUME NEW a \in Accounts, NEW q \in Quotas, CreateUncommitted(a, q)
        PROVE  AddedInTime' /\ RowsHaveAccounts'
    <2>1. /\ account[a].state = "none" /\ account' = [account EXCEPT ![a] = [account[a] EXCEPT !.state = "lost"]]
          /\ UNCHANGED <<call, raced, member>>
      BY <1>2 DEF CreateUncommitted
    <2>2. \A b \in Accounts : LiveAccount(b) => LiveAccount(b)'
      BY <1>0, <2>1 DEF LiveAccount
    <2>3. \A i \in MemberIds : member[i].account \in Accounts
      BY <1>0 DEF MemberRow
    <2> QED
      BY <1>0, <2>1, <2>2, <2>3 DEF AddedInTime, RowsHaveAccounts
  <1>3. ASSUME NEW c \in Calls, NEW a \in Accounts, NEW q \in Quotas, NEW w \in BOOLEAN, UpdateRow(c, a, q, w)
        PROVE  AddedInTime' /\ RowsHaveAccounts'
    <2>1. /\ account' = [account EXCEPT ![a] = [account[a] EXCEPT !.quota = q]]
          /\ UNCHANGED <<raced, member>>
          /\ \/ UNCHANGED call
             \/ call' = [call EXCEPT ![c] = [NoCall EXCEPT !.pc = "queue", !.account = a, !.quota = q]]
      BY <1>3 DEF UpdateRow, Await
    <2>2. \A b \in Accounts : LiveAccount(b) => LiveAccount(b)'
      BY <1>0, <2>1 DEF LiveAccount, AccountRow
    <2>3. \A i \in MemberIds : member[i].account \in Accounts
      BY <1>0 DEF MemberRow
    <2>4. [NoCall EXCEPT !.pc = "queue", !.account = a, !.quota = q].pc = "queue"
      BY TenantShapes DEF TenantCall
    <2>5. \A d \in Calls : call'[d] = call[d] \/ call'[d].pc = "queue"
      BY <1>0, <2>1, <2>4
    <2> QED
      BY <1>0, <2>1, <2>2, <2>3, <2>5 DEF AddedInTime, RowsHaveAccounts
  <1>4. ASSUME NEW c \in Calls, updateVolcanoQueue(c) PROVE AddedInTime' /\ RowsHaveAccounts'
    <2>1. UNCHANGED <<account, member, raced>> /\ call' = [call EXCEPT ![c] = NoCall]
      BY <1>4 DEF updateVolcanoQueue, Answer
    <2>2. \A d \in Calls : call'[d] = call[d] \/ call'[d].pc = "idle"
      BY <1>0, <2>1
    <2> QED
      BY <2>1, <2>2, RowsFrame
  <1>5. ASSUME NEW c \in Calls, DeleteAccount(c) PROVE AddedInTime' /\ RowsHaveAccounts'
    <2>0. PICK a \in Accounts : a = call[c].account
      BY <1>0
    <2>1. /\ call[c].pc = "drop" /\ call' = [call EXCEPT ![c] = NoCall]
          /\ \/ /\ member' = [i \in MemberIds |-> IF i \in call[c].found THEN DeletedMember ELSE member[i]]
                /\ account' = [account EXCEPT ![a] = DeletedAccount]
                /\ raced' = IF Missed(c, a) THEN raced \cup {a} ELSE raced
             \/ UNCHANGED <<account, member, raced>>
      BY <1>5, <2>0 DEF DeleteAccount, Answer
    <2>2. \A d \in Calls : (call'[d] = call[d] /\ d # c) \/ call'[d].pc = "idle"
      BY <1>0, <2>1
    <2>3. CASE UNCHANGED <<account, member, raced>>
      BY <2>2, <2>3, RowsFrame
    <2>4. CASE /\ member' = [i \in MemberIds |-> IF i \in call[c].found THEN DeletedMember ELSE member[i]]
               /\ account' = [account EXCEPT ![a] = DeletedAccount]
               /\ raced' = IF Missed(c, a) THEN raced \cup {a} ELSE raced
      <3>1. \A b \in Accounts : LiveAccount(b) /\ b # a => LiveAccount(b)'
        BY <1>0, <2>4 DEF LiveAccount
      <3>2. \A i \in MemberIds : \/ member'[i].state = "deleted"
                                 \/ /\ member'[i] = member[i]
                                    /\ member[i].state = "live" /\ member[i].account = a => a \in raced'
        BY <2>4, MembersAre, TenantShapes DEF Missed
      <3>3. \A i \in MemberIds : member[i].account \in Accounts
        BY <1>0 DEF MemberRow
      <3>4. RowsHaveAccounts'
        BY <2>4, <3>1, <3>2, <3>3 DEF RowsHaveAccounts
      <3>5. \A d \in Calls : call[d].pc = "add" /\ call[d].account = a => a \in raced'
        BY <2>4 DEF Waiting, Missed
      <3>6. AddedInTime'
        BY <1>0, <2>2, <2>4, <3>1, <3>5 DEF AddedInTime
      <3> QED
        BY <3>4, <3>6
    <2> QED
      BY <2>1, <2>3, <2>4
  <1>6. ASSUME NEW c \in Calls, AddInsert(c) \/ AddDefault(c) PROVE AddedInTime' /\ RowsHaveAccounts'
    <2>1. /\ UNCHANGED <<account, raced>> /\ call' = [call EXCEPT ![c] = NoCall]
          /\ \/ UNCHANGED member
             \/ \E g : member' = [member EXCEPT ![Min(FreeIds)] = NewMember(call[c].user, Default, g)]
             \/ \E g : /\ member' = [member EXCEPT ![Min(FreeIds)] = NewMember(call[c].user, call[c].account, g)]
                       /\ call[c].pc = "add"
      BY <1>6 DEF AddInsert, AddDefault, InsertMember, Answer
    <2>2. \A d \in Calls : call'[d] = call[d] \/ call'[d].pc # "add"
      BY <1>0, <2>1
    <2>3. call[c].pc = "add" => LiveAccount(call[c].account) \/ call[c].account \in raced
      BY DEF AddedInTime
    <2>4. \A i \in MemberIds : \/ member'[i] = member[i]
                               \/ member'[i].account = Default
                               \/ member'[i].account = call[c].account /\ call[c].pc = "add"
      BY <1>0, <2>1 DEF NewMember
    <2> QED
      BY <2>1, <2>2, <2>3, <2>4, RowsFrame
  <1>17. ASSUME NEW c \in Calls, FindMembers(c) PROVE AddedInTime' /\ RowsHaveAccounts'
    <2>1. PICK new \in TenantCall : new.pc \in {"idle", "drop"} /\ call' = [call EXCEPT ![c] = new]
      BY <1>17, FindMembersTo
    <2>2. UNCHANGED <<account, member, raced>>
      BY <1>17, FindMembersTo
    <2>3. \A d \in Calls : call'[d] = call[d] \/ call'[d].pc # "add"
      BY <1>0, <2>1
    <2> QED
      BY <2>2, <2>3, RowsFrame
  <1>7. ASSUME NEW c \in Calls, NEW a \in Accounts, NEW u \in Users, NEW g \in Grants,
               CheckMembers(c, a) \/ createUser(c, u) \/ AddUserProject(c, u, a, g)
        PROVE  AddedInTime' /\ RowsHaveAccounts'
    <2>1. /\ UNCHANGED <<account, raced, member>>
          /\ \/ UNCHANGED call
             \/ call' = [call EXCEPT ![c] = [NoCall EXCEPT !.pc = "delete", !.account = a]]
             \/ call' = [call EXCEPT ![c] = [NoCall EXCEPT !.pc = "default", !.user = u]]
             \/ /\ call' = [call EXCEPT ![c] = [NoCall EXCEPT !.pc = "add", !.user = u, !.account = a, !.grant = g]]
                /\ LiveAccount(a)
      BY <1>7 DEF CheckMembers, createUser, AddUserProject, Await
    <2>2. /\ [NoCall EXCEPT !.pc = "delete", !.account = a].pc = "delete"
          /\ [NoCall EXCEPT !.pc = "default", !.user = u].pc = "default"
          /\ [NoCall EXCEPT !.pc = "add", !.user = u, !.account = a, !.grant = g].account = a
      BY TenantShapes DEF TenantCall
    <2>3. \A d \in Calls : call'[d] = call[d] \/ call'[d].pc # "add" \/ LiveAccount(call'[d].account)
      BY <1>0, <2>1, <2>2
    <2> QED
      BY <2>1, <2>3, RowsFrame
  <1>8. ASSUME NEW u \in Users, NEW a \in Accounts, NEW g \in Grants,
               UpdateUserProject(u, a, g) \/ PutUserInProject(u, a, g) \/ DeleteUserProject(u, a) \/ DeleteUser(u)
        PROVE  AddedInTime' /\ RowsHaveAccounts'
    <2>1. UNCHANGED <<account, raced, call>>
      BY <1>8 DEF UpdateUserProject, PutUserInProject, DeleteUserProject, DeleteUser
    <2>2. \A i \in MemberIds : \/ member'[i].state # "live"
                               \/ member'[i].state = member[i].state /\ member'[i].account = member[i].account
      <3>1. CASE UpdateUserProject(u, a, g)
        <4> DEFINE k == FirstRow(RowsOf(u, a))
        <4>1. member' = [member EXCEPT ![k] = [member[k] EXCEPT !.grant = g]]
          BY <3>1 DEF UpdateUserProject
        <4>2. k \in MemberIds
          BY <3>1, RowIds DEF UpdateUserProject, RowsOf
        <4> HIDE DEF k
        <4>3. /\ [member[k] EXCEPT !.grant = g].state = member[k].state
              /\ [member[k] EXCEPT !.grant = g].account = member[k].account
          BY <1>0, <4>2, TenantShapes
        <4>4. \A i \in MemberIds : member'[i] = IF i = k THEN [member[k] EXCEPT !.grant = g] ELSE member[i]
          BY <1>0, <4>1
        <4> QED
          BY <4>3, <4>4
      <3>2. CASE PutUserInProject(u, a, g)
        BY <1>0, <3>2, TenantShapes DEF PutUserInProject
      <3>3. CASE DeleteUserProject(u, a)
        BY <1>0, <3>3, TenantShapes DEF DeleteUserProject
      <3>4. CASE DeleteUser(u)
        BY <3>4 DEF DeleteUser
      <3> QED
        BY <1>8, <3>1, <3>2, <3>3, <3>4
    <2> QED
      BY <2>1, <2>2, RowsFrame
  <1>9. CASE UNCHANGED tenantVars
    BY <1>9, RowsFrame DEF tenantVars
  <1>10. Default \in Accounts /\ TheGrant \in Grants
    BY TenantConstants, TenantShapes
  <1>11. (\E u \in Users : TRUE)
    BY TenantAssumption
  <1> QED
    BY <1>1, <1>2, <1>3, <1>4, <1>5, <1>6, <1>7, <1>8, <1>9, <1>10, <1>11, <1>17, TenantBranches

\* The invariant of accounts, queues, members and the requests that change them
\* (account.go, user.go, auth.go).
THEOREM TenantInvariance == TenantSpec => []TenantInv
  <1>1. TenantInit => TenantInv
    <2> SUFFICES ASSUME TenantInit PROVE TenantInv
      OBVIOUS
    <2>1. TenantTypeOK
      <3>1. account \in [Accounts -> AccountRow] /\ queue \in [Accounts -> Quotas \cup {NoQueue}]
        BY TenantShapes DEF TenantInit, AccountState
      <3>2. member \in [MemberIds -> MemberRow] /\ call \in [Calls -> TenantCall]
        BY TenantShapes DEF TenantInit
      <3>3. user \in [Users -> UserState] /\ raced \in SUBSET Accounts /\ split \in SUBSET Accounts
        BY DEF TenantInit, UserState
      <3>4. mishaps \in 0..MaxMishaps
        BY TenantBounds DEF TenantInit
      <3> QED
        BY <3>1, <3>2, <3>3, <3>4 DEF TenantTypeOK
    <2>2. \A c \in Calls : call[c].pc = "idle"
      BY TenantShapes DEF TenantInit
    <2>3. \A a \in Accounts : Follows(a)
      <3> SUFFICES ASSUME NEW a \in Accounts PROVE Follows(a)
        OBVIOUS
      <3>1. Waiting("queue", a) = {}
        BY <2>2 DEF Waiting
      <3>2. LiveAccount(a) <=> a = Default
        BY DEF TenantInit, LiveAccount
      <3>3. account[a].quota = TheQuota /\ TheQuota # NoQueue
        BY TenantShapes, TenantConstants DEF TenantInit
      <3>4. queue[a] = IF a = Default THEN TheQuota ELSE NoQueue
        BY DEF TenantInit
      <3> QED
        BY <3>1, <3>2, <3>3, <3>4 DEF Follows
    <2>4. \A i \in MemberIds : member[i].state = "none"
      BY TenantShapes DEF TenantInit
    <2> QED
      BY <2>1, <2>2, <2>3, <2>4 DEF TenantInv, QueuesFollow, AddedInTime, RowsHaveAccounts
  <1>2. TenantInv /\ [TenantNext]_tenantVars => TenantInv'
    BY TenantTypeStep, QueueStep, MemberStep DEF TenantInv
  <1> QED
    BY <1>1, <1>2, PTL DEF TenantSpec

\* The queue of an account has the quota of its row, unless something failed or
\* overlapped (UpdateAccount, DeleteAccount).
THEOREM QueuesAlwaysMatch == TenantSpec => []QueuesMatch
  <1>1. TenantInv => QueuesMatch
    BY QueuesFollowMatch DEF TenantInv
  <1> QED
    BY <1>1, TenantInvariance, PTL

\* Members have accounts, unless they were added while the account was deleted.
LEMMA RowsOfAccounts == TenantInv => NoMemberOfDeleted
  BY MembersAre DEF TenantInv, RowsHaveAccounts, NoMemberOfDeleted

\* A deleted account has no members but those that were being added (DeleteAccount,
\* AddUserProject).
THEOREM NoneIsOrphaned == TenantSpec => []NoMemberOfDeleted
  BY RowsOfAccounts, TenantInvariance, PTL

\* A token that was just issued is accepted, switched and shown (Login, AuthProtected,
\* SwitchQueue, Check).
THEOREM FreshTokensWork == TenantSpec => []FreshTokenWorks
  <1>1. TenantInv => FreshTokenWorks
    <2> SUFFICES ASSUME TenantInv, NEW u \in Users, CanLogin(u), Cardinality(RowsOf(u, Login(u).account)) = 1
                 PROVE  /\ AuthProtected(Login(u)) /\ Check(Login(u)) /\ VerifyToken(Login(u))
                        /\ \A a \in ListForUser(u) \ (raced \cup {Default}) :
                              /\ CanSwitch(Login(u), a) /\ AuthProtected(SwitchQueue(Login(u), a))
                              /\ u \in GetUserInProject(a) \ GetUserOutOfProject(a) /\ a \in ListForAdmin
      BY DEF FreshTokenWorks
    <2> DEFINE last == LastRow(Memberships(u))
    <2>1. TenantTypeOK /\ Memberships(u) # {} /\ LiveUser(u) /\ LiveAccount(member[last].account)
      BY DEF CanLogin, TenantInv
    <2>2. last \in Memberships(u)
      BY <2>1, RowIds
    <2>3. last \in MemberIds /\ member[last].account \in Accounts /\ last \in RowsOf(u, member[last].account)
      BY <2>2 DEF Memberships, RowsOf
    <2>4. /\ Login(u).user = u /\ Login(u).account = member[last].account /\ Login(u).grant = member[last].grant
      BY DEF Login
    <2> HIDE DEF last
    <2>5. FirstRow(RowsOf(u, member[last].account)) = last
      <3>1. \A i \in RowsOf(u, member[last].account) : i = last
        <4>1. IsFiniteSet(RowsOf(u, member[last].account))
          <5>1. IsFiniteSet(MemberIds) /\ RowsOf(u, member[last].account) \subseteq MemberIds
            BY TenantBounds, FS_Interval DEF MemberIds, RowsOf
          <5> QED
            BY <5>1, FS_Subset
        <4>2. PICK x : RowsOf(u, member[last].account) = {x}
          BY <2>4, <4>1, FS_Singleton
        <4> QED
          BY <2>3, <4>2
      <3>2. FirstRow(RowsOf(u, member[last].account)) \in RowsOf(u, member[last].account)
        BY <2>3, RowIds
      <3> QED
        BY <3>1, <3>2
    <2>6. AuthProtected(Login(u)) /\ Check(Login(u)) /\ VerifyToken(Login(u))
      BY <2>1, <2>3, <2>4, <2>5 DEF AuthProtected, Check, VerifyToken
    <2>7. ASSUME NEW a \in ListForUser(u) \ (raced \cup {Default})
          PROVE  /\ CanSwitch(Login(u), a) /\ AuthProtected(SwitchQueue(Login(u), a))
                 /\ u \in GetUserInProject(a) \ GetUserOutOfProject(a) /\ a \in ListForAdmin
      <3>1. PICK i \in Memberships(u) : member[i].account = a
        BY DEF ListForUser
      <3>2. a \in Accounts /\ i \in RowsOf(u, a)
        BY <3>1 DEF Memberships, RowsOf
      <3>3. LiveAccount(a)
        BY <3>2 DEF TenantInv, RowsHaveAccounts, RowsOf
      <3>4. /\ SwitchQueue(Login(u), a).user = u
            /\ SwitchQueue(Login(u), a).account = a
            /\ SwitchQueue(Login(u), a).grant = member[FirstRow(RowsOf(u, a))].grant
        <4>1. ASSUME NEW x, NEW y, NEW z, NEW g
              PROVE  LET t == [[user |-> x, account |-> y, grant |-> z] EXCEPT !.account = a, !.grant = g]
                     IN  t.user = x /\ t.account = a /\ t.grant = g
          OBVIOUS
        <4>2. Login(u) = [user |-> u, account |-> member[last].account, grant |-> member[last].grant]
          BY DEF Login, last
        <4> DEFINE g == member[FirstRow(RowsOf(u, a))].grant
                   y == member[last].account
                   z == member[last].grant
        <4>3. SwitchQueue(Login(u), a) = [[user |-> u, account |-> y, grant |-> z] EXCEPT !.account = a, !.grant = g]
          BY <2>4, <4>2, Zenon DEF SwitchQueue
        <4> HIDE DEF g, y, z
        <4>4. /\ [[user |-> u, account |-> y, grant |-> z] EXCEPT !.account = a, !.grant = g].user = u
              /\ [[user |-> u, account |-> y, grant |-> z] EXCEPT !.account = a, !.grant = g].account = a
              /\ [[user |-> u, account |-> y, grant |-> z] EXCEPT !.account = a, !.grant = g].grant = g
          OBVIOUS
        <4> QED
          BY <4>3, <4>4, Zenon DEF g
      <3>5. AuthProtected(SwitchQueue(Login(u), a))
        BY <2>1, <3>2, <3>4 DEF AuthProtected
      <3> QED
        BY <2>1, <2>4, <3>2, <3>3, <3>5 DEF CanSwitch, GetUserInProject, GetUserOutOfProject, ListForAdmin
    <2> QED
      BY <2>6, <2>7
  <1> QED
    BY <1>1, TenantInvariance, PTL

-----------------------------------------------------------------------------
(* Datasets and their shares *)

\* Locations, rows and requests have their shapes.
LEMMA DataShapes ==
    /\ SomeArea \in Areas /\ SomeUser \in Owners /\ Public \in Groups /\ Owners \cap Groups = {}
    /\ NoData \in DataRow /\ NoData.state = "none"
    /\ NoShare \in ShareRow /\ NoShare.state = "none"
    /\ NoOp \in DataOp /\ NoOp.pc = "idle"
    /\ Locations \subseteq Location
    /\ \A url \in Location : redirectDatasetURL(url) \in Location
  <1>1. /\ SomeArea \in Areas /\ SomeUser \in Owners /\ Public \in Groups /\ Owners \cap Groups = {}
        /\ (CHOOSE d \in DataIds : TRUE) \in DataIds
    BY DatasetAssumption DEF SomeArea, SomeUser
  <1>2. NoData \in DataRow /\ NoData.state = "none" /\ NoData.url \in Location
    BY <1>1 DEF NoData, DataRow, Location
  <1>3. NoShare \in ShareRow /\ NoShare.state = "none" /\ NoShare.data \in DataIds
    BY <1>1 DEF NoShare, ShareRow, Sharees
  <1>4. NoOp \in DataOp /\ NoOp.pc = "idle"
    BY <1>1, <1>2, <1>3 DEF NoOp, DataOp, Sharees
  <1>5. Locations \subseteq Location
    <2>1. MaxDepth \in Nat
      BY DatasetAssumption
    <2>2. 0..MaxDepth \subseteq Nat
      BY <2>1
    <2> QED
      BY <2>2 DEF Locations, Location
  <1>6. ASSUME NEW url \in Location
        PROVE  redirectDatasetURL(url) \in Location
    <2>1. url.depth + 1 \in Nat /\ [url EXCEPT !.depth = url.depth + 1] \in Location
      BY DEF Location
    <2> QED
      BY <2>1 DEF redirectDatasetURL
  <1> QED
    BY <1>1, <1>2, <1>3, <1>4, <1>5, <1>6

\* An unused id, and the share that is cancelled, are ids.
LEMMA ShareRows ==
    /\ Unused # {} => Min(Unused) \in ShareIds /\ share[Min(Unused)].state = "none"
    /\ \A s, d : Shares(s, d) # {} => Min(Shares(s, d)) \in Shares(s, d)
  <1>1. ShareIds \subseteq Nat
    BY DatasetAssumption DEF ShareIds
  <1>2. Unused \subseteq Nat /\ \A s, d : Shares(s, d) \subseteq Nat
    BY <1>1 DEF Unused, Shares
  <1>3. Unused # {} => Min(Unused) \in Unused
    BY <1>2, LeastIn
  <1>4. ASSUME NEW s, NEW d, Shares(s, d) # {}
        PROVE  Min(Shares(s, d)) \in Shares(s, d)
    BY <1>2, <1>4, LeastIn
  <1> QED
    BY <1>3, <1>4 DEF Unused

\* An insertion puts a row for the pair at an id that was unused.
LEMMA Inserted ==
    ASSUME DatasetTypeOK, NEW o, NEW s \in Sharees, NEW d \in DataIds, InsertShare(o, s, d)
    PROVE  \E k \in ShareIds :
              /\ share[k].state = "none"
              /\ share'[k].state = "live" /\ share'[k].who = s /\ share'[k].data = d
              /\ \A i \in ShareIds \ {k} : share'[i] = share[i]
              /\ share' \in [ShareIds -> ShareRow]
  <1> DEFINE k == Min(Unused)
             new == [state |-> "live", who |-> s, data |-> d]
  <1>1. k \in ShareIds /\ share[k].state = "none"
    BY ShareRows DEF InsertShare
  <1>2. share' = [share EXCEPT ![k] = new]
    BY DEF InsertShare
  <1>3. new \in ShareRow /\ new.state = "live" /\ new.who = s /\ new.data = d
    BY DEF ShareRow
  <1> HIDE DEF k, new
  <1>4. share' \in [ShareIds -> ShareRow] /\ share'[k] = new /\ \A i \in ShareIds \ {k} : share'[i] = share[i]
    BY <1>1, <1>2, <1>3 DEF DatasetTypeOK
  <1> QED
    BY <1>1, <1>3, <1>4

\* The steps, one by one.
LEMMA DatasetBranches ==
    ASSUME DatasetTypeOK, [DatasetNext]_datasetVars
    PROVE  \/ \E o \in Ops, d \in DataIds, u \in Owners, a \in Areas, p \in BOOLEAN : CreateDataset(o, d, u, a, p)
           \/ \E o \in Ops, d \in DataIds, S \in SUBSET Sharees : ShareWith(o, d, S)
           \/ \E o \in Ops, s \in Sharees : LookForShare(o, s)
           \/ \E o \in Ops : AddShare(o)
           \/ \E o \in Ops, d \in DataIds, url \in Locations : UpdateDataset(o, d, url)
           \/ \E o \in Ops : UpdateColumns(o)
           \/ \E d \in DataIds, s \in Sharees : s # dataset[d].owner /\ CancelShare(s, d)
           \/ \E d \in DataIds : DeleteDataset(d)
           \/ \E s \in Sharees : ShareeDeleted(s)
           \/ UNCHANGED datasetVars
  <1>1. ASSUME NEW o, NEW d, NEW S \in SUBSET Owners, ShareDatasetWithUser(o, d, S)
        PROVE  S \in SUBSET Sharees /\ ShareWith(o, d, S)
    BY <1>1 DEF ShareDatasetWithUser, Sharees
  <1>2. ASSUME NEW o, NEW d, NEW S \in SUBSET Groups, ShareDatasetWithQueue(o, d, S)
        PROVE  S \in SUBSET Sharees /\ ShareWith(o, d, S)
    BY <1>2 DEF ShareDatasetWithQueue, Sharees
  <1>3. ASSUME NEW d \in DataIds, NEW u \in Owners, CancelShareDatasetWithUser(u, d)
        PROVE  u \in Sharees /\ u # dataset[d].owner /\ CancelShare(u, d)
    BY <1>3 DEF CancelShareDatasetWithUser, Sharees
  <1>4. ASSUME NEW d \in DataIds, NEW q \in Groups, CancelShareDatasetWithQueue(q, d)
        PROVE  q \in Sharees /\ q # dataset[d].owner /\ CancelShare(q, d)
    <2>1. dataset[d].owner \in Owners
      BY DEF DatasetTypeOK, DataRow
    <2> QED
      BY <1>4, <2>1, DataShapes DEF CancelShareDatasetWithQueue, Sharees
  <1> QED
    BY <1>1, <1>2, <1>3, <1>4, Zenon DEF DatasetNext

\* The tables and the requests keep their shapes.
LEMMA DatasetTypeStep ==
    ASSUME DatasetTypeOK, [DatasetNext]_datasetVars
    PROVE  DatasetTypeOK'
  <1> USE DataShapes
  <1>0. ASSUME NEW o \in Ops, NEW new \in DataOp, SetOp(o, new)
        PROVE  op' \in [Ops -> DataOp]
    BY <1>0 DEF SetOp, DatasetTypeOK
  <1>1. ASSUME NEW o \in Ops, NEW d \in DataIds, NEW u \in Owners, NEW a \in Areas, NEW p \in BOOLEAN,
               CreateDataset(o, d, u, a, p)
        PROVE  DatasetTypeOK'
    <2>1. [area |-> a, depth |-> 0] \in Location
      BY DEF Location
    <2> DEFINE url == redirectDatasetURL([area |-> a, depth |-> 0])
               row == [NoData EXCEPT !.state = "live", !.owner = u, !.url = url]
    <2>2. url \in Location
      BY <2>1
    <2> HIDE DEF url
    <2>3. row \in DataRow
      BY <2>2 DEF DataRow
    <2>4. dataset' = [dataset EXCEPT ![d] = row]
      BY <1>1 DEF CreateDataset, url
    <2> HIDE DEF row
    <2>5. dataset' \in [DataIds -> DataRow]
      BY <2>3, <2>4 DEF DatasetTypeOK
    <2>6. [NoOp EXCEPT !.pc = "insert", !.data = d, !.who = Public] \in DataOp
      BY DEF DataOp, Sharees
    <2>7. op' \in [Ops -> DataOp]
      BY <1>0, <1>1, <2>6 DEF CreateDataset, DatasetTypeOK
    <2>8. share' \in [ShareIds -> ShareRow]
      BY <1>1, Inserted DEF CreateDataset, Sharees
    <2> QED
      BY <1>1, <2>5, <2>7, <2>8 DEF CreateDataset, DatasetTypeOK
  <1>2. ASSUME NEW o \in Ops, NEW d \in DataIds, NEW S \in SUBSET Sharees, ShareWith(o, d, S)
        PROVE  DatasetTypeOK'
    <2>1. [NoOp EXCEPT !.pc = "look", !.data = d, !.todo = S] \in DataOp
      BY DEF DataOp
    <2> QED
      BY <1>0, <1>2, <2>1 DEF ShareWith, DatasetTypeOK
  <1>3. ASSUME NEW o \in Ops, NEW s \in Sharees, LookForShare(o, s)
        PROVE  DatasetTypeOK'
    <2>1. op[o] \in DataOp
      BY DEF DatasetTypeOK
    <2>2. [op[o] EXCEPT !.pc = "insert", !.who = s, !.todo = op[o].todo \ {s}] \in DataOp
      BY <2>1 DEF DataOp
    <2> QED
      BY <1>0, <1>3, <2>2 DEF LookForShare, DatasetTypeOK
  <1>4. ASSUME NEW o \in Ops, AddShare(o)
        PROVE  DatasetTypeOK'
    <2>1. op[o] \in DataOp /\ op[o].who \in Sharees /\ op[o].data \in DataIds
      BY DEF DatasetTypeOK, DataOp
    <2>2. [op[o] EXCEPT !.pc = "look"] \in DataOp
      BY <2>1 DEF DataOp
    <2>3. share' \in [ShareIds -> ShareRow]
      BY <1>4, <2>1, Inserted DEF AddShare, DatasetTypeOK
    <2>4. op' \in [Ops -> DataOp]
      BY <1>0, <1>4, <2>2 DEF AddShare
    <2> QED
      BY <1>4, <2>3, <2>4 DEF AddShare, DatasetTypeOK
  <1>5. ASSUME NEW o \in Ops, NEW d \in DataIds, NEW url \in Locations, UpdateDataset(o, d, url)
        PROVE  DatasetTypeOK'
    <2> DEFINE real == IF Recognised(url) THEN redirectDatasetURL(url) ELSE url
    <2>1. real \in Location
      BY Zenon
    <2>2. SetOp(o, [NoOp EXCEPT !.pc = "url", !.data = d, !.url = real]) /\ UNCHANGED <<dataset, share>>
      BY <1>5 DEF UpdateDataset
    <2> HIDE DEF real
    <2>3. [NoOp EXCEPT !.pc = "url", !.data = d, !.url = real] \in DataOp
      BY <2>1 DEF DataOp
    <2> QED
      BY <1>0, <1>5, <2>2, <2>3 DEF UpdateDataset, DatasetTypeOK
  <1>6. ASSUME NEW o \in Ops, UpdateColumns(o)
        PROVE  DatasetTypeOK'
    <2>1. op[o].data \in DataIds /\ op[o].url \in Location
      BY DEF DatasetTypeOK, DataOp
    <2>2. \A url \in Location, r \in DataRow : [r EXCEPT !.url = url] \in DataRow
      BY DEF DataRow
    <2> DEFINE d == op[o].data
               url == IF HasData(d) THEN op[o].url ELSE dataset[d].url
    <2>3. dataset[d] \in DataRow /\ dataset[d].url \in Location
      BY <2>1 DEF DatasetTypeOK, DataRow
    <2>4. [dataset[d] EXCEPT !.url = url] \in DataRow
      BY <2>1, <2>2, <2>3
    <2>5. dataset' = [dataset EXCEPT ![d] = [dataset[d] EXCEPT !.url = url]] \/ dataset' = dataset
      BY <1>6, <2>1, <2>3 DEF UpdateColumns, DatasetTypeOK
    <2>6. dataset' \in [DataIds -> DataRow]
      <3> HIDE DEF url, d
      <3> QED
        BY <2>4, <2>5 DEF DatasetTypeOK
    <2> QED
      BY <1>0, <1>6, <2>6 DEF UpdateColumns, DatasetTypeOK
  <1>7. ASSUME NEW d \in DataIds, NEW s \in Sharees, CancelShare(s, d)
        PROVE  DatasetTypeOK'
    <2>1. \A r \in ShareRow : [r EXCEPT !.state = "deleted"] \in ShareRow
      BY DEF ShareRow
    <2> QED
      BY <1>7, <2>1 DEF CancelShare, DatasetTypeOK
  <1>8. ASSUME NEW d \in DataIds, DeleteDataset(d)
        PROVE  DatasetTypeOK'
    <2>1. \A r \in ShareRow : [r EXCEPT !.state = "deleted"] \in ShareRow
      BY DEF ShareRow
    <2>2. \A r \in DataRow : [r EXCEPT !.state = "deleted"] \in DataRow
      BY DEF DataRow
    <2>3. dataset' \in [DataIds -> DataRow]
      BY <1>8, <2>2 DEF DeleteDataset, DatasetTypeOK
    <2>4. share' \in [ShareIds -> ShareRow]
      BY <1>8, <2>1 DEF DeleteDataset, DatasetTypeOK
    <2> QED
      BY <1>8, <2>3, <2>4 DEF DeleteDataset, DatasetTypeOK
  <1>9. ASSUME NEW s \in Sharees, ShareeDeleted(s)
        PROVE  DatasetTypeOK'
    BY <1>9 DEF ShareeDeleted, DatasetTypeOK
  <1>10. ASSUME UNCHANGED datasetVars
         PROVE  DatasetTypeOK'
    BY <1>10 DEF datasetVars, DatasetTypeOK
  <1> QED
    BY <1>1, <1>2, <1>3, <1>4, <1>5, <1>6, <1>7, <1>8, <1>9, <1>10, DatasetBranches

-----------------------------------------------------------------------------
(* What is shared is there *)

\* Nothing goes missing when no dataset is deleted: what is shared afterwards was
\* shared before, or is there.
LEMMA ThereFrame ==
    ASSUME DatasetTypeOK, SharedIsThere, late' = late,
           \A d \in DataIds : dataset'[d].state = dataset[d].state,
           \A i \in ShareIds : share'[i].state = "live" =>
              \/ share[i].state = "live" /\ share'[i].data = share[i].data
              \/ HasData(share'[i].data) \/ share'[i].data \in late,
           \A o \in Ops : op'[o].pc \in {"look", "insert"} =>
              \/ Sharing(o) /\ op'[o].data = op[o].data
              \/ HasData(op'[o].data),
           DatasetTypeOK'
    PROVE  SharedIsThere'
  <1>1. /\ \A i \in ShareIds : share'[i].data \in DataIds
        /\ \A o \in Ops : op'[o].data \in DataIds
    BY DEF DatasetTypeOK, ShareRow, DataOp
  <1>2. \A d \in DataIds : dataset'[d].state = "live" <=> HasData(d)
    BY DEF HasData
  <1>3. \A i \in ShareIds : share'[i].state = "live" => dataset'[share'[i].data].state = "live" \/ share'[i].data \in late'
    BY <1>1, <1>2 DEF SharedIsThere, HasData, Sharing
  <1>4. \A o \in Ops : op'[o].pc \in {"look", "insert"} => dataset'[op'[o].data].state = "live" \/ op'[o].data \in late'
    BY <1>1, <1>2 DEF SharedIsThere, HasData, Sharing
  <1>5. \A d \in late' : dataset'[d].state = "deleted"
    BY DEF SharedIsThere, DatasetTypeOK
  <1> QED
    BY <1>3, <1>4, <1>5 DEF SharedIsThere, HasData, Sharing

\* Every step keeps what is shared there, or says what it took away.
LEMMA ThereStep ==
    ASSUME DatasetInv, [DatasetNext]_datasetVars
    PROVE  SharedIsThere'
  <1> DatasetTypeOK /\ SharedIsThere /\ DatasetTypeOK'
    BY DatasetTypeStep DEF DatasetInv
  <1>0. ASSUME NEW o \in Ops, NEW new, SetOp(o, new)
        PROVE  op'[o] = new /\ \A p \in Ops \ {o} : op'[p] = op[p]
    BY <1>0 DEF SetOp, DatasetTypeOK
  <1>1. ASSUME NEW o \in Ops, NEW d \in DataIds, NEW u \in Owners, NEW a \in Areas, NEW p \in BOOLEAN,
               CreateDataset(o, d, u, a, p)
        PROVE  SharedIsThere'
    <2>1. /\ dataset[d].state = "none" /\ dataset'[d].state = "live"
          /\ \A e \in DataIds \ {d} : dataset'[e] = dataset[e]
      <3> DEFINE row == [NoData EXCEPT !.state = "live", !.owner = u,
                            !.url = redirectDatasetURL([area |-> a, depth |-> 0])]
      <3>2. row.state = "live"
        BY DataShapes DEF DataRow
      <3>3. dataset' = [dataset EXCEPT ![d] = row] /\ dataset[d].state = "none"
        BY <1>1 DEF CreateDataset
      <3> HIDE DEF row
      <3> QED
        BY <3>2, <3>3 DEF DatasetTypeOK
    <2>2. d \notin late /\ late' = late
      BY <1>1, <2>1 DEF CreateDataset, SharedIsThere, HasData, Sharing
    <2>3. \A e \in DataIds : HasData(e) => dataset'[e].state = "live"
      BY <2>1 DEF HasData
    <2>4. dataset'[d].state = "live"
      BY <2>1 DEF HasData
    <2>5. /\ \A i \in ShareIds : share[i].data \in DataIds
          /\ \A q \in Ops : op[q].data \in DataIds
      BY DEF DatasetTypeOK, ShareRow, DataOp
    <2>6. \A i \in ShareIds : share'[i].state = "live" => dataset'[share'[i].data].state = "live" \/ share'[i].data \in late'
      <3>1. PICK k \in ShareIds : share'[k].data = d /\ \A i \in ShareIds \ {k} : share'[i] = share[i]
        BY <1>1, Inserted DEF CreateDataset, Sharees
      <3> QED
        BY <2>2, <2>3, <2>4, <2>5, <3>1 DEF SharedIsThere, HasData, Sharing
    <2>7. \A q \in Ops : op'[q].pc \in {"look", "insert"} => dataset'[op'[q].data].state = "live" \/ op'[q].data \in late'
      <3>1. [NoOp EXCEPT !.pc = "insert", !.data = d, !.who = Public].data = d
        BY DataShapes DEF DataOp
      <3>2. \A q \in Ops : op'[q] = op[q] \/ op'[q].data = d
        BY <1>0, <1>1, <3>1 DEF CreateDataset
      <3> QED
        BY <2>2, <2>3, <2>4, <2>5, <3>2 DEF SharedIsThere, Sharing, HasData
    <2>8. \A e \in late' : dataset'[e].state = "deleted"
      BY <2>1, <2>2 DEF SharedIsThere, DatasetTypeOK, HasData, Sharing
    <2> QED
      BY <2>6, <2>7, <2>8 DEF SharedIsThere, HasData, Sharing
  <1>2. ASSUME NEW o \in Ops, NEW d \in DataIds, NEW S \in SUBSET Sharees, ShareWith(o, d, S)
        PROVE  SharedIsThere'
    <2>1. [NoOp EXCEPT !.pc = "look", !.data = d, !.todo = S].data = d
      BY DataShapes DEF DataOp
    <2>2. HasData(d) /\ UNCHANGED <<dataset, share, late>>
      BY <1>2 DEF ShareWith
    <2>3. \A q \in Ops : op'[q] = op[q] \/ op'[q].data = d
      BY <1>0, <1>2, <2>1 DEF ShareWith
    <2> QED
      BY <2>2, <2>3, ThereFrame DEF Sharing
  <1>3. ASSUME NEW o \in Ops, NEW s \in Sharees, LookForShare(o, s)
        PROVE  SharedIsThere'
    <2>1. [op[o] EXCEPT !.pc = "insert", !.who = s, !.todo = op[o].todo \ {s}].data = op[o].data
      BY DEF DatasetTypeOK, DataOp
    <2>2. op[o].pc = "look" /\ UNCHANGED <<dataset, share, late>>
      BY <1>3 DEF LookForShare
    <2>3. op'[o].data = op[o].data \/ op'[o].pc = "idle"
      BY <1>0, <1>3, <2>1, DataShapes DEF LookForShare
    <2>4. \A q \in Ops \ {o} : op'[q] = op[q]
      BY <1>0, <1>3 DEF LookForShare
    <2> QED
      BY <2>2, <2>3, <2>4, ThereFrame DEF Sharing
  <1>4. ASSUME NEW o \in Ops, AddShare(o)
        PROVE  SharedIsThere'
    <2>1. op[o].who \in Sharees /\ op[o].data \in DataIds /\ Sharing(o)
      BY <1>4 DEF AddShare, DatasetTypeOK, DataOp, Sharing
    <2>2. [op[o] EXCEPT !.pc = "look"].data = op[o].data
      BY DEF DatasetTypeOK, DataOp
    <2>3. \A i \in ShareIds : share'[i] = share[i] \/ share'[i].data = op[o].data
      <3>1. InsertShare(o, op[o].who, op[o].data) \/ share' = share
        BY <1>4 DEF AddShare
      <3> QED
        BY <2>1, <3>1, Inserted
    <2>4. \A q \in Ops : op'[q].pc \in {"look", "insert"} => Sharing(q) /\ op'[q].data = op[q].data
      <3>1. SetOp(o, NoOp) \/ SetOp(o, [op[o] EXCEPT !.pc = "look"])
        BY <1>4 DEF AddShare
      <3>2. op'[o].pc = "idle" \/ op'[o].data = op[o].data
        BY <1>0, <2>2, <3>1, DataShapes
      <3>3. \A q \in Ops \ {o} : op'[q] = op[q]
        BY <1>0, <3>1
      <3> QED
        BY <2>1, <3>2, <3>3 DEF Sharing
    <2> QED
      BY <1>4, <2>1, <2>3, <2>4, ThereFrame DEF AddShare, SharedIsThere, HasData, Sharing
  <1>5. ASSUME NEW o \in Ops, NEW d \in DataIds, NEW url \in Locations, UpdateDataset(o, d, url)
        PROVE  SharedIsThere'
    <2>1. PICK real : SetOp(o, [NoOp EXCEPT !.pc = "url", !.data = d, !.url = real])
      BY <1>5 DEF UpdateDataset
    <2>2. [NoOp EXCEPT !.pc = "url", !.data = d, !.url = real].pc = "url"
      BY DataShapes DEF DataOp
    <2>3. UNCHANGED <<dataset, share, late>>
      BY <1>5 DEF UpdateDataset
    <2>4. op'[o].pc = "url" /\ \A q \in Ops \ {o} : op'[q] = op[q]
      BY <1>0, <2>1, <2>2
    <2> QED
      BY <2>3, <2>4, ThereFrame DEF Sharing
  <1>6. ASSUME NEW o \in Ops, UpdateColumns(o)
        PROVE  SharedIsThere'
    <2>1. \A d \in DataIds : dataset'[d].state = dataset[d].state
      BY <1>6 DEF UpdateColumns, DatasetTypeOK, DataRow
    <2> QED
      BY <1>0, <1>6, <2>1, DataShapes, ThereFrame DEF UpdateColumns, Sharing, HasData
  <1>7. ASSUME NEW d \in DataIds, NEW s \in Sharees, CancelShare(s, d)
        PROVE  SharedIsThere'
    <2>1. \A i \in ShareIds : share'[i] = share[i] \/ share'[i].state = "deleted"
      BY <1>7 DEF CancelShare, DatasetTypeOK, ShareRow
    <2> QED
      BY <1>7, <2>1, ThereFrame DEF CancelShare, Sharing, HasData
  <1>8. ASSUME NEW d \in DataIds, DeleteDataset(d)
        PROVE  SharedIsThere'
    <2>1. /\ dataset'[d].state = "deleted" /\ \A e \in DataIds \ {d} : dataset'[e] = dataset[e]
      BY <1>8 DEF DeleteDataset, DatasetTypeOK, DataRow
    <2>2. \A e \in DataIds \ {d} : HasData(e) => dataset'[e].state = "live"
      BY <2>1 DEF HasData
    <2>3. \A i \in ShareIds : share'[i].state = "live" => share'[i] = share[i] /\ share[i].data # d
      <3>1. ASSUME NEW i \in ShareIds, share[i].state = "live", share[i].data = d
            PROVE  i \in SharesOf(d)
        BY <3>1 DEF SharesOf, Shares, DatasetTypeOK, ShareRow
      <3>2. ASSUME NEW i \in ShareIds
            PROVE  share'[i] = IF i \in SharesOf(d) THEN [share[i] EXCEPT !.state = "deleted"] ELSE share[i]
        BY <1>8 DEF DeleteDataset
      <3>3. \A i \in ShareIds : [share[i] EXCEPT !.state = "deleted"].state = "deleted"
        BY DEF DatasetTypeOK, ShareRow
      <3> QED
        BY <3>1, <3>2, <3>3
    <2>4. /\ \A i \in ShareIds : share[i].data \in DataIds
          /\ \A q \in Ops : op[q].data \in DataIds
      BY DEF DatasetTypeOK, ShareRow, DataOp
    <2>5. late \subseteq late' /\ late' \subseteq late \cup {d} /\ op' = op
      BY <1>8 DEF DeleteDataset
    <2>6. \A i \in ShareIds : share'[i].state = "live" => dataset'[share'[i].data].state = "live" \/ share'[i].data \in late'
      BY <2>2, <2>3, <2>4, <2>5 DEF SharedIsThere, HasData, Sharing
    <2>7. \A q \in Ops : op'[q].pc \in {"look", "insert"} => dataset'[op'[q].data].state = "live" \/ op'[q].data \in late'
      <3>1. ASSUME NEW q \in Ops, Sharing(q), op[q].data = d
            PROVE  d \in late'
        BY <1>8, <3>1 DEF DeleteDataset, Inserting, Sharing
      <3> QED
        BY <2>2, <2>4, <2>5, <3>1 DEF SharedIsThere, Sharing, HasData
    <2>8. \A e \in late' : dataset'[e].state = "deleted"
      BY <2>1, <2>5 DEF SharedIsThere, DatasetTypeOK, HasData, Sharing
    <2> QED
      BY <2>6, <2>7, <2>8 DEF SharedIsThere, HasData, Sharing
  <1>9. ASSUME NEW s \in Sharees, ShareeDeleted(s)
        PROVE  SharedIsThere'
    BY <1>9, ThereFrame DEF ShareeDeleted, Sharing, HasData
  <1>10. ASSUME UNCHANGED datasetVars
         PROVE  SharedIsThere'
    BY <1>10, ThereFrame DEF datasetVars, Sharing, HasData
  <1> QED
    BY <1>1, <1>2, <1>3, <1>4, <1>5, <1>6, <1>7, <1>8, <1>9, <1>10, DatasetBranches

-----------------------------------------------------------------------------
(* The owner's share *)

\* A dataset whose owner stays, and whose owner's share stays, is still his.
LEMMA OwnerFrame ==
    ASSUME DatasetTypeOK, OwnerHasShare, NEW d \in DataIds, HasData(d),
           dataset'[d].owner = dataset[d].owner,
           \A i \in Shares(dataset[d].owner, d) : share'[i] = share[i]
    PROVE  \E i \in ShareIds : /\ share'[i].state = "live" /\ share'[i].data = d
                              /\ share'[i].who = dataset'[d].owner
  BY DEF OwnerHasShare, Shares

\* No step takes it from him: the creator's share cannot be cancelled.
LEMMA OwnerStep ==
    ASSUME DatasetInv, [DatasetNext]_datasetVars
    PROVE  OwnerHasShare'
  <1> DEFINE Has(d) == \E i \in ShareIds : /\ share'[i].state = "live" /\ share'[i].data = d
                                         /\ share'[i].who = dataset'[d].owner
  <1> DatasetTypeOK /\ OwnerHasShare /\ SharedIsThere
    BY DEF DatasetInv
  <1> SUFFICES ASSUME NEW d \in DataIds, dataset'[d].state = "live"
               PROVE  Has(d)
    BY DEF OwnerHasShare, HasData, Shares
  <1>a. ASSUME UNCHANGED share, dataset'[d].state = dataset[d].state, dataset'[d].owner = dataset[d].owner
        PROVE  Has(d)
    BY <1>a, OwnerFrame DEF HasData
  <1>1. ASSUME NEW o \in Ops, NEW e \in DataIds, NEW u \in Owners, NEW a \in Areas, NEW p \in BOOLEAN,
               CreateDataset(o, e, u, a, p)
        PROVE  Has(d)
    <2> DEFINE row == [NoData EXCEPT !.state = "live", !.owner = u,
                          !.url = redirectDatasetURL([area |-> a, depth |-> 0])]
    <2>1. row.owner = u
      BY DataShapes DEF DataRow
    <2>2. dataset' = [dataset EXCEPT ![e] = row]
      BY <1>1 DEF CreateDataset
    <2> HIDE DEF row
    <2>3. dataset'[e].owner = u /\ \A f \in DataIds \ {e} : dataset'[f] = dataset[f]
      BY <2>1, <2>2 DEF DatasetTypeOK
    <2>4. PICK k \in ShareIds : /\ share[k].state = "none" /\ share'[k].state = "live"
                               /\ share'[k].who = u /\ share'[k].data = e
                               /\ \A i \in ShareIds \ {k} : share'[i] = share[i]
      <3>1. InsertShare(o, u, e) /\ u \in Sharees
        BY <1>1 DEF CreateDataset, Sharees
      <3> QED
        BY <3>1, Inserted
    <2>5. CASE d = e
      BY <2>3, <2>4, <2>5
    <2>6. CASE d # e
      BY <2>3, <2>4, <2>6, OwnerFrame DEF HasData, Shares
    <2> QED
      BY <2>5, <2>6
  <1>2. ASSUME NEW o \in Ops, NEW e \in DataIds, NEW S \in SUBSET Sharees, ShareWith(o, e, S)
        PROVE  Has(d)
    BY <1>a, <1>2 DEF ShareWith
  <1>3. ASSUME NEW o \in Ops, NEW s \in Sharees, LookForShare(o, s)
        PROVE  Has(d)
    BY <1>a, <1>3 DEF LookForShare
  <1>4. ASSUME NEW o \in Ops, AddShare(o)
        PROVE  Has(d)
    <2>1. op[o].who \in Sharees /\ op[o].data \in DataIds /\ dataset' = dataset
      BY <1>4 DEF AddShare, DatasetTypeOK, DataOp
    <2>2. InsertShare(o, op[o].who, op[o].data) \/ share' = share
      BY <1>4 DEF AddShare
    <2>3. \A i \in ShareIds : share[i].state = "live" => share'[i] = share[i]
      <3>1. CASE InsertShare(o, op[o].who, op[o].data)
        <4>1. PICK k \in ShareIds : /\ share[k].state = "none"
                                   /\ \A i \in ShareIds \ {k} : share'[i] = share[i]
          BY <2>1, <3>1, Inserted
        <4> QED
          BY <4>1
      <3> QED
        BY <2>2, <3>1
    <2> QED
      BY <2>1, <2>3, OwnerFrame DEF HasData, Shares
  <1>5. ASSUME NEW o \in Ops, NEW e \in DataIds, NEW url \in Locations, UpdateDataset(o, e, url)
        PROVE  Has(d)
    BY <1>a, <1>5 DEF UpdateDataset
  <1>6. ASSUME NEW o \in Ops, UpdateColumns(o)
        PROVE  Has(d)
    <2>1. dataset'[d].state = dataset[d].state /\ dataset'[d].owner = dataset[d].owner
      BY <1>6 DEF UpdateColumns, DatasetTypeOK, DataRow
    <2> QED
      BY <1>a, <1>6, <2>1 DEF UpdateColumns
  <1>7. ASSUME NEW e \in DataIds, NEW s \in Sharees, s # dataset[e].owner, CancelShare(s, e)
        PROVE  Has(d)
    <2>1. Min(Shares(s, e)) \in Shares(s, e) /\ dataset' = dataset
      BY <1>7, ShareRows DEF CancelShare
    <2> DEFINE k == Min(Shares(s, e))
    <2>2. k \in ShareIds /\ share[k].who = s /\ share[k].data = e
      BY <2>1 DEF Shares
    <2> HIDE DEF k
    <2>3. share' = [share EXCEPT ![k].state = "deleted"]
      BY <1>7 DEF CancelShare, k
    <2>4. \A i \in Shares(dataset[d].owner, d) : share'[i] = share[i]
      BY <1>7, <2>2, <2>3 DEF Shares, DatasetTypeOK
    <2> QED
      BY <2>1, <2>4, OwnerFrame DEF HasData
  <1>8. ASSUME NEW e \in DataIds, DeleteDataset(e)
        PROVE  Has(d)
    <2>1. d # e /\ dataset'[d] = dataset[d]
      BY <1>8 DEF DeleteDataset, DatasetTypeOK, DataRow
    <2>2. \A i \in ShareIds : share[i].data # e => share'[i] = share[i]
      BY <1>8 DEF DeleteDataset, SharesOf, Shares
    <2> QED
      BY <2>1, <2>2, OwnerFrame DEF HasData, Shares
  <1>9. ASSUME NEW s \in Sharees, ShareeDeleted(s)
        PROVE  Has(d)
    BY <1>a, <1>9 DEF ShareeDeleted
  <1>10. ASSUME UNCHANGED datasetVars
         PROVE  Has(d)
    BY <1>a, <1>10 DEF datasetVars
  <1> HIDE DEF Has
  <1> QED
    BY <1>1, <1>2, <1>3, <1>4, <1>5, <1>6, <1>7, <1>8, <1>9, <1>10, DatasetBranches

-----------------------------------------------------------------------------
(* One share of a pair *)

\* Nothing is shared twice by a step that inserts no row and finds no pair free that
\* is taken, but for a lookup that failed.
LEMMA TwiceFrame ==
    ASSUME DatasetTypeOK, SharedTwice, twice \subseteq twice',
           \A i \in ShareIds : share'[i].state = "live" => share'[i] = share[i],
           \A q \in Ops : op'[q].pc = "insert" =>
              \/ op'[q] = op[q] \/ Shares(op'[q].who, op'[q].data) = {}
              \/ <<op'[q].who, op'[q].data>> \in twice'
    PROVE  SharedTwice'
  <1>1. \A s, d : {i \in ShareIds : share'[i].state = "live" /\ share'[i].who = s /\ share'[i].data = d}
                     \subseteq Shares(s, d)
    BY DEF Shares
  <1>2. \A i, j \in ShareIds :
           /\ share'[i].state = "live" /\ share'[j].state = "live"
           /\ share'[i].who = share'[j].who /\ share'[i].data = share'[j].data
           => i = j \/ <<share'[i].who, share'[i].data>> \in twice'
    BY DEF SharedTwice
  <1>3. ASSUME NEW q \in Ops, op'[q].pc = "insert", NEW i \in ShareIds, share'[i].state = "live",
               share'[i].who = op'[q].who, share'[i].data = op'[q].data
        PROVE  <<op'[q].who, op'[q].data>> \in twice'
    <2>1. i \in Shares(op'[q].who, op'[q].data)
      BY <1>3 DEF Shares
    <2> QED
      BY <1>3, <2>1 DEF SharedTwice
  <1> QED
    BY <1>2, <1>3 DEF SharedTwice, Shares

\* A row that is inserted for a taken pair, or while another request is about to, is
\* known to be a second one.
LEMMA TwiceInsert ==
    ASSUME DatasetTypeOK, SharedTwice, NEW o \in Ops, NEW s \in Sharees, NEW d \in DataIds,
           InsertShare(o, s, d), Shares(s, d) # {} => <<s, d>> \in twice,
           \A q \in Ops \ {o} : op'[q] = op[q],
           op'[o].pc = "insert" => op'[o].who # s /\ Shares(op'[o].who, op'[o].data) = {}
    PROVE  SharedTwice'
  <1>1. PICK k \in ShareIds : /\ share[k].state = "none" /\ share'[k].state = "live"
                             /\ share'[k].who = s /\ share'[k].data = d
                             /\ \A i \in ShareIds \ {k} : share'[i] = share[i]
    BY Inserted
  <1>2. twice \subseteq twice'
    BY DEF InsertShare
  <1>3. ASSUME NEW i \in ShareIds \ {k}, share'[i].state = "live", share'[i].who = s, share'[i].data = d
        PROVE  <<s, d>> \in twice'
    BY <1>1, <1>2, <1>3 DEF Shares
  <1>4. ASSUME NEW i \in ShareIds, NEW j \in ShareIds, i # j,
               share'[i].state = "live", share'[j].state = "live",
               share'[i].who = share'[j].who, share'[i].data = share'[j].data
        PROVE  <<share'[i].who, share'[i].data>> \in twice'
    <2>1. CASE i # k /\ j # k
      BY <1>1, <1>2, <1>4, <2>1 DEF SharedTwice
    <2>2. CASE i = k
      BY <1>1, <1>3, <1>4, <2>2
    <2>3. CASE j = k
      BY <1>1, <1>3, <1>4, <2>3
    <2> QED
      BY <2>1, <2>2, <2>3
  <1>5. ASSUME NEW q \in Ops, op'[q].pc = "insert", NEW i \in ShareIds, share'[i].state = "live",
               share'[i].who = op'[q].who, share'[i].data = op'[q].data
        PROVE  <<op'[q].who, op'[q].data>> \in twice'
    <2>1. CASE q = o
      BY <1>1, <1>5, <2>1 DEF Shares
    <2>2. CASE q # o /\ i # k
      <3>1. i \in Shares(op[q].who, op[q].data) /\ op'[q] = op[q]
        BY <1>1, <1>5, <2>2 DEF Shares
      <3> QED
        BY <1>2, <1>5, <3>1 DEF SharedTwice
    <2>3. CASE q # o /\ i = k
      BY <1>1, <1>5, <2>3 DEF InsertShare
    <2> QED
      BY <2>1, <2>2, <2>3
  <1> QED
    BY <1>4, <1>5 DEF SharedTwice, Shares

\* Every step keeps the pairs single, or says that two requests met or a lookup failed.
LEMMA TwiceStep ==
    ASSUME DatasetInv, [DatasetNext]_datasetVars
    PROVE  SharedTwice'
  <1> DatasetTypeOK /\ SharedTwice /\ SharedIsThere
    BY DEF DatasetInv
  <1>0. ASSUME NEW o \in Ops, NEW new, SetOp(o, new)
        PROVE  op'[o] = new /\ \A p \in Ops \ {o} : op'[p] = op[p]
    BY <1>0 DEF SetOp, DatasetTypeOK
  <1>1. ASSUME NEW o \in Ops, NEW d \in DataIds, NEW u \in Owners, NEW a \in Areas, NEW p \in BOOLEAN,
               CreateDataset(o, d, u, a, p)
        PROVE  SharedTwice'
    <2>1. \A s : Shares(s, d) = {}
      <3>1. dataset[d].state = "none"
        BY <1>1 DEF CreateDataset
      <3>2. d \notin late
        BY <3>1 DEF SharedIsThere
      <3> QED
        BY <3>1, <3>2 DEF SharedIsThere, Shares, HasData
    <2> DEFINE new == [NoOp EXCEPT !.pc = "insert", !.data = d, !.who = Public]
    <2>2. new.data = d /\ new.who = Public
      BY DataShapes DEF DataOp
    <2>3. InsertShare(o, u, d) /\ (SetOp(o, new) \/ op' = op) /\ op[o].pc = "idle"
      BY <1>1 DEF CreateDataset
    <2> HIDE DEF new
    <2>4. \A q \in Ops \ {o} : op'[q] = op[q]
      BY <1>0, <2>3
    <2>5. op'[o].pc = "insert" => op'[o].who = Public /\ op'[o].data = d
      BY <1>0, <2>2, <2>3
    <2>6. u # Public /\ u \in Sharees
      BY DataShapes DEF Sharees
    <2> QED
      BY <2>1, <2>3, <2>4, <2>5, <2>6, TwiceInsert
  <1>2. ASSUME NEW o \in Ops, NEW d \in DataIds, NEW S \in SUBSET Sharees, ShareWith(o, d, S)
        PROVE  SharedTwice'
    <2>1. [NoOp EXCEPT !.pc = "look", !.data = d, !.todo = S].pc = "look"
      BY DataShapes DEF DataOp
    <2>2. op'[o].pc = "look" /\ \A q \in Ops \ {o} : op'[q] = op[q]
      BY <1>0, <1>2, <2>1 DEF ShareWith
    <2>3. UNCHANGED <<share, twice>>
      BY <1>2 DEF ShareWith
    <2> QED
      BY <2>2, <2>3, TwiceFrame
  <1>3. ASSUME NEW o \in Ops, NEW s \in Sharees, LookForShare(o, s)
        PROVE  SharedTwice'
    <2> DEFINE new == [op[o] EXCEPT !.pc = "insert", !.who = s, !.todo = op[o].todo \ {s}]
    <2>1. new.data = op[o].data /\ new.who = s
      BY DEF DatasetTypeOK, DataOp
    <2>2. /\ \/ SetOp(o, NoOp)
             \/ SetOp(o, new) /\ Shares(s, op[o].data) = {}
             \/ SetOp(o, new) /\ <<s, op[o].data>> \in twice'
          /\ share' = share /\ twice \subseteq twice'
      BY <1>3 DEF LookForShare
    <2> HIDE DEF new
    <2>3. /\ \/ op'[o].pc = "idle"
             \/ /\ op'[o].who = s /\ op'[o].data = op[o].data
                /\ Shares(s, op[o].data) = {} \/ <<s, op[o].data>> \in twice'
          /\ \A q \in Ops \ {o} : op'[q] = op[q]
      BY <1>0, <2>1, <2>2, DataShapes
    <2> QED
      BY <2>2, <2>3, TwiceFrame
  <1>4. ASSUME NEW o \in Ops, AddShare(o)
        PROVE  SharedTwice'
    <2>1. op[o].who \in Sharees /\ op[o].data \in DataIds /\ op[o].pc = "insert"
      BY <1>4 DEF AddShare, DatasetTypeOK, DataOp
    <2>2. [op[o] EXCEPT !.pc = "look"].pc = "look"
      BY DEF DatasetTypeOK, DataOp
    <2>3. SetOp(o, NoOp) \/ SetOp(o, [op[o] EXCEPT !.pc = "look"])
      BY <1>4 DEF AddShare
    <2>4. op'[o].pc # "insert" /\ \A q \in Ops \ {o} : op'[q] = op[q]
      BY <1>0, <2>2, <2>3, DataShapes
    <2>5. InsertShare(o, op[o].who, op[o].data) \/ UNCHANGED <<share, twice>>
      BY <1>4 DEF AddShare
    <2>6. CASE InsertShare(o, op[o].who, op[o].data)
      BY <2>1, <2>4, <2>6, TwiceInsert DEF SharedTwice
    <2>7. CASE UNCHANGED <<share, twice>>
      BY <2>4, <2>7, TwiceFrame
    <2> QED
      BY <2>5, <2>6, <2>7
  <1>5. ASSUME NEW o \in Ops, NEW d \in DataIds, NEW url \in Locations, UpdateDataset(o, d, url)
        PROVE  SharedTwice'
    <2>1. PICK real : SetOp(o, [NoOp EXCEPT !.pc = "url", !.data = d, !.url = real])
      BY <1>5 DEF UpdateDataset
    <2>2. [NoOp EXCEPT !.pc = "url", !.data = d, !.url = real].pc = "url"
      BY DataShapes DEF DataOp
    <2>3. op'[o].pc = "url" /\ \A q \in Ops \ {o} : op'[q] = op[q]
      BY <1>0, <2>1, <2>2
    <2>4. UNCHANGED <<share, twice>>
      BY <1>5 DEF UpdateDataset
    <2> QED
      BY <2>3, <2>4, TwiceFrame
  <1>6. ASSUME NEW o \in Ops, UpdateColumns(o)
        PROVE  SharedTwice'
    <2>1. SetOp(o, NoOp) /\ UNCHANGED <<share, twice>>
      BY <1>6 DEF UpdateColumns
    <2>2. op'[o].pc = "idle" /\ \A q \in Ops \ {o} : op'[q] = op[q]
      BY <1>0, <2>1, DataShapes
    <2> QED
      BY <2>1, <2>2, TwiceFrame
  <1>7. ASSUME NEW d \in DataIds, NEW s \in Sharees, CancelShare(s, d)
        PROVE  SharedTwice'
    <2>1. \A i \in ShareIds : share'[i] = share[i] \/ share'[i].state = "deleted"
      BY <1>7 DEF CancelShare, DatasetTypeOK, ShareRow
    <2>2. UNCHANGED <<op, twice>>
      BY <1>7 DEF CancelShare
    <2> QED
      BY <2>1, <2>2, TwiceFrame
  <1>8. ASSUME NEW d \in DataIds, DeleteDataset(d)
        PROVE  SharedTwice'
    <2>1. \A i \in ShareIds : share'[i] = share[i] \/ share'[i].state = "deleted"
      BY <1>8 DEF DeleteDataset, DatasetTypeOK, ShareRow
    <2>2. UNCHANGED <<op, twice>>
      BY <1>8 DEF DeleteDataset
    <2> QED
      BY <2>1, <2>2, TwiceFrame
  <1>9. ASSUME NEW s \in Sharees, ShareeDeleted(s)
        PROVE  SharedTwice'
    BY <1>9, TwiceFrame DEF ShareeDeleted
  <1>10. ASSUME UNCHANGED datasetVars
         PROVE  SharedTwice'
    BY <1>10, TwiceFrame DEF datasetVars
  <1> QED
    BY <1>1, <1>2, <1>3, <1>4, <1>5, <1>6, <1>7, <1>8, <1>9, <1>10, DatasetBranches

-----------------------------------------------------------------------------
\* The invariant of datasets and shares.
THEOREM DatasetInvariance == DatasetSpec => []DatasetInv
  <1>1. DatasetInit => DatasetInv
    <2> SUFFICES ASSUME DatasetInit PROVE DatasetInv
      OBVIOUS
    <2>1. DatasetTypeOK
      BY DataShapes DEF DatasetInit, DatasetTypeOK
    <2>2. SharedIsThere
      BY DataShapes DEF DatasetInit, SharedIsThere, Sharing
    <2>3. OwnerHasShare
      BY DataShapes DEF DatasetInit, OwnerHasShare, HasData
    <2>4. SharedTwice
      BY DataShapes DEF DatasetInit, SharedTwice
    <2> QED
      BY <2>1, <2>2, <2>3, <2>4 DEF DatasetInv
  <1>2. DatasetInv /\ [DatasetNext]_datasetVars => DatasetInv'
    <2> SUFFICES ASSUME DatasetInv, [DatasetNext]_datasetVars PROVE DatasetInv'
      OBVIOUS
    <2>1. DatasetTypeOK'
      BY DatasetTypeStep DEF DatasetInv
    <2> QED
      BY <2>1, ThereStep, OwnerStep, TwiceStep DEF DatasetInv
  <1> QED
    BY <1>1, <1>2, PTL DEF DatasetSpec

\* Lists of datasets are whole.
THEOREM ListsAreWhole == DatasetSpec => []SharesAreListed
  <1>1. DatasetInv => SharesAreListed
    <2> SUFFICES ASSUME DatasetInv PROVE SharesAreListed
      OBVIOUS
    <2> DatasetTypeOK /\ SharedIsThere /\ OwnerHasShare /\ SharedTwice
      BY DEF DatasetInv
    <2>1. ASSUME NEW u \in Owners, NEW a \in Groups, GetDatasetsFails(u, a)
          PROVE  GetDatasets(u, a) \cap late # {}
      <3>1. PICK d \in GetDatasets(u, a) : ~HasData(d)
        BY <2>1 DEF GetDatasetsFails
      <3>2. \E i \in ShareIds : share[i].state = "live" /\ share[i].data = d
        BY <3>1 DEF GetDatasets, Shown
      <3> QED
        BY <3>1, <3>2 DEF SharedIsThere
    <2>2. ASSUME NEW u \in Owners, NEW a \in Groups, NEW d \in GetAllDataset, dataset[d].owner = u
          PROVE  d \in GetDatasets(u, a)
      <3>1. d \in DataIds /\ HasData(d)
        BY <2>2 DEF GetAllDataset
      <3>2. Shares(u, d) # {}
        BY <2>2, <3>1 DEF OwnerHasShare
      <3> QED
        BY <3>2 DEF Shares, GetDatasets, Shown
    <2>3. ASSUME NEW s \in Sharees, NEW d \in DataIds, Cardinality(Shares(s, d)) > 1
          PROVE  <<s, d>> \in twice
      <3>1. IsFiniteSet(Shares(s, d))
        <4>1. MaxShares \in Nat /\ 1 \in Int
          BY DatasetAssumption
        <4>2. IsFiniteSet(ShareIds)
          BY <4>1, FS_Interval DEF ShareIds
        <4>3. Shares(s, d) \subseteq ShareIds
          BY DEF Shares
        <4> QED
          BY <4>2, <4>3, FS_Subset
      <3>2. \E i, j \in Shares(s, d) : i # j
        <4>1. SUFFICES ASSUME \A i, j \in Shares(s, d) : i = j
                       PROVE  FALSE
          OBVIOUS
        <4>2. CASE Shares(s, d) = {}
          BY <2>3, <4>2, FS_EmptySet
        <4>3. CASE Shares(s, d) # {}
          <5>1. PICK i \in Shares(s, d) : TRUE
            BY <4>3
          <5>2. Shares(s, d) = {i}
            BY <4>1, <5>1
          <5>3. Cardinality(Shares(s, d)) = 1
            BY <3>1, <5>2, FS_Singleton
          <5> QED
            BY <2>3, <5>3
        <4> QED
          BY <4>2, <4>3
      <3> QED
        BY <3>2 DEF SharedTwice, Shares
    <2> QED
      BY <2>1, <2>2, <2>3 DEF SharesAreListed
  <1> QED
    BY <1>1, DatasetInvariance, PTL

-----------------------------------------------------------------------------
(* The keyed queue *)

\* A new key is put at the end.
LEMMA KeyAppended ==
    ASSUME NEW S, NEW s \in Seq(S), NEW H, OnceBut(s, H), NEW e \in S, e \notin ToSet(s) \/ e \in H
    PROVE  /\ Append(s, e) \in Seq(S) /\ OnceBut(Append(s, e), H)
           /\ ToSet(Append(s, e)) = ToSet(s) \cup {e}
  <1> DEFINE n == Len(s)
             t == Append(s, e)
  <1>1. /\ t \in Seq(S) /\ Len(t) = n + 1 /\ \A i \in 1..n : t[i] = s[i]
        /\ t[n + 1] = e /\ n \in Nat
    BY AppendProperties, LenProperties
  <1>2. DOMAIN s = 1..n /\ DOMAIN t = 1..(n + 1)
    BY <1>1, LenProperties
  <1> HIDE DEF n, t
  <1>3. ToSet(t) = ToSet(s) \cup {e}
    BY <1>1, <1>2 DEF ToSet
  <1>4. \A i \in 1..n : t[i] # e \/ e \in H
    BY <1>1, <1>2 DEF ToSet
  <1>5. OnceBut(t, H)
    BY <1>1, <1>2, <1>4 DEF OnceBut
  <1> QED
    BY <1>1, <1>3, <1>5 DEF t

\* The last key is taken off.
LEMMA KeyTaken ==
    ASSUME NEW S, NEW s \in Seq(S), NEW H, OnceBut(s, H), s # <<>>
    PROVE  /\ Front(s) \in Seq(S) /\ OnceBut(Front(s), H) /\ Last(s) \in ToSet(s)
           /\ ToSet(s) = ToSet(Front(s)) \cup {Last(s)}
  <1> DEFINE n == Len(s)
             t == SubSeq(s, 1, n - 1)
  <1>1. n \in Nat /\ n # 0 /\ DOMAIN s = 1..n /\ \A i \in 1..n : s[i] \in S
    BY LenProperties, ElementOfSeq, EmptySeq
  <1>2. t \in Seq(S) /\ Len(t) = n - 1 /\ \A i \in 1..(n - 1) : t[i] = s[i]
    <2>1. n - 1 \in Int /\ \A i \in 1..(n - 1) : s[i] \in S
      BY <1>1
    <2>2. t \in Seq(S) /\ Len(t) = (IF 1 <= n - 1 THEN n - 1 - 1 + 1 ELSE 0)
          /\ \A i \in 1..(n - 1 - 1 + 1) : t[i] = s[1 + i - 1]
      BY <2>1, SubSeqProperties
    <2>3. n - 1 - 1 + 1 = n - 1 /\ \A i \in 1..(n - 1) : 1 + i - 1 = i
      BY <1>1
    <2> QED
      BY <1>1, <2>2, <2>3
  <1>3. DOMAIN t = 1..(n - 1)
    BY <1>2, LenProperties
  <1> HIDE DEF n, t
  <1>4. Front(s) = t /\ Last(s) = s[n]
    BY DEF Front, Last, n, t
  <1>5. OnceBut(t, H)
    BY <1>1, <1>2, <1>3 DEF OnceBut
  <1>7. 1..n = 1..(n - 1) \cup {n}
    BY <1>1
  <1>8. ToSet(t) = {s[i] : i \in 1..(n - 1)}
    BY <1>2, <1>3 DEF ToSet
  <1>9. ToSet(s) = {s[i] : i \in 1..(n - 1)} \cup {s[n]}
    BY <1>1, <1>7 DEF ToSet
  <1> QED
    BY <1>2, <1>4, <1>5, <1>8, <1>9

\* A key is taken out of the middle.
LEMMA KeyRemoved ==
    ASSUME NEW S, NEW s \in Seq(S), NEW H, OnceBut(s, H), NEW e
    PROVE  /\ RemoveFirst(s, e) \in Seq(S) /\ OnceBut(RemoveFirst(s, e), H)
           /\ ToSet(RemoveFirst(s, e)) \subseteq ToSet(s) /\ ToSet(s) \ {e} \subseteq ToSet(RemoveFirst(s, e))
           /\ e \in ToSet(RemoveFirst(s, e)) => e \in H
  <1> DEFINE n == Len(s)
             I == {i \in 1..n : s[i] = e}
  <1>1. n \in Nat /\ DOMAIN s = 1..n /\ \A i \in 1..n : s[i] \in S
    BY LenProperties, ElementOfSeq
  <1>2. CASE I = {}
    <2>1. RemoveFirst(s, e) = s
      BY <1>2 DEF RemoveFirst
    <2>2. e \notin ToSet(s)
      BY <1>1, <1>2 DEF ToSet
    <2> QED
      BY <2>1, <2>2
  <1>3. CASE I # {}
    <2> DEFINE k == Min(I)
    <2>1. I \subseteq Nat
      BY <1>1
    <2>2. k \in I
      <3> HIDE DEF I
      <3> QED
        BY <1>3, <2>1, LeastIn
    <2>3. k \in 1..n /\ s[k] = e
      BY <2>2
    <2>4. RemoveFirst(s, e) = SubSeq(s, 1, k - 1) \o SubSeq(s, k + 1, n)
      <3>1. \E i \in 1..Len(s) : s[i] = e
        BY <2>3
      <3>2. SelectInSeq(s, LAMBDA v : v = e) = k
        BY <1>3 DEF SelectInSeq
      <3> QED
        BY <3>1, <3>2 DEF RemoveFirst, RemoveAt
    <2> HIDE DEF k, I
    <2> DEFINE a == SubSeq(s, 1, k - 1)
               b == SubSeq(s, k + 1, n)
    <2>5. a \in Seq(S) /\ Len(a) = k - 1 /\ \A i \in 1..(k - 1) : a[i] = s[i]
      <3>1. k - 1 \in Int /\ \A i \in 1..(k - 1) : s[i] \in S
        BY <1>1, <2>3
      <3>2. a \in Seq(S) /\ Len(a) = (IF 1 <= k - 1 THEN k - 1 - 1 + 1 ELSE 0)
            /\ \A i \in 1..(k - 1 - 1 + 1) : a[i] = s[1 + i - 1]
        BY <3>1, SubSeqProperties
      <3>3. k - 1 - 1 + 1 = k - 1 /\ \A i \in 1..(k - 1) : 1 + i - 1 = i
        BY <2>3
      <3> QED
        BY <1>1, <2>3, <3>2, <3>3
    <2>6. b \in Seq(S) /\ Len(b) = n - k /\ \A i \in 1..(n - k) : b[i] = s[k + i]
      <3>1. k + 1 \in Int /\ n \in Int /\ \A i \in (k + 1)..n : s[i] \in S
        BY <1>1, <2>3
      <3>2. b \in Seq(S) /\ Len(b) = (IF k + 1 <= n THEN n - (k + 1) + 1 ELSE 0)
            /\ \A i \in 1..(n - (k + 1) + 1) : b[i] = s[(k + 1) + i - 1]
        BY <3>1, SubSeqProperties
      <3>3. n - (k + 1) + 1 = n - k
        BY <1>1, <2>3
      <3> HIDE DEF b
      <3>4. Len(b) = n - k
        <4>1. CASE k = n
          BY <1>1, <2>3, <3>2, <4>1
        <4>2. CASE k # n
          <5>1. k + 1 <= n
            <6>1. \A m \in Nat : \A x \in 1..m : x # m => x + 1 <= m
              OBVIOUS
            <6> HIDE DEF n
            <6> QED
              BY <1>1, <2>3, <4>2, <6>1
          <5>2. Len(b) = n - (k + 1) + 1
            BY <3>2, <5>1
          <5> QED
            BY <3>3, <5>2
        <4> QED
          BY <4>1, <4>2
      <3>5. ASSUME NEW i \in 1..(n - k)
            PROVE  b[i] = s[k + i]
        <4>1. (k + 1) + i - 1 = k + i
          BY <1>1, <2>3
        <4>2. b[i] = s[(k + 1) + i - 1]
          BY <3>2, <3>3
        <4> QED
          BY <4>1, <4>2
      <3> QED
        BY <3>2, <3>4, <3>5
    <2> HIDE DEF a, b
    <2> DEFINE r == a \o b
    <2>7. /\ r \in Seq(S) /\ Len(r) = n - 1
          /\ \A i \in 1..(n - 1) : r[i] = IF i < k THEN s[i] ELSE s[i + 1]
      <3>1. /\ r \in Seq(S) /\ Len(r) = Len(a) + Len(b)
            /\ \A i \in 1..(Len(a) + Len(b)) : r[i] = IF i <= Len(a) THEN a[i] ELSE b[i - Len(a)]
        BY <2>5, <2>6, ConcatProperties
      <3>2. Len(a) + Len(b) = n - 1
        BY <1>1, <2>3, <2>5, <2>6
      <3>3. ASSUME NEW i \in 1..(n - 1)
            PROVE  r[i] = IF i < k THEN s[i] ELSE s[i + 1]
        <4>1. CASE i < k
          BY <1>1, <2>3, <2>5, <3>1, <3>2, <4>1
        <4>2. CASE ~(i < k)
          <5>1. ~(i <= Len(a)) /\ i - Len(a) \in 1..(n - k) /\ k + (i - Len(a)) = i + 1
            BY <1>1, <2>3, <2>5, <4>2
          <5> QED
            BY <2>6, <3>1, <3>2, <4>2, <5>1
        <4> QED
          BY <4>1, <4>2
      <3> QED
        BY <3>1, <3>2, <3>3
    <2>8. DOMAIN r = 1..(n - 1)
      BY <2>7, LenProperties
    <2> HIDE DEF r
    <2>9. OnceBut(r, H)
      <3>1. ASSUME NEW i \in 1..(n - 1), NEW j \in 1..(n - 1), r[i] = r[j], r[i] \notin H
            PROVE  i = j
        <4> DEFINE at(x) == IF x < k THEN x ELSE x + 1
        <4>1. at(i) \in 1..n /\ at(j) \in 1..n /\ r[i] = s[at(i)] /\ r[j] = s[at(j)]
          BY <1>1, <2>3, <2>7
        <4>2. at(i) = at(j)
          BY <1>1, <3>1, <4>1 DEF OnceBut
        <4> QED
          BY <2>3, <4>2
      <3> QED
        BY <2>8, <3>1 DEF OnceBut
    <2>10. ToSet(r) \subseteq ToSet(s) /\ ToSet(s) \ {e} \subseteq ToSet(r) /\ (e \in ToSet(r) => e \in H)
      <3>1. ASSUME NEW i \in 1..(n - 1)
            PROVE  r[i] \in ToSet(s) /\ (r[i] = e => e \in H)
        <4> DEFINE at == IF i < k THEN i ELSE i + 1
        <4>1. at \in 1..n /\ at # k /\ r[i] = s[at]
          BY <1>1, <2>3, <2>7
        <4> HIDE DEF at
        <4> QED
          BY <1>1, <2>3, <4>1 DEF OnceBut, ToSet
      <3>2. ASSUME NEW i \in 1..n, s[i] # e
            PROVE  s[i] \in ToSet(r)
        <4> DEFINE at == IF i < k THEN i ELSE i - 1
        <4>1. at \in 1..(n - 1) /\ r[at] = s[i]
          <5>1. i # k
            BY <2>3, <3>2
          <5>2. CASE i < k
            BY <1>1, <2>3, <2>7, <5>2
          <5>3. CASE ~(i < k)
            <6>1. i - 1 \in 1..(n - 1) /\ ~(i - 1 < k) /\ (i - 1) + 1 = i
              BY <1>1, <2>3, <5>1, <5>3
            <6> QED
              BY <2>7, <5>3, <6>1
          <5> QED
            BY <5>2, <5>3
        <4> HIDE DEF at
        <4> QED
          BY <2>8, <4>1 DEF ToSet
      <3> QED
        BY <1>1, <2>8, <3>1, <3>2 DEF ToSet
    <2> QED
      BY <2>4, <2>7, <2>9, <2>10 DEF a, b, r
  <1> QED
    BY <1>2, <1>3

-----------------------------------------------------------------------------
(* The profiler, the scheduler and the delete requests *)

\* Steps of a process that goes on, by who takes them.
SchedStep(t) ==
    \/ SubmitLook(t) \/ SubmitFromCache(t) \/ SubmitQueued(t) \/ SubmitPush(t) \/ Admit(t)

\* The steps, one by one.
LEMMA ProfilerBranches ==
    ASSUME [ProfilerNext]_profVars
    PROVE  \/ \E t \in ProfileTasks : SchedStep(t)
           \/ ListWaiting
           \/ Tick \/ TakeTop \/ CreateProfilePodFromTask \/ MarkCreated \/ DropTask
           \/ ListProfilingPods \/ WriteProfile \/ RemovePod
           \/ \E t \in ProfileTasks, phase \in PodPhases : Look(t, phase)
           \/ \E t \in ProfileTasks, phase \in PodPhases : PodMoves(t, phase)
           \/ \E t \in ProfileTasks : CutLook(t)
           \/ CutRead \/ CutQueue \/ CutPod \/ CutDelete
           \/ \E a \in Goroutines : Enter(a)
           \/ QueuePanics \/ StorePanics \/ ProfilerCrash
           \/ UNCHANGED profVars
  BY Zenon DEF ProfilerNext, SubmitProfileTask, SchedStep

\* The states of a process that has just started.
LEMMA IdleShapes ==
    /\ IdleSched \in SchedState /\ IdleSched.pc = "idle" /\ IdleSched.todo = {}
    /\ IdleProf \in ProfState /\ IdleProf.pc = "idle" /\ IdleProf.pods = {}
    /\ IdleCut \in CutState /\ IdleCut.pc = "idle"
  BY DEF IdleSched, IdleProf, IdleCut, SchedState, ProfState, CutState, PodPhases

\* A row's profile is written, and nothing else of it but perhaps its status.
LEMMA StatWritten ==
    ASSUME ProfilerTypeOK, NEW t \in ProfileTasks, NEW stat \in ProfileStatus,
           NEW status \in {"Ended", "none"}, UpdateProfilingStat(t, stat, status)
    PROVE  /\ aiTask' \in [ProfileTasks -> AiRow]
           /\ \A u \in ProfileTasks : aiTask'[u].deleted = aiTask[u].deleted
           /\ \A u \in ProfileTasks \ {t} : aiTask'[u] = aiTask[u]
           /\ forgone \subseteq forgone'
           /\ aiTask'[t].stat = stat \/ (aiTask' = aiTask /\ t \in forgone')
  <1>1. CASE aiTask' = aiTask /\ forgone' = forgone \cup {t}
    BY <1>1 DEF ProfilerTypeOK
  <1>2. CASE UNCHANGED forgone /\ aiTask' = [aiTask EXCEPT ![t].stat = stat,
                 ![t].status = IF stat = "finish" /\ status # "none" THEN status ELSE aiTask[t].status]
    <2> DEFINE st == IF stat = "finish" /\ status # "none" THEN status ELSE aiTask[t].status
               row == [aiTask[t] EXCEPT !.stat = stat, !.status = st]
    <2>1. aiTask[t] \in AiRow
      BY DEF ProfilerTypeOK
    <2>2. st \in {"Queueing", "Created", "Ended"}
      BY <2>1 DEF AiRow
    <2> HIDE DEF st
    <2>3. row \in AiRow /\ row.stat = stat /\ row.deleted = aiTask[t].deleted
      BY <2>1, <2>2 DEF AiRow
    <2>4. aiTask' = [aiTask EXCEPT ![t] = row]
      BY <1>2, <2>1 DEF st, ProfilerTypeOK, AiRow
    <2> HIDE DEF row
    <2>5. aiTask \in [ProfileTasks -> AiRow]
      BY DEF ProfilerTypeOK
    <2>6. /\ aiTask' \in [ProfileTasks -> AiRow] /\ aiTask'[t] = row
          /\ \A u \in ProfileTasks \ {t} : aiTask'[u] = aiTask[u]
      BY <2>3, <2>4, <2>5
    <2> QED
      BY <1>2, <2>3, <2>6
  <1> QED
    BY <1>1, <1>2 DEF UpdateProfilingStat

\* A round is over, or goes on where it was.
LEMMA RoundShape ==
    ASSUME NEW s \in SchedState, s.pc = "list"
    PROVE  /\ Round(s) \in SchedState /\ Round(s).pc \in {"idle", "list"}
           /\ Round(s).todo \subseteq s.todo
  BY IdleShapes DEF Round

\* What the scheduler does next is a state of it.
LEMMA SchedShapes ==
    ASSUME ProfilerTypeOK, NEW t \in ProfileTasks
    PROVE  /\ Handled(t) \in SchedState /\ Handled(t).pc \in {"idle", "list"}
           /\ Handled(t).todo \subseteq sched.todo \ {t}
           /\ [sched EXCEPT !.pc = "push"] \in SchedState /\ [sched EXCEPT !.pc = "push"].todo = sched.todo
           /\ [sched EXCEPT !.pc = "push"].pc = "push" /\ [sched EXCEPT !.pc = "push"].task = sched.task
  <1>1. sched \in SchedState
    BY DEF ProfilerTypeOK
  <1>2. PICK s : s = [sched EXCEPT !.pc = "list", !.todo = sched.todo \ {t}, !.task = 0]
    OBVIOUS
  <1>3. s \in SchedState /\ s.pc = "list" /\ s.todo = sched.todo \ {t} /\ Handled(t) = Round(s)
    BY <1>1, <1>2 DEF Handled, SchedState
  <1>4. /\ Handled(t) \in SchedState /\ Handled(t).pc \in {"idle", "list"}
        /\ Handled(t).todo \subseteq sched.todo \ {t}
    BY <1>3, RoundShape
  <1> QED
    BY <1>1, <1>4 DEF SchedState

\* The tables of the process keep their types.
TypedSched == sched \in SchedState /\ (sched.pc \in {"finish", "queue", "push"} => sched.task \in ProfileTasks)
TypedProf  ==
    prof \in ProfState /\ (prof.pc \in {"create", "mark", "drop", "result", "remove"} => prof.task \in ProfileTasks)
TypedCut   == cut \in CutState /\ (cut.pc # "idle" => cut.task \in ProfileTasks)
TypedQueue == keys \in Seq(ProfileTasks) /\ items \in SUBSET ProfileTasks
TypedRows  == aiTask \in [ProfileTasks -> AiRow] /\ obj \in [ProfileTasks -> ProfileStatus]
              /\ waiting \in SUBSET ProfileTasks /\ profPod \in [ProfileTasks -> PodPhases]

\* The type invariant is these five, and the tasks that were harmed.
LEMMA Typed ==
    ProfilerTypeOK <=> TypedSched /\ TypedProf /\ TypedCut /\ TypedQueue /\ TypedRows /\ harmed \subseteq ProfileTasks
  BY DEF ProfilerTypeOK, TypedSched, TypedProf, TypedCut, TypedQueue, TypedRows

-----------------------------------------------------------------------------
(* Operations that overlap *)

\* A step outside the queue leaves alone who is inside.
LEMMA RacesStay ==
    ASSUME RacesKnown, UNCHANGED queueVars,
           sched.pc = "push" => UNCHANGED sched,
           prof.pc \in {"top", "drop"} => UNCHANGED prof,
           cut.pc = "queue" => UNCHANGED cut
    PROVE  RacesKnown'
  <1>1. UNCHANGED <<keys, items, inside, racing, torn, harmed>>
    BY DEF queueVars
  <1>2. ASSUME NEW a \in inside
        PROVE  Wants(a)' /\ OpTask(a)' = OpTask(a)
    <2>1. a \in Goroutines /\ Wants(a)
      BY DEF RacesKnown
    <2> QED
      BY <2>1 DEF Wants, OpTask, Goroutines
  <1>3. {OpTask(a)' : a \in inside} = {OpTask(a) : a \in inside}
    BY <1>2
  <1>4. Involved(inside)' = Involved(inside)
    BY <1>1, <1>3 DEF Involved
  <1> QED
    BY <1>1, <1>2, <1>4 DEF RacesKnown

\* Where two race, all they can write is harmed.
LEMMA RaceHarms ==
    ASSUME RacesKnown, NEW a \in racing, ProfilerTypeOK, OpTask(a) \in ProfileTasks \cup {0}
    PROVE  /\ ToSet(keys) \subseteq torn /\ items \subseteq torn /\ torn \subseteq harmed
           /\ OpTask(a) \in ProfileTasks => OpTask(a) \in torn
  <1>1. a \in inside /\ Involved(inside) \subseteq torn /\ torn \subseteq harmed
    BY DEF RacesKnown
  <1> QED
    BY <1>1 DEF Involved

\* What an operation leaves: the list ks and the map is, or, after a race, whatever is
\* made of what was harmed.
LEMMA Ended ==
    ASSUME ProfilerTypeOK, RacesKnown, NEW a \in Goroutines, NEW ks, a \notin racing => ks \in Seq(ProfileTasks),
           NEW is \in SUBSET ProfileTasks, Ends(a, ks, is),
           is \subseteq items \cup ({OpTask(a)} \cap ProfileTasks),
           OpTask(a) \in ProfileTasks \cup {0},
           sched' = sched \/ a = "sched", prof' = prof \/ a = "prof", cut' = cut \/ a = "cut"
    PROVE  /\ RacesKnown' /\ harmed' = harmed /\ TypedQueue'
           /\ \/ a \notin racing /\ keys' = ks /\ items' = is
              \/ /\ a \in racing /\ items' \in {items, is}
                 /\ ToSet(keys') \cup items' \cup ToSet(keys) \cup items \subseteq harmed
                 /\ OpTask(a) \in ProfileTasks => OpTask(a) \in harmed
  <1>1. /\ a \in inside /\ inside' = inside \ {a} /\ racing' = racing \ {a} /\ harmed' = harmed
        /\ torn' = IF racing \subseteq {a} THEN {} ELSE torn
    BY DEF Ends, Leave
  <1>2. /\ items \subseteq ProfileTasks /\ keys \in Seq(ProfileTasks) /\ harmed \subseteq ProfileTasks
    BY DEF ProfilerTypeOK
  <1>3. ASSUME NEW b \in inside'
        PROVE  b \in inside /\ b # a /\ b \in Goroutines /\ Wants(b)' /\ OpTask(b)' = OpTask(b)
    <2>1. b \in inside /\ b # a /\ b \in Goroutines /\ Wants(b)
      BY <1>1, <1>3 DEF RacesKnown
    <2> QED
      BY <2>1 DEF Wants, OpTask, Goroutines
  <1>4. CASE a \notin racing
    <2>1. keys' = ks /\ items' = is
      BY <1>4 DEF Ends
    <2>2. racing = {}
      BY <1>1, <1>4 DEF RacesKnown
    <2>3. RacesKnown'
      BY <1>1, <1>3, <2>2 DEF RacesKnown
    <2> QED
      BY <1>1, <1>4, <2>1, <2>3 DEF TypedQueue
  <1>5. CASE a \in racing
    <2>1. /\ ToSet(keys) \subseteq torn /\ items \subseteq torn /\ torn \subseteq harmed
          /\ OpTask(a) \in ProfileTasks => OpTask(a) \in torn
          /\ Involved(inside) \subseteq torn
      BY <1>5, RaceHarms DEF RacesKnown
    <2>2. keys' \in SeqOf(torn, Cardinality(ProfileTasks)) /\ items' \in {items, is}
      BY <1>5 DEF Ends
    <2>3. keys' \in Seq(torn)
      <3>1. PICK m \in 0..Cardinality(ProfileTasks) : keys' \in [1..m -> torn]
        BY <2>2 DEF SeqOf
      <3>2. m \in Nat
        BY <3>1
      <3> QED
        BY <3>1, <3>2, SeqDef
    <2>4. ToSet(keys') \subseteq torn /\ keys' \in Seq(ProfileTasks)
      <3>1. \A i \in DOMAIN keys' : keys'[i] \in torn
        BY <2>3, LenProperties, ElementOfSeq
      <3>2. torn \subseteq ProfileTasks
        BY <1>2, <2>1
      <3> QED
        BY <2>3, <3>1, <3>2, SeqMonotonic DEF ToSet
    <2>5. items' \subseteq torn
      BY <2>1, <2>2
    <2>6. RacesKnown'
      <3>1. torn' \subseteq harmed'
        BY <1>1, <2>1
      <3>2. ASSUME racing' # {} PROVE Involved(inside)' \subseteq torn'
        <4>1. torn' = torn
          BY <1>1, <3>2
        <4>2. {OpTask(b)' : b \in inside'} \subseteq {OpTask(b) : b \in inside}
          BY <1>3
        <4>3. {OpTask(b) : b \in inside} \cap ProfileTasks \subseteq torn
          BY <2>1 DEF Involved
        <4> QED
          BY <2>4, <2>5, <4>1, <4>2, <4>3 DEF Involved
      <3> QED
        BY <1>1, <1>3, <3>1, <3>2 DEF RacesKnown
    <2> QED
      BY <1>1, <1>2, <1>5, <2>1, <2>2, <2>4, <2>5, <2>6 DEF TypedQueue
  <1> QED
    BY <1>4, <1>5

\* A push puts the task into the queue and nothing out of it.
LEMMA PushOp ==
    ASSUME ProfilerTypeOK, RacesKnown, QueueWhole, NEW t \in ProfileTasks, t = sched.task,
           PushIfNotPresent(t), UNCHANGED <<prof, cut>>
    PROVE  /\ RacesKnown' /\ harmed' = harmed /\ TypedQueue' /\ OnceBut(keys', harmed)
           /\ items \subseteq items' /\ items' \subseteq items \cup {t} /\ t \in items' \cup harmed
           /\ ToSet(keys') \subseteq items' \cup harmed
           /\ items' \ (ToSet(keys') \cup harmed) \subseteq items \ (ToSet(keys) \cup harmed)
  <1> DEFINE ks == IF t \in items THEN keys ELSE Append(keys, t)
  <1>1. /\ keys \in Seq(ProfileTasks) /\ items \subseteq ProfileTasks
        /\ OnceBut(keys, harmed) /\ ToSet(keys) \subseteq items \cup harmed
    BY DEF ProfilerTypeOK, QueueWhole
  <1>2. /\ ks \in Seq(ProfileTasks) /\ OnceBut(ks, harmed)
        /\ ToSet(ks) = IF t \in items THEN ToSet(keys) ELSE ToSet(keys) \cup {t}
    <2>1. CASE t \in items
      BY <1>1, <2>1
    <2>2. CASE t \notin items
      BY <1>1, <2>2, KeyAppended
    <2> QED
      BY <2>1, <2>2
  <1>3. OpTask("sched") = t /\ Ends("sched", ks, items \cup {t}) /\ "sched" \in Goroutines
    BY DEF OpTask, PushIfNotPresent, Goroutines
  <1> HIDE DEF ks
  <1>4. /\ RacesKnown' /\ harmed' = harmed /\ TypedQueue'
        /\ \/ keys' = ks /\ items' = items \cup {t}
           \/ /\ items' \in {items, items \cup {t}} /\ t \in harmed
              /\ ToSet(keys') \cup items' \cup ToSet(keys) \cup items \subseteq harmed
    BY <1>1, <1>2, <1>3, Ended
  <1>5. CASE keys' = ks /\ items' = items \cup {t}
    BY <1>1, <1>2, <1>4, <1>5
  <1>6. CASE /\ items' \in {items, items \cup {t}} /\ t \in harmed
             /\ ToSet(keys') \cup items' \cup ToSet(keys) \cup items \subseteq harmed
    <2>1. OnceBut(keys', harmed)
      BY <1>6 DEF OnceBut, ToSet
    <2> QED
      BY <1>4, <1>6, <2>1
  <1> QED
    BY <1>4, <1>5, <1>6

\* A deletion takes the task out of the queue and nothing else.
LEMMA DeleteOp ==
    ASSUME ProfilerTypeOK, RacesKnown, QueueWhole, NEW a \in Goroutines, NEW t \in ProfileTasks, t = OpTask(a),
           Delete(a, t), sched' = sched \/ a = "sched", prof' = prof \/ a = "prof", cut' = cut \/ a = "cut"
    PROVE  /\ RacesKnown' /\ harmed' = harmed /\ TypedQueue' /\ OnceBut(keys', harmed)
           /\ items' \subseteq items /\ items \ {t} \subseteq items' /\ (t \in items' => t \in harmed)
           /\ ToSet(keys') \subseteq items' \cup harmed
           /\ items' \ (ToSet(keys') \cup harmed) \subseteq (items \ (ToSet(keys) \cup harmed)) \ {t}
  <1> DEFINE ks == IF t \in items THEN RemoveFirst(keys, t) ELSE keys
  <1>1. /\ keys \in Seq(ProfileTasks) /\ items \subseteq ProfileTasks
        /\ OnceBut(keys, harmed) /\ ToSet(keys) \subseteq items \cup harmed
    BY DEF ProfilerTypeOK, QueueWhole
  <1>2. /\ ks \in Seq(ProfileTasks) /\ OnceBut(ks, harmed)
        /\ ToSet(ks) \subseteq ToSet(keys) /\ ToSet(keys) \ {t} \subseteq ToSet(ks)
        /\ t \in ToSet(ks) => t \in harmed
    <2>1. CASE t \in items
      BY <1>1, <2>1, KeyRemoved
    <2>2. CASE t \notin items
      BY <1>1, <2>2
    <2> QED
      BY <2>1, <2>2
  <1>3. Ends(a, ks, items \ {t})
    BY DEF Delete
  <1> HIDE DEF ks
  <1>4. /\ RacesKnown' /\ harmed' = harmed /\ TypedQueue'
        /\ \/ keys' = ks /\ items' = items \ {t}
           \/ /\ items' \in {items, items \ {t}} /\ t \in harmed
              /\ ToSet(keys') \cup items' \cup ToSet(keys) \cup items \subseteq harmed
    BY <1>1, <1>2, <1>3, Ended
  <1>5. CASE keys' = ks /\ items' = items \ {t}
    BY <1>1, <1>2, <1>4, <1>5
  <1>6. CASE /\ items' \in {items, items \ {t}} /\ t \in harmed
             /\ ToSet(keys') \cup items' \cup ToSet(keys) \cup items \subseteq harmed
    <2>1. OnceBut(keys', harmed)
      BY <1>6 DEF OnceBut, ToSet
    <2> QED
      BY <1>4, <1>6, <2>1
  <1> QED
    BY <1>4, <1>5, <1>6

\* The profiler takes the last key, and its object stays.
LEMMA TopOp ==
    ASSUME ProfilerTypeOK, RacesKnown, QueueWhole, keys # <<>> \/ "prof" \in racing, Top, UNCHANGED <<sched, cut>>
    PROVE  /\ RacesKnown' /\ harmed' = harmed /\ TypedQueue' /\ OnceBut(keys', harmed)
           /\ items' = items /\ ToSet(keys') \subseteq items \cup harmed
           /\ \/ "prof" \in racing /\ items \subseteq harmed
              \/ /\ "prof" \notin racing /\ Last(keys) \in items \cup harmed
                 /\ items \ (ToSet(keys') \cup harmed) \subseteq {Last(keys)} \cup (items \ (ToSet(keys) \cup harmed))
  <1>1. /\ keys \in Seq(ProfileTasks) /\ items \subseteq ProfileTasks
        /\ OnceBut(keys, harmed) /\ ToSet(keys) \subseteq items \cup harmed
    BY DEF ProfilerTypeOK, QueueWhole
  <1>2. ASSUME "prof" \notin racing
        PROVE  /\ Front(keys) \in Seq(ProfileTasks) /\ OnceBut(Front(keys), harmed) /\ Last(keys) \in ToSet(keys)
               /\ ToSet(keys) = ToSet(Front(keys)) \cup {Last(keys)}
    BY <1>1, <1>2, KeyTaken
  <1>3. /\ OpTask("prof") \in ProfileTasks \cup {0} /\ Ends("prof", Front(keys), items) /\ "prof" \in Goroutines
    BY DEF OpTask, Top, Goroutines, ProfilerTypeOK, ProfState
  <1>4. /\ RacesKnown' /\ harmed' = harmed /\ TypedQueue'
        /\ \/ "prof" \notin racing /\ keys' = Front(keys) /\ items' = items
           \/ /\ "prof" \in racing /\ items' = items
              /\ ToSet(keys') \cup items' \cup ToSet(keys) \cup items \subseteq harmed
    BY <1>1, <1>2, <1>3, Ended
  <1>5. CASE "prof" \notin racing /\ keys' = Front(keys) /\ items' = items
    BY <1>1, <1>2, <1>4, <1>5
  <1>6. CASE /\ "prof" \in racing /\ items' = items
             /\ ToSet(keys') \cup items' \cup ToSet(keys) \cup items \subseteq harmed
    <2>1. OnceBut(keys', harmed)
      BY <1>6 DEF OnceBut, ToSet
    <2> QED
      BY <1>4, <1>6, <2>1
  <1> QED
    BY <1>4, <1>5, <1>6

\* After a restart everything is in order: nothing is queued, and a row that is left
\* unfinished has a pod or was taken away.
LEMMA RestartStep ==
    ASSUME Restart, aiTask' \in [ProfileTasks -> AiRow], profPod' \in [ProfileTasks -> PodPhases]
    PROVE  ProfilerInv'
  <1>1. /\ sched' = IdleSched /\ prof' = IdleProf /\ cut' = IdleCut /\ keys' = <<>> /\ items' = {}
        /\ inside' = {} /\ racing' = {} /\ torn' = {} /\ harmed' = {}
    BY DEF Restart
  <1>2. obj' \in [ProfileTasks -> ProfileStatus]
    BY DEF Restart, AiRow
  <1>3. keys' \in Seq(ProfileTasks) /\ ToSet(keys') = {} /\ OnceBut(keys', harmed')
    BY <1>1, EmptySeq DEF ToSet, OnceBut
  <1>4. ProfilerTypeOK'
    BY <1>1, <1>2, <1>3, IdleShapes DEF ProfilerTypeOK, Restart
  <1>5. QueueWhole' /\ RacesKnown'
    BY <1>1, <1>3 DEF QueueWhole, RacesKnown
  <1>6. SubmittedOnce'
    BY <1>1, IdleShapes DEF SubmittedOnce, Taken
  <1>7. PodsAreThere'
    BY <1>1, IdleShapes DEF PodsAreThere, Judging
  <1>8. DoneWith'
    BY <1>1, IdleShapes DEF DoneWith
  <1>9. InHands'
    BY DEF InHands, Restart, Unfinished, OffTheHook
  <1> QED
    BY <1>4, <1>5, <1>6, <1>7, <1>8, <1>9 DEF ProfilerInv

-----------------------------------------------------------------------------
(* The scheduler's steps *)

\* What the scheduler may do: submit a task that was not submitted before, and hand
\* it on.  The profiler, the pods and the delete request stay where they are.
LEMMA SchedFrame ==
    ASSUME ProfilerInv, UNCHANGED <<prof, cut, profPod, harmed>>, forgone \subseteq forgone',
           \A u \in ProfileTasks : aiTask'[u].deleted = aiTask[u].deleted,
           ProfilerTypeOK', RacesKnown',
           items \subseteq items', \A u \in items' : u \in items \/ obj'[u] # "unprofiled",
           \A u \in ProfileTasks : obj'[u] = obj[u] \/ obj'[u] # "unprofiled",
           \A u \in sched'.todo : obj'[u] = "unprofiled",
           sched'.pc \in {"finish", "queue", "push"} => obj'[sched'.task] = "unprofiled",
           OnceBut(keys', harmed), ToSet(keys') \subseteq items' \cup harmed,
           items' \ (ToSet(keys') \cup harmed) \subseteq items \ (ToSet(keys) \cup harmed),
           sched.pc = "push" => \/ sched.task \in items' \cup harmed
                                \/ sched'.pc = "push" /\ sched'.task = sched.task,
           \A u \in ProfileTasks : aiTask'[u].stat \in {"queued", "profiling"} =>
              \/ aiTask[u].stat \in {"queued", "profiling"}
              \/ sched'.pc = "push" /\ sched'.task = u /\ obj[u] = "unprofiled"
    PROVE  ProfilerInv'
  <1> /\ ProfilerTypeOK /\ QueueWhole /\ SubmittedOnce /\ PodsAreThere /\ DoneWith /\ InHands
    BY DEF ProfilerInv
  <1>1. \A u \in ProfileTasks : OffTheHook(u) => OffTheHook(u)'
    BY DEF OffTheHook
  <1>2. QueueWhole'
    BY DEF QueueWhole
  <1>3. SubmittedOnce'
    BY DEF SubmittedOnce, Taken, ProfilerTypeOK
  <1>4. PodsAreThere'
    <2>1. \A p \in prof.pods : p[1] \in ProfileTasks
      BY DEF ProfilerTypeOK, ProfState
    <2>2. Judging \/ prof.pc = "mark" => prof.task \in ProfileTasks
      BY DEF ProfilerTypeOK, Judging
    <2> QED
      BY <1>1, <2>1, <2>2 DEF PodsAreThere, Judging
  <1>5. \A u \in Unfinished(aiTask') :
           \/ u \in Unfinished(aiTask)
           \/ sched'.pc = "push" /\ sched'.task = u /\ obj[u] = "unprofiled"
    <2> TAKE u \in Unfinished(aiTask')
    <2>1. u \in ProfileTasks /\ aiTask'[u].stat \in {"queued", "profiling"}
      BY DEF Unfinished
    <2>2. aiTask[u].stat \in {"queued", "profiling"} => u \in Unfinished(aiTask)
      BY <2>1 DEF Unfinished
    <2> QED
      BY <2>1, <2>2
  <1>6. DoneWith'
    <2>1. prof.pc \in {"drop", "remove"} => prof.task \in ProfileTasks
      BY DEF ProfilerTypeOK
    <2>2. ASSUME prof.pc = "drop", prof.task \in Unfinished(aiTask')
          PROVE  prof.task \in Unfinished(aiTask) \/ OffTheHook(prof.task)'
      BY <1>5, <2>2 DEF SubmittedOnce, Taken, OffTheHook
    <2>3. prof.pc = "drop" => prof.task \notin Unfinished(aiTask') \/ OffTheHook(prof.task)' \/ profPod'[prof.task] # "none"
      BY <1>1, <2>1, <2>2 DEF DoneWith
    <2>4. PICK u : u = prof.task
      OBVIOUS
    <2>5. u \in harmed => OffTheHook(u)'
      BY DEF OffTheHook
    <2>6. ASSUME prof.pc = "remove", prof.phase # "unknown" PROVE Handed(u)'
      BY <1>1, <1>5, <2>1, <2>4, <2>5, <2>6 DEF DoneWith, Handed
    <2> QED
      BY <2>3, <2>4, <2>6 DEF DoneWith
  <1>7. InHands'
    <2> SUFFICES ASSUME NEW u \in Unfinished(aiTask')
                 PROVE  \/ OffTheHook(u)' \/ u \in items' \/ profPod'[u] # "none"
                        \/ sched'.pc = "push" /\ sched'.task = u
                        \/ prof'.pc \in {"create", "mark", "drop", "result", "remove"} /\ prof'.task = u
      BY DEF InHands
    <2>1. u \in ProfileTasks
      BY DEF Unfinished
    <2>2. u \in harmed => OffTheHook(u)'
      BY DEF OffTheHook
    <2> QED
      BY <1>1, <1>5, <2>1, <2>2 DEF InHands
  <1> QED
    BY <1>2, <1>3, <1>4, <1>6, <1>7 DEF ProfilerInv

\* Each of them.
LEMMA SchedSteps ==
    ASSUME ProfilerInv, \/ \E t \in ProfileTasks : SchedStep(t)
                        \/ ListWaiting
    PROVE  ProfilerInv'
  <1> ProfilerTypeOK /\ RacesKnown /\ QueueWhole /\ SubmittedOnce
    BY DEF ProfilerInv
  <1> USE DEF KeptQueue, SchedUnchanged
  <1>0. TypedSched /\ TypedProf /\ TypedCut /\ TypedQueue /\ TypedRows /\ harmed \subseteq ProfileTasks
    BY Typed
  <1>q. ASSUME UNCHANGED queueVars PROVE UNCHANGED <<keys, items, harmed>>
    BY <1>q DEF queueVars
  <1>w. /\ OnceBut(keys, harmed) /\ ToSet(keys) \subseteq items \cup harmed
    BY DEF QueueWhole
  <1>t. sched.todo \subseteq ProfileTasks
    BY <1>0 DEF TypedSched, SchedState
  <1>a. ASSUME UNCHANGED <<obj, forgone, prof, cut, profPod>>, UNCHANGED queueVars, sched.pc # "push",
               waiting' \subseteq waiting, sched'.todo \subseteq sched.todo \/ \A u \in sched'.todo : obj[u] = "unprofiled",
               sched' \in SchedState, sched'.pc \notin {"finish", "queue", "push"},
               aiTask' \in [ProfileTasks -> AiRow],
               \A u \in ProfileTasks : aiTask'[u].deleted = aiTask[u].deleted /\ aiTask'[u].stat = aiTask[u].stat
        PROVE  ProfilerInv'
    <2>1. ProfilerTypeOK'
      BY <1>0, <1>a, <1>q DEF ProfilerTypeOK, TypedRows
    <2>2. RacesKnown'
      BY <1>a, RacesStay
    <2>3. \A u \in sched'.todo : obj'[u] = "unprofiled"
      BY <1>a DEF SubmittedOnce
    <2> QED
      BY <1>a, <1>q, <1>w, <2>1, <2>2, <2>3, SchedFrame
  <1>2. ASSUME NEW t \in ProfileTasks, SubmitLook(t)
        PROVE  ProfilerInv'
    <2>1. /\ UNCHANGED <<aiTask, waiting, forgone, prof, cut, profPod>> /\ UNCHANGED queueVars
          /\ t \in sched.todo /\ sched.pc = "list"
          /\ \/ sched' = Handled(t) /\ obj' = [obj EXCEPT ![t] = "queued"]
             \/ UNCHANGED obj /\ \E pc \in {"finish", "queue"} : sched' = [sched EXCEPT !.pc = pc, !.task = t]
      BY <1>2 DEF SubmitLook, NextListed
    <2>2. /\ sched' \in SchedState
          /\ \/ sched'.pc \in {"idle", "list"} /\ sched'.todo \subseteq sched.todo \ {t}
             \/ UNCHANGED obj /\ sched'.pc \in {"finish", "queue"} /\ sched'.task = t /\ sched'.todo = sched.todo
      <3>1. CASE sched' = Handled(t)
        BY <3>1, SchedShapes
      <3>2. ASSUME UNCHANGED obj, NEW pc \in {"finish", "queue"}, sched' = [sched EXCEPT !.pc = pc, !.task = t]
            PROVE  /\ sched' \in SchedState /\ sched'.pc \in {"finish", "queue"} /\ sched'.task = t
                   /\ sched'.todo = sched.todo
        <4>1. PICK s : s = [sched EXCEPT !.pc = pc, !.task = t]
          OBVIOUS
        <4>2. s \in SchedState /\ s.pc = pc /\ s.todo = sched.todo /\ s.task = t
          BY <1>0, <4>1 DEF TypedSched, SchedState
        <4> QED
          BY <3>2, <4>1, <4>2
      <3> QED
        BY <2>1, <3>1, <3>2
    <2>3. /\ obj' \in [ProfileTasks -> ProfileStatus]
          /\ \A u \in ProfileTasks : obj'[u] = obj[u] \/ obj'[u] = "queued"
          /\ \A u \in ProfileTasks \ {t} : obj'[u] = obj[u]
      BY <1>0, <2>1 DEF TypedRows, ProfileStatus
    <2>4. ProfilerTypeOK'
      BY <1>0, <1>q, <2>1, <2>2, <2>3 DEF ProfilerTypeOK
    <2>5. RacesKnown'
      BY <2>1, RacesStay
    <2>6. \A u \in sched'.todo : obj'[u] = "unprofiled"
      BY <1>t, <2>2, <2>3 DEF SubmittedOnce
    <2>7. obj[t] = "unprofiled"
      BY <2>1 DEF SubmittedOnce
    <2> QED
      BY <1>q, <1>w, <2>1, <2>2, <2>3, <2>4, <2>5, <2>6, <2>7, SchedFrame
  <1>3. ASSUME NEW t \in ProfileTasks, SubmitFromCache(t)
        PROVE  ProfilerInv'
    <2>1. /\ UNCHANGED <<waiting, prof, cut, profPod>> /\ UNCHANGED queueVars /\ sched.pc = "finish"
          /\ sched' = Handled(t) /\ obj' = [obj EXCEPT ![t] = "queued"]
          /\ UpdateProfilingStat(t, "finish", "none")
      BY <1>3 DEF SubmitFromCache
    <2>2. /\ aiTask' \in [ProfileTasks -> AiRow]
          /\ \A u \in ProfileTasks : aiTask'[u].deleted = aiTask[u].deleted
          /\ \A u \in ProfileTasks \ {t} : aiTask'[u] = aiTask[u]
          /\ forgone \subseteq forgone'
          /\ aiTask'[t].stat = "finish" \/ aiTask' = aiTask
      <3>1. "finish" \in ProfileStatus
        BY DEF ProfileStatus
      <3> QED
        BY <2>1, <3>1, StatWritten
    <2>3. sched' \in SchedState /\ sched'.pc \in {"idle", "list"} /\ sched'.todo \subseteq sched.todo \ {t}
      BY <2>1, SchedShapes
    <2>4. /\ obj' \in [ProfileTasks -> ProfileStatus]
          /\ \A u \in ProfileTasks : obj'[u] = obj[u] \/ obj'[u] = "queued"
          /\ \A u \in ProfileTasks \ {t} : obj'[u] = obj[u]
      BY <1>0, <2>1 DEF TypedRows, ProfileStatus
    <2>5. ProfilerTypeOK' /\ RacesKnown'
      BY <1>0, <1>q, <2>1, <2>2, <2>3, <2>4, RacesStay DEF ProfilerTypeOK
    <2>6. \A u \in ProfileTasks : aiTask'[u].stat \in {"queued", "profiling"} => aiTask[u].stat \in {"queued", "profiling"}
      BY <2>2
    <2>7. \A u \in sched'.todo : obj'[u] = "unprofiled"
      BY <1>t, <2>3, <2>4 DEF SubmittedOnce
    <2> QED
      BY <1>q, <1>w, <2>1, <2>2, <2>3, <2>4, <2>5, <2>6, <2>7, SchedFrame
  <1>4. ASSUME NEW t \in ProfileTasks, SubmitQueued(t)
        PROVE  ProfilerInv'
    <2>1. /\ UNCHANGED <<waiting, prof, cut, profPod, obj>> /\ UNCHANGED queueVars
          /\ sched.pc = "queue" /\ sched.task = t /\ sched' = [sched EXCEPT !.pc = "push"]
          /\ UpdateProfilingStat(t, "queued", "none")
      BY <1>4 DEF SubmitQueued
    <2>2. /\ aiTask' \in [ProfileTasks -> AiRow]
          /\ \A u \in ProfileTasks : aiTask'[u].deleted = aiTask[u].deleted
          /\ \A u \in ProfileTasks \ {t} : aiTask'[u] = aiTask[u]
          /\ forgone \subseteq forgone'
      <3>1. "queued" \in ProfileStatus
        BY DEF ProfileStatus
      <3> QED
        BY <2>1, <3>1, StatWritten
    <2>3. sched' \in SchedState /\ sched'.pc = "push" /\ sched'.task = t /\ sched'.todo = sched.todo
      BY <2>1, SchedShapes
    <2>4. obj[t] = "unprofiled" /\ \A u \in sched.todo : obj[u] = "unprofiled"
      BY <2>1 DEF SubmittedOnce
    <2>5. ProfilerTypeOK' /\ RacesKnown'
      BY <1>0, <1>q, <2>1, <2>2, <2>3, RacesStay DEF ProfilerTypeOK
    <2> QED
      BY <1>q, <1>w, <2>1, <2>2, <2>3, <2>4, <2>5, SchedFrame
  <1>5. ASSUME NEW t \in ProfileTasks, SubmitPush(t)
        PROVE  ProfilerInv'
    <2>1. /\ UNCHANGED <<aiTask, waiting, forgone, prof, cut, profPod>> /\ sched.pc = "push" /\ sched.task = t
          /\ sched' = Handled(t) /\ obj' = [obj EXCEPT ![t] = "queued"] /\ PushIfNotPresent(t)
      BY <1>5 DEF SubmitPush
    <2>2. /\ RacesKnown' /\ harmed' = harmed /\ TypedQueue' /\ OnceBut(keys', harmed)
          /\ items \subseteq items' /\ items' \subseteq items \cup {t} /\ t \in items' \cup harmed
          /\ ToSet(keys') \subseteq items' \cup harmed
          /\ items' \ (ToSet(keys') \cup harmed) \subseteq items \ (ToSet(keys) \cup harmed)
      BY <2>1, PushOp
    <2>3. sched' \in SchedState /\ sched'.pc \in {"idle", "list"} /\ sched'.todo \subseteq sched.todo \ {t}
      BY <2>1, SchedShapes
    <2>4. /\ obj' \in [ProfileTasks -> ProfileStatus] /\ obj'[t] = "queued"
          /\ \A u \in ProfileTasks : obj'[u] = obj[u] \/ obj'[u] = "queued"
          /\ \A u \in ProfileTasks \ {t} : obj'[u] = obj[u]
      BY <1>0, <2>1 DEF TypedRows, ProfileStatus
    <2>5. ProfilerTypeOK'
      BY <1>0, <2>1, <2>2, <2>3, <2>4 DEF ProfilerTypeOK, TypedQueue
    <2>6. \A u \in sched'.todo : obj'[u] = "unprofiled"
      BY <1>t, <2>3, <2>4 DEF SubmittedOnce
    <2> QED
      BY <2>1, <2>2, <2>3, <2>4, <2>5, <2>6, SchedFrame
  <1>6. ASSUME NEW t \in ProfileTasks, Admit(t)
        PROVE  ProfilerInv'
    <2>0. PICK s : s = [sched EXCEPT !.candidates = sched.candidates \ {t}]
      OBVIOUS
    <2>1. sched' = Round(s) /\ sched.pc = "list"
      BY <1>6, <2>0 DEF Admit
    <2>2. aiTask' = aiTask \/ aiTask' = [aiTask EXCEPT ![t].status = "Created"]
      BY <1>6 DEF Admit
    <2>3. /\ aiTask' \in [ProfileTasks -> AiRow]
          /\ \A u \in ProfileTasks : aiTask'[u].deleted = aiTask[u].deleted /\ aiTask'[u].stat = aiTask[u].stat
      BY <1>0, <2>2 DEF TypedRows, AiRow
    <2>4. sched' \in SchedState /\ sched'.pc \in {"idle", "list"} /\ sched'.todo \subseteq sched.todo
      <3>1. s \in SchedState /\ s.pc = "list" /\ s.todo = sched.todo
        BY <1>0, <2>0, <2>1 DEF TypedSched, SchedState
      <3> QED
        BY <2>1, <3>1, RoundShape
    <2>5. UNCHANGED <<obj, forgone, prof, cut, profPod>> /\ UNCHANGED queueVars /\ waiting' \subseteq waiting
      BY <1>6 DEF Admit
    <2> QED
      BY <1>a, <2>1, <2>3, <2>4, <2>5
  <1>7. ASSUME ListWaiting
        PROVE  ProfilerInv'
    <2>0. PICK s : s = {t \in waiting : obj[t] = "unprofiled"}
      OBVIOUS
    <2>1. /\ sched' \in SchedState /\ sched'.pc = "list" /\ sched'.todo = s
      <3>1. waiting \subseteq ProfileTasks /\ s \subseteq waiting
        BY <2>0 DEF ProfilerTypeOK
      <3>2. sched' = [IdleSched EXCEPT !.pc = "list", !.todo = s, !.candidates = waiting \ s]
        BY <1>7, <2>0 DEF ListWaiting
      <3> QED
        BY <3>1, <3>2, IdleShapes DEF SchedState
    <2>2. \A u \in s : obj[u] = "unprofiled"
      BY <2>0
    <2>3. /\ UNCHANGED <<aiTask, obj, forgone, prof, cut, profPod, waiting>> /\ UNCHANGED queueVars /\ sched.pc = "idle"
      BY <1>7 DEF ListWaiting
    <2> QED
      BY <1>0, <1>a, <2>1, <2>2, <2>3 DEF TypedRows
  <1> QED
    BY <1>2, <1>3, <1>4, <1>5, <1>6, <1>7 DEF SchedStep

-----------------------------------------------------------------------------
(* The delete request's steps, and the pods' *)

\* What a delete request may do: take a task that it holds, or has deleted, out of the
\* queue and its pod away.  A pod may move on.
LEMMA CutFrame ==
    ASSUME ProfilerInv, ProfilerTypeOK', RacesKnown', UNCHANGED <<obj, sched, prof, harmed>>, forgone \subseteq forgone',
           \A u \in ProfileTasks : aiTask'[u].stat = aiTask[u].stat,
           items' \subseteq items, OnceBut(keys', harmed), ToSet(keys') \subseteq items' \cup harmed,
           items' \ (ToSet(keys') \cup harmed) \subseteq items \ (ToSet(keys) \cup harmed),
           \A u \in ProfileTasks :
              /\ OffTheHook(u) => OffTheHook(u)'
              /\ u \in items => u \in items' \/ OffTheHook(u)'
              /\ profPod[u] # "none" => profPod'[u] # "none" \/ OffTheHook(u)'
    PROVE  ProfilerInv'
  <1> /\ ProfilerTypeOK /\ RacesKnown /\ QueueWhole /\ SubmittedOnce /\ PodsAreThere /\ DoneWith /\ InHands
    BY DEF ProfilerInv
  <1>1. QueueWhole'
    BY DEF QueueWhole
  <1>2. SubmittedOnce'
    BY DEF SubmittedOnce, Taken
  <1>3. PodsAreThere'
    <2>1. \A p \in prof.pods : p[1] \in ProfileTasks
      BY DEF ProfilerTypeOK, ProfState
    <2>2. Judging \/ prof.pc = "mark" => prof.task \in ProfileTasks
      BY DEF ProfilerTypeOK, Judging
    <2> QED
      BY <2>1, <2>2 DEF PodsAreThere, Judging
  <1>4. Unfinished(aiTask') = Unfinished(aiTask)
    BY DEF Unfinished
  <1>5. DoneWith'
    <2>1. prof.pc \in {"drop", "remove"} => prof.task \in ProfileTasks
      BY DEF ProfilerTypeOK
    <2>2. prof.pc = "drop" => prof.task \notin Unfinished(aiTask') \/ OffTheHook(prof.task)' \/ profPod'[prof.task] # "none"
      BY <1>4, <2>1 DEF DoneWith
    <2>3. prof.pc = "remove" /\ prof.phase # "unknown" => Handed(prof.task)'
      BY <1>4, <2>1 DEF DoneWith, Handed
    <2> QED
      BY <2>2, <2>3 DEF DoneWith
  <1>6. InHands'
    <2> SUFFICES ASSUME NEW u \in Unfinished(aiTask')
                 PROVE  \/ OffTheHook(u)' \/ u \in items' \/ profPod'[u] # "none"
                        \/ sched'.pc = "push" /\ sched'.task = u
                        \/ prof'.pc \in {"create", "mark", "drop", "result", "remove"} /\ prof'.task = u
      BY DEF InHands
    <2>1. u \in ProfileTasks
      BY DEF Unfinished
    <2> QED
      BY <1>4, <2>1 DEF InHands
  <1> QED
    BY <1>1, <1>2, <1>3, <1>5, <1>6 DEF ProfilerInv

\* Each of them.
LEMMA CutSteps ==
    ASSUME ProfilerInv,
           \/ \E t \in ProfileTasks : CutLook(t)
           \/ CutRead \/ CutQueue \/ CutPod \/ CutDelete
           \/ \E t \in ProfileTasks, phase \in PodPhases : PodMoves(t, phase)
    PROVE  ProfilerInv'
  <1> ProfilerTypeOK /\ RacesKnown /\ QueueWhole
    BY DEF ProfilerInv
  <1> USE DEF KeptQueue, CutUnchanged
  <1>0. TypedSched /\ TypedProf /\ TypedCut /\ TypedQueue /\ TypedRows /\ harmed \subseteq ProfileTasks
    BY Typed
  <1>q. ASSUME UNCHANGED queueVars PROVE UNCHANGED <<keys, items, harmed>>
    BY <1>q DEF queueVars
  <1>1. ASSUME NEW t \in ProfileTasks, CutLook(t)
        PROVE  ProfilerInv'
    <2>1. /\ UNCHANGED <<aiTask, profPod, forgone, obj, sched, prof>> /\ UNCHANGED queueVars
          /\ waiting' \subseteq waiting
          /\ cut.pc = "idle" /\ \E pc \in {"read", "delete"} : cut' = [pc |-> pc, task |-> t]
      BY <1>1 DEF CutLook
    <2>2. TypedCut' /\ cut'.pc # "idle"
      BY <2>1 DEF TypedCut, CutState
    <2>3. ProfilerTypeOK'
      BY <1>0, <1>q, <2>1, <2>2 DEF ProfilerTypeOK, TypedCut, TypedRows
    <2>4. \A u \in ProfileTasks : OffTheHook(u) => OffTheHook(u)'
      BY <1>q, <2>1 DEF OffTheHook
    <2>5. RacesKnown'
      BY <2>1, RacesStay
    <2> QED
      BY <1>q, <2>1, <2>3, <2>4, <2>5, CutFrame DEF QueueWhole
  <1>6. ASSUME CutRead
        PROVE  ProfilerInv'
    <2>1. /\ UNCHANGED <<aiTask, waiting, profPod, forgone, obj, sched, prof>> /\ UNCHANGED queueVars
          /\ cut.pc = "read" /\ \E pc \in {"queue", "delete"} : cut' = [cut EXCEPT !.pc = pc]
      BY <1>6 DEF CutRead
    <2>2. TypedCut' /\ cut'.pc # "idle" /\ cut'.task = cut.task
      BY <1>0, <2>1 DEF TypedCut, CutState
    <2>3. ProfilerTypeOK'
      BY <1>0, <1>q, <2>1, <2>2 DEF ProfilerTypeOK, TypedCut, TypedRows
    <2>4. \A u \in ProfileTasks : OffTheHook(u) => OffTheHook(u)'
      BY <1>q, <2>1, <2>2 DEF OffTheHook
    <2>5. RacesKnown'
      BY <2>1, RacesStay
    <2> QED
      BY <1>q, <2>1, <2>3, <2>4, <2>5, CutFrame DEF QueueWhole
  <1>2. ASSUME CutQueue
        PROVE  ProfilerInv'
    <2>0. PICK t : t = cut.task
      OBVIOUS
    <2>1. /\ UNCHANGED <<aiTask, waiting, profPod, forgone, obj, sched, prof>> /\ cut.pc = "queue"
          /\ Delete("cut", t) /\ cut' = [cut EXCEPT !.pc = "pod"]
      BY <1>2, <2>0 DEF CutQueue
    <2>2. t \in ProfileTasks /\ cut \in CutState /\ OpTask("cut") = t
      BY <1>0, <2>0, <2>1 DEF TypedCut, OpTask
    <2>3. cut' \in CutState /\ cut'.pc = "pod" /\ cut'.task = t
      BY <2>0, <2>1, <2>2 DEF CutState
    <2>4. /\ RacesKnown' /\ harmed' = harmed /\ TypedQueue' /\ OnceBut(keys', harmed)
          /\ items' \subseteq items /\ items \ {t} \subseteq items'
          /\ ToSet(keys') \subseteq items' \cup harmed
          /\ items' \ (ToSet(keys') \cup harmed) \subseteq items \ (ToSet(keys) \cup harmed)
      BY <2>1, <2>2, DeleteOp DEF Goroutines
    <2>5. ProfilerTypeOK'
      BY <1>0, <2>1, <2>2, <2>3, <2>4 DEF ProfilerTypeOK, TypedQueue
    <2>6. \A u \in ProfileTasks : (OffTheHook(u) => OffTheHook(u)') /\ (u = t => OffTheHook(u)')
      BY <2>0, <2>1, <2>3, <2>4 DEF OffTheHook
    <2> QED
      BY <2>1, <2>4, <2>5, <2>6, CutFrame
  <1>3. ASSUME CutPod
        PROVE  ProfilerInv'
    <2>1. /\ UNCHANGED <<aiTask, waiting, forgone, obj, sched, prof>> /\ UNCHANGED queueVars /\ cut.pc = "pod"
          /\ profPod' = profPod \/ profPod' = [profPod EXCEPT ![cut.task] = "none"]
          /\ cut' = [cut EXCEPT !.pc = "delete"]
      BY <1>3 DEF CutPod
    <2>2. cut.task \in ProfileTasks /\ cut \in CutState
      BY <1>0, <2>1 DEF TypedCut
    <2>3. cut' \in CutState /\ cut'.pc = "delete" /\ cut'.task = cut.task
      BY <2>1, <2>2 DEF CutState
    <2>4. profPod' \in [ProfileTasks -> PodPhases] /\ \A u \in ProfileTasks \ {cut.task} : profPod'[u] = profPod[u]
      BY <1>0, <2>1 DEF TypedRows, PodPhases
    <2>5. ProfilerTypeOK'
      BY <1>0, <1>q, <2>1, <2>2, <2>3, <2>4 DEF ProfilerTypeOK
    <2>6. \A u \in ProfileTasks : (OffTheHook(u) => OffTheHook(u)') /\ (u = cut.task => OffTheHook(u)')
      BY <1>q, <2>1, <2>3 DEF OffTheHook
    <2>7. RacesKnown'
      BY <2>1, RacesStay
    <2> QED
      BY <1>q, <2>1, <2>4, <2>5, <2>6, <2>7, CutFrame DEF QueueWhole
  <1>4. ASSUME CutDelete
        PROVE  ProfilerInv'
    <2>1. /\ UNCHANGED <<waiting, profPod, obj, sched, prof>> /\ UNCHANGED queueVars
          /\ cut.pc = "delete" /\ cut' = IdleCut
          /\ \/ aiTask' = aiTask /\ forgone' = forgone \cup {cut.task}
             \/ aiTask' = [aiTask EXCEPT ![cut.task].deleted = TRUE] /\ forgone' = forgone
      BY <1>4 DEF CutDelete
    <2>2. cut.task \in ProfileTasks
      BY <1>0, <2>1 DEF TypedCut
    <2>3. /\ aiTask' \in [ProfileTasks -> AiRow] /\ \A u \in ProfileTasks : aiTask'[u].stat = aiTask[u].stat
          /\ \A u \in ProfileTasks : aiTask[u].deleted => aiTask'[u].deleted
          /\ aiTask'[cut.task].deleted \/ cut.task \in forgone'
      <3> DEFINE row == [aiTask[cut.task] EXCEPT !.deleted = TRUE]
      <3>1. aiTask \in [ProfileTasks -> AiRow]
        BY <1>0 DEF TypedRows
      <3>2. row \in AiRow /\ row.deleted = TRUE /\ row.stat = aiTask[cut.task].stat
        BY <2>2, <3>1 DEF AiRow
      <3>3. CASE aiTask' = aiTask /\ forgone' = forgone \cup {cut.task}
        BY <3>1, <3>3
      <3>4. CASE aiTask' = [aiTask EXCEPT ![cut.task] = row]
        <4> HIDE DEF row
        <4> QED
          BY <2>2, <3>1, <3>2, <3>4
      <3> QED
        BY <2>1, <3>3, <3>4
    <2>4. ProfilerTypeOK'
      BY <1>0, <1>q, <2>1, <2>3, IdleShapes DEF ProfilerTypeOK
    <2>5. \A u \in ProfileTasks : OffTheHook(u) => OffTheHook(u)'
      BY <1>q, <2>1, <2>3 DEF OffTheHook
    <2>6. RacesKnown'
      BY <2>1, RacesStay
    <2> QED
      BY <1>q, <2>1, <2>3, <2>4, <2>5, <2>6, CutFrame DEF QueueWhole
  <1>5. ASSUME NEW t \in ProfileTasks, NEW phase \in PodPhases, PodMoves(t, phase)
        PROVE  ProfilerInv'
    <2>1. /\ UNCHANGED <<aiTask, waiting, forgone, obj, sched, prof, cut>> /\ UNCHANGED queueVars
          /\ profPod' = [profPod EXCEPT ![t] = phase] /\ phase # "none"
      BY <1>5 DEF PodMoves
    <2>2. profPod' \in [ProfileTasks -> PodPhases] /\ \A u \in ProfileTasks : profPod[u] # "none" => profPod'[u] # "none"
      BY <1>0, <2>1 DEF TypedRows
    <2>3. ProfilerTypeOK'
      BY <1>0, <1>q, <2>1, <2>2 DEF ProfilerTypeOK
    <2>4. \A u \in ProfileTasks : OffTheHook(u) => OffTheHook(u)'
      BY <1>q, <2>1 DEF OffTheHook
    <2>5. RacesKnown'
      BY <2>1, RacesStay
    <2> QED
      BY <1>q, <2>1, <2>2, <2>3, <2>4, <2>5, CutFrame DEF QueueWhole
  <1> QED
    BY <1>1, <1>2, <1>3, <1>4, <1>5, <1>6

-----------------------------------------------------------------------------
(* The profiler's steps *)

\* Between two tasks the profiler only looks at the pods.
LEMMA QuietProf ==
    ASSUME ProfilerInv, UNCHANGED <<aiTask, waiting, obj, sched, cut, profPod, forgone>>, UNCHANGED queueVars,
           prof.pc \in {"idle", "pods", "each"}, prof' \in ProfState,
           prof'.pc \notin {"create", "mark", "drop"},
           prof'.pc = "remove" => prof'.phase = "unknown",
           \A p \in prof'.pods : profPod[p[1]] # "none" \/ OffTheHook(p[1]),
           \A p, q \in prof'.pods : p[1] = q[1] => p = q,
           prof'.pc \in {"result", "remove"} =>
              /\ prof'.task \in ProfileTasks /\ \A p \in prof'.pods : p[1] # prof'.task
              /\ profPod[prof'.task] # "none" \/ OffTheHook(prof'.task)
    PROVE  ProfilerInv'
  <1> /\ ProfilerTypeOK /\ RacesKnown /\ QueueWhole /\ SubmittedOnce /\ PodsAreThere /\ DoneWith /\ InHands
    BY DEF ProfilerInv
  <1>0. UNCHANGED <<keys, items, harmed>>
    BY DEF queueVars
  <1>1. ProfilerTypeOK'
    BY <1>0 DEF ProfilerTypeOK
  <1>2. QueueWhole'
    BY <1>0 DEF QueueWhole
  <1>3. SubmittedOnce'
    BY <1>0 DEF SubmittedOnce, Taken
  <1>4. PodsAreThere'
    BY <1>0 DEF PodsAreThere, Judging, OffTheHook
  <1>5. DoneWith'
    BY DEF DoneWith
  <1>6. InHands'
    BY <1>0 DEF InHands, Unfinished, OffTheHook
  <1>7. RacesKnown'
    BY RacesStay DEF ProfilerInv
  <1> QED
    BY <1>1, <1>2, <1>3, <1>4, <1>5, <1>6, <1>7 DEF ProfilerInv

\* What is next after a pod.
LEMMA NextPodShape ==
    ASSUME NEW pods \in SUBSET (ProfileTasks \X PodPhases)
    PROVE  /\ NextPod(pods) \in ProfState /\ NextPod(pods).pods = pods
           /\ NextPod(pods).pc \in {"idle", "each"}
  BY IdleShapes DEF NextPod, ProfState

\* A round begins.
LEMMA TickStep == ASSUME ProfilerInv, Tick PROVE ProfilerInv'
  <1>1. /\ UNCHANGED <<aiTask, waiting, obj, sched, cut, profPod, forgone>> /\ UNCHANGED queueVars /\ prof.pc = "idle"
        /\ prof' = [IdleProf EXCEPT !.pc = IF keys = <<>> THEN "pods" ELSE "top"]
    BY DEF Tick, KeptQueue, ProfUnchanged
  <1>2. prof' \in ProfState /\ prof'.pc \in {"pods", "top"} /\ prof'.pods = {}
    BY <1>1, IdleShapes DEF ProfState
  <1> QED
    BY <1>1, <1>2, QuietProf

\* The list of pods holds what is there, each task once.
LEMMA ListPodsStep == ASSUME ProfilerInv, ListProfilingPods PROVE ProfilerInv'
  <1>1. /\ UNCHANGED <<aiTask, waiting, obj, sched, cut, profPod, forgone>> /\ UNCHANGED queueVars /\ prof.pc = "pods"
        /\ prof' = IdleProf \/ prof' = NextPod(ToLookAt)
    BY DEF ListProfilingPods, KeptQueue, ProfUnchanged
  <1>2. profPod \in [ProfileTasks -> PodPhases]
    BY DEF ProfilerInv, ProfilerTypeOK
  <1>3. \A p \in ToLookAt : p[1] \in ProfileTasks /\ p = <<p[1], profPod[p[1]]>> /\ profPod[p[1]] # "none"
    BY DEF ToLookAt
  <1>4. ToLookAt \in SUBSET (ProfileTasks \X PodPhases)
    BY <1>2 DEF ToLookAt
  <1>5. CASE prof' = IdleProf
    BY <1>1, <1>5, IdleShapes, QuietProf
  <1>6. CASE prof' = NextPod(ToLookAt)
    <2>1. prof' \in ProfState /\ prof'.pods = ToLookAt /\ prof'.pc \in {"idle", "each"}
      BY <1>4, <1>6, NextPodShape
    <2>2. \A p, q \in ToLookAt : p[1] = q[1] => p = q
      BY <1>3
    <2> QED
      BY <1>1, <1>3, <2>1, <2>2, QuietProf
  <1> QED
    BY <1>1, <1>5, <1>6

\* A pod of the list is judged, or the process dies of a row it could not read.
LEMMA LookStep ==
    ASSUME ProfilerInv, NEW t \in ProfileTasks, NEW phase \in PodPhases, Look(t, phase)
    PROVE  ProfilerInv'
  <1> ProfilerTypeOK /\ PodsAreThere
    BY DEF ProfilerInv
  <1> DEFINE p0 == <<t, phase>>
             Rest == [prof EXCEPT !.pods = prof.pods \ {p0}, !.task = t, !.phase = phase]
  <1>0. prof \in ProfState /\ prof.pc = "each" /\ p0 \in prof.pods
    BY DEF Look, ProfilerTypeOK
  <1>1. CASE Restart /\ UNCHANGED <<aiTask, profPod>>
    BY <1>1, RestartStep DEF ProfilerTypeOK
  <1>2. CASE /\ UNCHANGED <<aiTask, waiting, obj, sched, cut, profPod, forgone>> /\ UNCHANGED queueVars
             /\ \/ \E r \in {"finish", "measured", "failed", "nil"} : prof' = [Rest EXCEPT !.pc = "result", !.result = r]
                \/ prof' = NextPod(Rest.pods)
                \/ phase = "unknown" /\ prof' = [Rest EXCEPT !.pc = "remove"]
    <2>1. Rest \in ProfState /\ Rest.pods = prof.pods \ {p0} /\ Rest.task = t /\ Rest.phase = phase
      BY <1>0 DEF ProfState
    <2> HIDE DEF Rest
    <2>2. \/ prof' \in ProfState /\ prof'.pc = "result" /\ prof'.pods = Rest.pods /\ prof'.task = t
          \/ prof' \in ProfState /\ prof'.pc \in {"idle", "each"} /\ prof'.pods = Rest.pods
          \/ /\ prof' \in ProfState /\ prof'.pc = "remove" /\ prof'.phase = "unknown"
             /\ prof'.pods = Rest.pods /\ prof'.task = t
      <3>1. ASSUME NEW r \in {"finish", "measured", "failed", "nil"}, prof' = [Rest EXCEPT !.pc = "result", !.result = r]
            PROVE  prof' \in ProfState /\ prof'.pc = "result" /\ prof'.pods = Rest.pods /\ prof'.task = t
        BY <2>1, <3>1 DEF ProfState
      <3>2. CASE prof' = NextPod(Rest.pods)
        <4>1. Rest.pods \in SUBSET (ProfileTasks \X PodPhases)
          BY <2>1 DEF ProfState
        <4> QED
          BY <3>2, <4>1, NextPodShape
      <3>3. CASE phase = "unknown" /\ prof' = [Rest EXCEPT !.pc = "remove"]
        BY <2>1, <3>3 DEF ProfState
      <3> QED
        BY <1>2, <3>1, <3>2, <3>3
    <2>3. p0[1] = t /\ \A p \in Rest.pods : p \in prof.pods /\ p # p0
      BY <2>1
    <2>4. \A p \in Rest.pods : p[1] # t
      BY <1>0, <2>3 DEF PodsAreThere
    <2>5. /\ \A p \in Rest.pods : profPod[p[1]] # "none" \/ OffTheHook(p[1])
          /\ \A p, q \in Rest.pods : p[1] = q[1] => p = q
          /\ profPod[t] # "none" \/ OffTheHook(t)
      BY <1>0, <2>3 DEF PodsAreThere
    <2> HIDE DEF p0
    <2> QED
      BY <1>0, <1>2, <2>2, <2>4, <2>5, QuietProf
  <1>3. \/ Restart /\ UNCHANGED <<aiTask, profPod>>
        \/ /\ UNCHANGED <<aiTask, waiting, obj, sched, cut, profPod, forgone>> /\ UNCHANGED queueVars
           /\ \/ \E r \in {"finish", "measured", "failed", "nil"} : prof' = [Rest EXCEPT !.pc = "result", !.result = r]
              \/ prof' = NextPod(Rest.pods)
              \/ phase = "unknown" /\ prof' = [Rest EXCEPT !.pc = "remove"]
    <2> HIDE DEF Rest
    <2> QED
      BY Zenon DEF Look, KeptQueue, ProfUnchanged, Rest, p0
  <1> QED
    BY <1>1, <1>2, <1>3

\* The last key is taken, and its task is in the profiler's hands.  After a race it may
\* be any that was harmed.
LEMMA TakeTopStep == ASSUME ProfilerInv, TakeTop PROVE ProfilerInv'
  <1> /\ ProfilerTypeOK /\ RacesKnown /\ QueueWhole /\ SubmittedOnce /\ PodsAreThere /\ DoneWith /\ InHands
    BY DEF ProfilerInv
  <1>1. /\ UNCHANGED <<aiTask, waiting, obj, sched, cut, profPod, forgone>> /\ prof.pc = "top"
        /\ keys # <<>> \/ "prof" \in racing
        /\ Top
    BY DEF TakeTop, ProfUnchanged
  <1>2. /\ RacesKnown' /\ harmed' = harmed /\ TypedQueue' /\ OnceBut(keys', harmed)
        /\ items' = items /\ ToSet(keys') \subseteq items \cup harmed
        /\ \/ "prof" \in racing /\ items \subseteq harmed
           \/ /\ "prof" \notin racing /\ Last(keys) \in items \cup harmed
              /\ items \ (ToSet(keys') \cup harmed) \subseteq {Last(keys)} \cup (items \ (ToSet(keys) \cup harmed))
    BY <1>1, TopOp
  <1>3. PICK t : /\ prof' = IF t = 0 THEN IdleProf ELSE [prof EXCEPT !.pc = "create", !.task = t]
                 /\ IF "prof" \in racing THEN t \in torn \cup {0}
                    ELSE t = IF Last(keys) \in items THEN Last(keys) ELSE 0
    BY DEF TakeTop
  <1>4. items \subseteq ProfileTasks /\ torn \subseteq harmed /\ harmed \subseteq ProfileTasks /\ 0 \notin ProfileTasks
    BY TaskIds DEF ProfilerTypeOK, RacesKnown
  <1>5. /\ t # 0 => t \in ProfileTasks /\ t \in items \cup harmed
        /\ items \ (ToSet(keys') \cup harmed) \subseteq IF t = 0 THEN {} ELSE {t}
    <2>1. items \ (ToSet(keys) \cup harmed) = {}
      BY <1>1 DEF QueueWhole
    <2> QED
      BY <1>2, <1>3, <1>4, <2>1
  <1>6. /\ prof' \in ProfState /\ prof'.pc = (IF t = 0 THEN "idle" ELSE "create") /\ prof'.pods \subseteq prof.pods
        /\ t # 0 => prof'.task = t
    <2>1. CASE t = 0
      BY <1>3, <2>1, IdleShapes
    <2>2. CASE t # 0
      BY <1>3, <1>5, <2>2 DEF ProfilerTypeOK, ProfState
    <2> QED
      BY <2>1, <2>2
  <1>7. ProfilerTypeOK'
    BY <1>1, <1>2, <1>5, <1>6 DEF ProfilerTypeOK, TypedQueue
  <1>8. QueueWhole'
    BY <1>2, <1>5, <1>6 DEF QueueWhole
  <1>9. SubmittedOnce'
    BY <1>1, <1>2, <1>5, <1>6 DEF SubmittedOnce, Taken
  <1>10. PodsAreThere'
    BY <1>1, <1>2, <1>6 DEF PodsAreThere, Judging, OffTheHook
  <1>11. DoneWith'
    BY <1>6 DEF DoneWith
  <1>12. InHands'
    BY <1>1, <1>2, <1>6 DEF InHands, Unfinished, OffTheHook
  <1> QED
    BY <1>2, <1>7, <1>8, <1>9, <1>10, <1>11, <1>12 DEF ProfilerInv

\* Two operations meet: what they may write is harmed from now on.
LEMMA EnterStep == ASSUME ProfilerInv, NEW a \in Goroutines, Enter(a) PROVE ProfilerInv'
  <1> /\ ProfilerTypeOK /\ RacesKnown /\ QueueWhole /\ SubmittedOnce /\ PodsAreThere /\ DoneWith /\ InHands
    BY DEF ProfilerInv
  <1>1. /\ UNCHANGED <<aiTask, waiting, obj, keys, items, sched, prof, cut, profPod, forgone>>
        /\ Wants(a) /\ a \notin inside /\ inside' = inside \cup {a}
        /\ \/ inside = {} /\ UNCHANGED <<racing, torn, harmed>>
           \/ racing' = inside' /\ torn' = torn \cup Involved(inside') /\ harmed' = harmed \cup torn'
    BY DEF Enter
  <1>2. harmed \subseteq harmed' /\ harmed' \subseteq ProfileTasks
    <2>1. \A as : Involved(as) \subseteq ProfileTasks
      <3>1. \A i \in DOMAIN keys : keys[i] \in ProfileTasks
        BY ElementOfSeq, LenProperties DEF ProfilerTypeOK
      <3> QED
        BY <3>1 DEF Involved, ProfilerTypeOK, ToSet
    <2>2. torn \subseteq ProfileTasks
      BY DEF RacesKnown, ProfilerTypeOK
    <2> QED
      BY <1>1, <2>1, <2>2 DEF ProfilerTypeOK
  <1>3. \A u \in ProfileTasks : OffTheHook(u) => OffTheHook(u)'
    BY <1>1, <1>2 DEF OffTheHook
  <1>4. ProfilerTypeOK'
    BY <1>1, <1>2 DEF ProfilerTypeOK
  <1>5. QueueWhole'
    <2>1. OnceBut(keys', harmed')
      BY <1>1, <1>2 DEF QueueWhole, OnceBut
    <2> QED
      BY <1>1, <1>2, <2>1 DEF QueueWhole
  <1>6. SubmittedOnce'
    BY <1>1, <1>2 DEF SubmittedOnce, Taken
  <1>7. PodsAreThere'
    <2>1. \A p \in prof.pods : p[1] \in ProfileTasks
      BY DEF ProfilerTypeOK, ProfState
    <2>2. Judging \/ prof.pc = "mark" => prof.task \in ProfileTasks
      BY DEF ProfilerTypeOK, Judging
    <2> QED
      BY <1>1, <1>3, <2>1, <2>2 DEF PodsAreThere, Judging
  <1>8. DoneWith'
    <2>1. prof.pc \in {"drop", "remove"} => prof.task \in ProfileTasks
      BY DEF ProfilerTypeOK
    <2> QED
      BY <1>1, <1>3, <2>1 DEF DoneWith, Handed
  <1>9. InHands'
    BY <1>1, <1>3 DEF InHands, Unfinished
  <1>10. RacesKnown'
    <2>1. \A b \in inside' : b \in Goroutines /\ Wants(b)'
      BY <1>1 DEF RacesKnown, Wants
    <2>2. Involved(inside)' = Involved(inside')
      BY <1>1 DEF Involved, OpTask
    <2>3. CASE inside = {} /\ UNCHANGED <<racing, torn, harmed>>
      BY <1>1, <2>1, <2>3 DEF RacesKnown
    <2>4. CASE racing' = inside' /\ torn' = torn \cup Involved(inside') /\ harmed' = harmed \cup torn'
      BY <1>1, <2>1, <2>2, <2>4 DEF RacesKnown
    <2> QED
      BY <1>1, <2>3, <2>4
  <1> QED
    BY <1>4, <1>5, <1>6, <1>7, <1>8, <1>9, <1>10 DEF ProfilerInv

\* A pod is made, or there is one already, or none could be made.
LEMMA CreateStep == ASSUME ProfilerInv, CreateProfilePodFromTask PROVE ProfilerInv'
  <1> /\ ProfilerTypeOK /\ RacesKnown /\ QueueWhole /\ SubmittedOnce /\ PodsAreThere /\ DoneWith /\ InHands
    BY DEF ProfilerInv
  <1> DEFINE t == prof.task
  <1>q. UNCHANGED queueVars /\ UNCHANGED <<keys, items, harmed>> /\ RacesKnown'
    <2>1. UNCHANGED queueVars
      BY DEF CreateProfilePodFromTask, KeptQueue
    <2>2. UNCHANGED <<sched, cut>> /\ prof.pc \notin {"top", "drop"}
      BY DEF CreateProfilePodFromTask, ProfUnchanged
    <2> QED
      BY <2>1, <2>2, RacesStay DEF queueVars
  <1>1. /\ UNCHANGED <<aiTask, waiting, obj, sched, cut, forgone>> /\ UNCHANGED queueVars /\ prof.pc = "create"
        /\ \/ profPod' = [profPod EXCEPT ![t] = "pending"] /\ prof' = [prof EXCEPT !.pc = "mark", !.result = "profiling"]
           \/ profPod' = profPod /\ prof' = [prof EXCEPT !.pc = "mark", !.result = "failed"]
    BY DEF CreateProfilePodFromTask, KeptQueue, ProfUnchanged
  <1>2. t \in ProfileTasks
    BY <1>q, <1>1 DEF ProfilerTypeOK
  <1>3. /\ prof' \in ProfState /\ prof'.pc = "mark" /\ prof'.task = t /\ prof'.pods = prof.pods
        /\ prof'.result \in {"profiling", "failed"}
    BY <1>q, <1>1 DEF ProfilerTypeOK, ProfState
  <1>4. prof'.result = "profiling" => profPod'[t] # "none"
    <2>1. [prof EXCEPT !.pc = "mark", !.result = "failed"].result = "failed"
      BY DEF ProfilerTypeOK, ProfState
    <2> QED
      BY <1>q, <1>1, <1>2, <2>1 DEF ProfilerTypeOK
  <1> HIDE DEF t
  <1>5. profPod' \in [ProfileTasks -> PodPhases] /\ \A u \in ProfileTasks : profPod[u] # "none" => profPod'[u] # "none"
    BY <1>q, <1>1, <1>2 DEF ProfilerTypeOK, PodPhases
  <1>6. ProfilerTypeOK'
    BY <1>q, <1>1, <1>2, <1>3, <1>5 DEF ProfilerTypeOK
  <1>7. QueueWhole'
    BY <1>q, <1>1, <1>3 DEF QueueWhole, t
  <1>8. SubmittedOnce'
    BY <1>q, <1>1, <1>3 DEF SubmittedOnce, Taken, t
  <1>9. PodsAreThere'
    <2>1. \A p \in prof.pods : p[1] \in ProfileTasks
      BY DEF ProfilerTypeOK, ProfState
    <2> QED
      BY <1>q, <1>1, <1>3, <1>4, <1>5, <2>1 DEF PodsAreThere, Judging, OffTheHook
  <1>10. DoneWith'
    BY <1>3 DEF DoneWith
  <1>11. InHands'
    BY <1>q, <1>1, <1>3, <1>5 DEF InHands, Unfinished, OffTheHook, t
  <1> QED
    BY <1>q, <1>6, <1>7, <1>8, <1>9, <1>10, <1>11 DEF ProfilerInv

\* The row says so, or the task is given up.
LEMMA MarkCreatedStep == ASSUME ProfilerInv, MarkCreated PROVE ProfilerInv'
  <1> /\ ProfilerTypeOK /\ RacesKnown /\ QueueWhole /\ SubmittedOnce /\ PodsAreThere /\ DoneWith /\ InHands
    BY DEF ProfilerInv
  <1>0. PICK t : t = prof.task
    OBVIOUS
  <1>q. UNCHANGED queueVars /\ UNCHANGED <<keys, items, harmed>> /\ RacesKnown'
    <2>1. UNCHANGED queueVars
      BY DEF MarkCreated, KeptQueue
    <2>2. UNCHANGED <<sched, cut>> /\ prof.pc \notin {"top", "drop"}
      BY DEF MarkCreated, ProfUnchanged
    <2> QED
      BY <2>1, <2>2, RacesStay DEF queueVars
  <1>1. /\ UNCHANGED <<waiting, obj, sched, cut, profPod>> /\ UNCHANGED queueVars /\ prof.pc = "mark"
        /\ UpdateProfilingStat(t, prof.result, "none") /\ prof' = [prof EXCEPT !.pc = "drop", !.result = "none"]
    BY <1>0 DEF MarkCreated, KeptQueue, ProfUnchanged
  <1>2. t \in ProfileTasks /\ prof.result \in {"profiling", "failed"}
    BY <1>0, <1>q, <1>1 DEF ProfilerTypeOK, PodsAreThere
  <1>3. prof' \in ProfState /\ prof'.pc = "drop" /\ prof'.task = t /\ prof'.pods = prof.pods
    BY <1>0, <1>q, <1>1 DEF ProfilerTypeOK, ProfState
  <1>4. /\ aiTask' \in [ProfileTasks -> AiRow]
        /\ \A u \in ProfileTasks : aiTask'[u].deleted = aiTask[u].deleted
        /\ \A u \in ProfileTasks \ {t} : aiTask'[u] = aiTask[u]
        /\ forgone \subseteq forgone'
        /\ aiTask'[t].stat = prof.result \/ (aiTask' = aiTask /\ t \in forgone')
    <2>1. prof.result \in ProfileStatus
      BY <1>0, <1>2 DEF ProfileStatus
    <2> QED
      BY <1>0, <1>q, <1>1, <1>2, <2>1, StatWritten
  <1>5. \A u \in ProfileTasks : OffTheHook(u) => OffTheHook(u)'
    BY <1>0, <1>q, <1>1, <1>4 DEF OffTheHook
  <1>6. ProfilerTypeOK'
    BY <1>0, <1>q, <1>1, <1>2, <1>3, <1>4 DEF ProfilerTypeOK
  <1>7. QueueWhole'
    BY <1>0, <1>q, <1>1, <1>3 DEF QueueWhole
  <1>8. SubmittedOnce'
    BY <1>0, <1>q, <1>1, <1>3 DEF SubmittedOnce, Taken
  <1>9. PodsAreThere'
    <2>1. \A p \in prof.pods : p[1] \in ProfileTasks
      BY <1>0 DEF ProfilerTypeOK, ProfState
    <2> QED
      BY <1>0, <1>q, <1>1, <1>3, <1>5, <2>1 DEF PodsAreThere, Judging
  <1>10. DoneWith'
    <2>1. \/ t \notin Unfinished(aiTask') \/ OffTheHook(t)' \/ profPod'[t] # "none"
      <3>1. CASE aiTask'[t].stat = "failed"
        BY <1>0, <3>1 DEF Unfinished
      <3>2. CASE t \in forgone'
        BY <1>0, <3>2 DEF OffTheHook
      <3>3. CASE prof.result = "profiling"
        <4>1. profPod[t] # "none" \/ OffTheHook(t)
          BY <1>0, <1>q, <1>1, <3>3 DEF PodsAreThere
        <4> QED
          BY <1>0, <1>q, <1>1, <1>2, <1>5, <4>1
      <3> QED
        BY <1>0, <1>2, <1>4, <3>1, <3>2, <3>3
    <2> QED
      BY <1>0, <1>3, <2>1 DEF DoneWith
  <1>11. InHands'
    <2> SUFFICES ASSUME NEW u \in Unfinished(aiTask'), u # t
                 PROVE  \/ OffTheHook(u)' \/ u \in items' \/ profPod'[u] # "none"
                        \/ sched'.pc = "push" /\ sched'.task = u
      BY <1>0, <1>3 DEF InHands
    <2>1. u \in Unfinished(aiTask) /\ u \in ProfileTasks
      BY <1>0, <1>4 DEF Unfinished
    <2> QED
      BY <1>0, <1>q, <1>1, <1>4, <1>5, <2>1 DEF InHands
  <1> QED
    BY <1>q, <1>0, <1>6, <1>7, <1>8, <1>9, <1>10, <1>11 DEF ProfilerInv

\* The task leaves the queue: a pod goes on with it, or its row is finished.
LEMMA DropTaskStep == ASSUME ProfilerInv, DropTask PROVE ProfilerInv'
  <1> /\ ProfilerTypeOK /\ RacesKnown /\ QueueWhole /\ SubmittedOnce /\ PodsAreThere /\ DoneWith /\ InHands
    BY DEF ProfilerInv
  <1>0. PICK t : t = prof.task
    OBVIOUS
  <1>1. /\ UNCHANGED <<aiTask, waiting, obj, sched, cut, profPod, forgone>> /\ prof.pc = "drop"
        /\ Delete("prof", t) /\ prof' = [IdleProf EXCEPT !.pc = "pods"]
    BY <1>0 DEF DropTask, ProfUnchanged
  <1>2. t \in ProfileTasks /\ OpTask("prof") = t /\ "prof" \in Goroutines
    BY <1>0, <1>1 DEF ProfilerTypeOK, OpTask, Goroutines
  <1>3. prof' \in ProfState /\ prof'.pc = "pods" /\ prof'.pods = {}
    BY <1>1, IdleShapes DEF ProfState
  <1>4. /\ RacesKnown' /\ harmed' = harmed /\ TypedQueue' /\ OnceBut(keys', harmed)
        /\ items' \subseteq items /\ items \ {t} \subseteq items' /\ (t \in items' => t \in harmed)
        /\ ToSet(keys') \subseteq items' \cup harmed
        /\ items' \ (ToSet(keys') \cup harmed) \subseteq (items \ (ToSet(keys) \cup harmed)) \ {t}
    BY <1>1, <1>2, DeleteOp
  <1>5. ProfilerTypeOK'
    BY <1>1, <1>3, <1>4 DEF ProfilerTypeOK, TypedQueue
  <1>6. QueueWhole'
    <2>1. items \ (ToSet(keys) \cup harmed) \subseteq {t}
      BY <1>0, <1>1 DEF QueueWhole
    <2> QED
      BY <1>3, <1>4, <2>1 DEF QueueWhole
  <1>7. SubmittedOnce'
    BY <1>1, <1>3, <1>4 DEF SubmittedOnce, Taken
  <1>8. PodsAreThere'
    BY <1>3 DEF PodsAreThere, Judging
  <1>9. DoneWith'
    BY <1>3 DEF DoneWith
  <1>10. InHands'
    <2> SUFFICES ASSUME NEW u \in Unfinished(aiTask)
                 PROVE  \/ OffTheHook(u)' \/ u \in items' \/ profPod[u] # "none"
                        \/ sched.pc = "push" /\ sched.task = u
      BY <1>1 DEF InHands, Unfinished
    <2>1. OffTheHook(u) => OffTheHook(u)'
      BY <1>1, <1>4 DEF OffTheHook
    <2>2. CASE u = t
      BY <1>0, <1>1, <2>1, <2>2 DEF DoneWith
    <2>3. CASE u # t
      BY <1>0, <1>1, <1>4, <2>1, <2>3 DEF InHands
    <2> QED
      BY <2>2, <2>3
  <1> QED
    BY <1>4, <1>5, <1>6, <1>7, <1>8, <1>9, <1>10 DEF ProfilerInv

\* The result is written before the pod is removed.
LEMMA WriteProfileStep == ASSUME ProfilerInv, WriteProfile PROVE ProfilerInv'
  <1> /\ ProfilerTypeOK /\ RacesKnown /\ QueueWhole /\ SubmittedOnce /\ PodsAreThere /\ DoneWith /\ InHands
    BY DEF ProfilerInv
  <1>0. PICK t : t = prof.task
    OBVIOUS
  <1> DEFINE stat == IF prof.result = "failed" THEN "failed" ELSE "finish"
  <1>q. UNCHANGED queueVars /\ UNCHANGED <<keys, items, harmed>> /\ RacesKnown'
    <2>1. UNCHANGED queueVars
      BY DEF WriteProfile, KeptQueue
    <2>2. UNCHANGED <<sched, cut>> /\ prof.pc \notin {"top", "drop"}
      BY DEF WriteProfile, ProfUnchanged
    <2> QED
      BY <2>1, <2>2, RacesStay DEF queueVars
  <1>1. /\ UNCHANGED <<waiting, obj, sched, cut, profPod>> /\ UNCHANGED queueVars /\ prof.pc = "result"
        /\ UpdateProfilingStat(t, stat, JobStatus(prof.phase))
        /\ prof' = [prof EXCEPT !.pc = "remove", !.result = "none"]
    BY <1>0 DEF WriteProfile, KeptQueue, ProfUnchanged
  <1>2. t \in ProfileTasks /\ stat \in {"failed", "finish"} /\ JobStatus(prof.phase) \in {"Ended", "none"}
    BY <1>0, <1>q, <1>1 DEF ProfilerTypeOK, JobStatus
  <1>3. prof' \in ProfState /\ prof'.pc = "remove" /\ prof'.task = t /\ prof'.pods = prof.pods
    BY <1>0, <1>q, <1>1 DEF ProfilerTypeOK, ProfState
  <1> HIDE DEF stat
  <1>4. /\ aiTask' \in [ProfileTasks -> AiRow]
        /\ \A u \in ProfileTasks : aiTask'[u].deleted = aiTask[u].deleted
        /\ \A u \in ProfileTasks \ {t} : aiTask'[u] = aiTask[u]
        /\ forgone \subseteq forgone'
        /\ aiTask'[t].stat = stat \/ (aiTask' = aiTask /\ t \in forgone')
    <2>1. stat \in ProfileStatus
      BY <1>0, <1>2 DEF ProfileStatus
    <2> QED
      BY <1>0, <1>q, <1>1, <1>2, <2>1, StatWritten
  <1>5. \A u \in ProfileTasks : OffTheHook(u) => OffTheHook(u)'
    BY <1>0, <1>q, <1>1, <1>4 DEF OffTheHook
  <1>6. ProfilerTypeOK'
    BY <1>0, <1>q, <1>1, <1>2, <1>3, <1>4 DEF ProfilerTypeOK
  <1>7. QueueWhole'
    BY <1>0, <1>q, <1>1, <1>3 DEF QueueWhole
  <1>8. SubmittedOnce'
    BY <1>0, <1>q, <1>1, <1>3 DEF SubmittedOnce, Taken
  <1>9. PodsAreThere'
    <2>1. \A p \in prof.pods : p[1] \in ProfileTasks
      BY <1>0 DEF ProfilerTypeOK, ProfState
    <2>2. profPod[t] # "none" \/ OffTheHook(t)
      BY <1>0, <1>q, <1>1 DEF PodsAreThere, Judging
    <2>3. \A p \in prof.pods : p[1] # t
      BY <1>0, <1>q, <1>1 DEF PodsAreThere, Judging
    <2> QED
      BY <1>0, <1>q, <1>1, <1>2, <1>3, <1>5, <2>1, <2>2, <2>3 DEF PodsAreThere, Judging
  <1>10. DoneWith'
    <2>1. Handed(t)'
      <3>1. CASE aiTask'[t].stat = stat
        BY <1>0, <1>2, <3>1 DEF Handed, Unfinished
      <3>2. CASE t \in forgone'
        BY <1>0, <3>2 DEF Handed, OffTheHook
      <3> QED
        BY <1>0, <1>4, <3>1, <3>2
    <2> QED
      BY <1>0, <1>3, <2>1 DEF DoneWith
  <1>11. InHands'
    <2> SUFFICES ASSUME NEW u \in Unfinished(aiTask'), u # t
                 PROVE  \/ OffTheHook(u)' \/ u \in items' \/ profPod'[u] # "none"
                        \/ sched'.pc = "push" /\ sched'.task = u
      BY <1>0, <1>3 DEF InHands
    <2>1. u \in Unfinished(aiTask) /\ u \in ProfileTasks
      BY <1>0, <1>4 DEF Unfinished
    <2> QED
      BY <1>0, <1>q, <1>1, <1>4, <1>5, <2>1 DEF InHands
  <1> QED
    BY <1>q, <1>0, <1>6, <1>7, <1>8, <1>9, <1>10, <1>11 DEF ProfilerInv

\* The pod is removed: its task is finished, or is submitted anew.
LEMMA RemovePodStep == ASSUME ProfilerInv, RemovePod PROVE ProfilerInv'
  <1> /\ ProfilerTypeOK /\ RacesKnown /\ QueueWhole /\ SubmittedOnce /\ PodsAreThere /\ DoneWith /\ InHands
    BY DEF ProfilerInv
  <1> DEFINE t == prof.task
  <1>q. UNCHANGED queueVars /\ UNCHANGED <<keys, items, harmed>> /\ RacesKnown'
    <2>1. UNCHANGED queueVars
      BY DEF RemovePod, KeptQueue
    <2>2. UNCHANGED <<sched, cut>> /\ prof.pc \notin {"top", "drop"}
      BY DEF RemovePod, ProfUnchanged
    <2> QED
      BY <2>1, <2>2, RacesStay DEF queueVars
  <1>1. /\ UNCHANGED <<aiTask, waiting, obj, sched, cut>> /\ UNCHANGED queueVars /\ prof.pc = "remove"
        /\ prof' = NextPod(prof.pods)
        /\ \/ UNCHANGED <<profPod, forgone>>
           \/ /\ profPod' = [profPod EXCEPT ![t] = "none"]
              /\ forgone' = IF prof.phase = "unknown" THEN forgone \cup {t} ELSE forgone
    BY DEF RemovePod, KeptQueue, ProfUnchanged
  <1>2. t \in ProfileTasks
    BY <1>q, <1>1 DEF ProfilerTypeOK
  <1>3. prof' \in ProfState /\ prof'.pods = prof.pods /\ prof'.pc \in {"idle", "each"}
    <2>1. prof.pods \in SUBSET (ProfileTasks \X PodPhases)
      BY DEF ProfilerTypeOK, ProfState
    <2> QED
      BY <1>q, <1>1, <2>1, NextPodShape
  <1> HIDE DEF t
  <1>4. profPod' \in [ProfileTasks -> PodPhases] /\ \A u \in ProfileTasks \ {t} : profPod'[u] = profPod[u]
    BY <1>q, <1>1, <1>2 DEF ProfilerTypeOK, PodPhases
  <1>5. \A u \in ProfileTasks : OffTheHook(u) => OffTheHook(u)'
    BY <1>q, <1>1 DEF OffTheHook
  <1>6. ProfilerTypeOK'
    BY <1>q, <1>1, <1>3, <1>4 DEF ProfilerTypeOK
  <1>7. QueueWhole'
    BY <1>q, <1>1, <1>3 DEF QueueWhole
  <1>8. SubmittedOnce'
    BY <1>q, <1>1, <1>3 DEF SubmittedOnce, Taken
  <1>9. PodsAreThere'
    <2>1. \A p \in prof.pods : p[1] \in ProfileTasks
      BY DEF ProfilerTypeOK, ProfState
    <2>2. \A p \in prof.pods : p[1] # t
      BY <1>q, <1>1 DEF PodsAreThere, Judging, t
    <2> QED
      BY <1>3, <1>4, <1>5, <2>1, <2>2 DEF PodsAreThere, Judging
  <1>10. DoneWith'
    BY <1>3 DEF DoneWith
  <1>11. InHands'
    <2> SUFFICES ASSUME NEW u \in Unfinished(aiTask)
                 PROVE  \/ OffTheHook(u)' \/ u \in items \/ profPod'[u] # "none"
                        \/ sched.pc = "push" /\ sched.task = u
      BY <1>q, <1>1 DEF InHands, Unfinished
    <2>1. u \in ProfileTasks
      BY DEF Unfinished
    <2>2. CASE u = t /\ prof.phase # "unknown"
      BY <1>1, <1>5, <2>1, <2>2 DEF DoneWith, Handed, t
    <2>3. CASE u = t /\ prof.phase = "unknown"
      <3>1. CASE UNCHANGED profPod
        BY <1>1, <1>5, <2>1, <2>3, <3>1 DEF PodsAreThere, Judging, t
      <3>2. CASE t \in forgone'
        BY <2>3, <3>2 DEF OffTheHook
      <3> QED
        BY <1>1, <2>3, <3>1, <3>2
    <2>4. CASE u # t
      BY <1>1, <1>4, <1>5, <2>1, <2>4 DEF InHands, t
    <2> QED
      BY <2>2, <2>3, <2>4
  <1> QED
    BY <1>q, <1>6, <1>7, <1>8, <1>9, <1>10, <1>11 DEF ProfilerInv

\* The process dies and starts again.
LEMMA ProfRestarts ==
    ASSUME ProfilerInv, QueuePanics \/ StorePanics \/ ProfilerCrash
    PROVE  ProfilerInv'
  <1> ProfilerTypeOK
    BY DEF ProfilerInv
  <1>1. CASE QueuePanics
    BY <1>1, RestartStep DEF QueuePanics, ProfilerTypeOK
  <1>2. CASE ProfilerCrash
    BY <1>2, RestartStep DEF ProfilerCrash, ProfilerTypeOK
  <1>3. CASE StorePanics
    <2> DEFINE t == prof.task
               st == IF JobStatus(prof.phase) = "none" THEN aiTask[t].status ELSE JobStatus(prof.phase)
               row == [aiTask[t] EXCEPT !.stat = "finish", !.status = st]
    <2>1. t \in ProfileTasks /\ aiTask[t] \in AiRow
      BY <1>3 DEF StorePanics, ProfilerTypeOK
    <2>2. st \in {"Queueing", "Created", "Ended"}
      BY <2>1 DEF JobStatus, AiRow
    <2> HIDE DEF st
    <2>3. row \in AiRow
      BY <2>1, <2>2 DEF AiRow, ProfileStatus
    <2>4. /\ aiTask' = [aiTask EXCEPT ![t].stat = "finish", ![t].status = st]
          /\ UNCHANGED profPod /\ Restart
      BY <1>3 DEF StorePanics, st
    <2>5. aiTask' = [aiTask EXCEPT ![t] = row]
      BY <2>1, <2>4 DEF ProfilerTypeOK, AiRow
    <2> HIDE DEF row
    <2>6. aiTask' \in [ProfileTasks -> AiRow]
      BY <2>1, <2>3, <2>5 DEF ProfilerTypeOK
    <2> QED
      BY <2>4, <2>6, RestartStep DEF ProfilerTypeOK
  <1> QED
    BY <1>1, <1>2, <1>3

-----------------------------------------------------------------------------
\* The invariant of the queue, the rows and the pods.
THEOREM ProfilerInvariance == ProfilerSpec => []ProfilerInv
  <1>1. ProfilerInit => ProfilerInv
    <2> SUFFICES ASSUME ProfilerInit PROVE ProfilerInv
      OBVIOUS
    <2>1. /\ keys = <<>> /\ items = {} /\ inside = {} /\ racing = {} /\ torn = {} /\ harmed = {}
          /\ sched = IdleSched /\ prof = IdleProf /\ cut = IdleCut
      BY DEF ProfilerInit
    <2>2. keys \in Seq(ProfileTasks) /\ ToSet(keys) = {} /\ OnceBut(keys, harmed)
      BY <2>1, EmptySeq DEF ToSet, OnceBut
    <2>3. ProfilerTypeOK
      BY <2>1, <2>2, IdleShapes DEF ProfilerInit, ProfilerTypeOK, AiRow, ProfileStatus, PodPhases
    <2>4. QueueWhole
      BY <2>1, <2>2 DEF QueueWhole
    <2>5. SubmittedOnce
      BY <2>1, IdleShapes DEF SubmittedOnce, Taken
    <2>6. PodsAreThere
      BY <2>1, IdleShapes DEF PodsAreThere, Judging
    <2>7. DoneWith
      BY <2>1, IdleShapes DEF DoneWith
    <2>8. InHands
      BY DEF InHands, Unfinished, ProfilerInit
    <2>9. RacesKnown
      BY <2>1 DEF RacesKnown
    <2> QED
      BY <2>3, <2>4, <2>5, <2>6, <2>7, <2>8, <2>9 DEF ProfilerInv
  <1>2. ProfilerInv /\ [ProfilerNext]_profVars => ProfilerInv'
    <2> SUFFICES ASSUME ProfilerInv, [ProfilerNext]_profVars PROVE ProfilerInv'
      OBVIOUS
    <2>1. ASSUME UNCHANGED profVars PROVE ProfilerInv'
      <3>1. /\ UNCHANGED <<aiTask, waiting, obj, sched, prof, cut, profPod, forgone>> /\ UNCHANGED queueVars
            /\ UNCHANGED <<keys, items, harmed>>
        BY <2>1 DEF profVars, queueVars
      <3>2. RacesKnown'
        BY <3>1, RacesStay DEF ProfilerInv
      <3> QED
        BY <3>1, <3>2 DEF ProfilerInv, ProfilerTypeOK, QueueWhole, SubmittedOnce, Taken, PodsAreThere, Judging,
                          OffTheHook, DoneWith, Handed, Unfinished, InHands
    <2> QED
      BY <2>1, ProfilerBranches, SchedSteps, CutSteps, EnterStep, TickStep, TakeTopStep, CreateStep, MarkCreatedStep,
         DropTaskStep, ListPodsStep, LookStep, WriteProfileStep, RemovePodStep, ProfRestarts
  <1> QED
    BY <1>1, <1>2, PTL DEF ProfilerSpec

\* The list and the map of the keyed queue agree however operations on it take turns,
\* but for the tasks that two operations raced for: the queue has no lock.
THEOREM QueueKept == ProfilerSpec => []QueueWhole
  <1>1. ProfilerInv => QueueWhole
    BY DEF ProfilerInv
  <1> QED
    BY <1>1, ProfilerInvariance, PTL

\* A task that waits for its profile is in somebody's hands, unless a failed call, a
\* crash, a lost pod or a race in the queue took it away.
THEOREM NoTaskForgotten == ProfilerSpec => []NoneForgotten
  <1>1. ProfilerInv => NoneForgotten
    <2> SUFFICES ASSUME ProfilerInv, NEW t \in Unfinished(aiTask) \ (forgone \cup harmed)
                 PROVE  \/ aiTask[t].deleted
                        \/ t \in ToSet(keys) \/ profPod[t] # "none"
                        \/ sched.pc = "push" /\ sched.task = t
                        \/ prof.pc \in {"create", "mark", "drop", "result", "remove"} /\ prof.task = t
                        \/ cut.pc # "idle" /\ cut.task = t
      BY DEF NoneForgotten
    <2>1. InHands /\ QueueWhole
      BY DEF ProfilerInv
    <2>2. CASE OffTheHook(t)
      BY <2>2 DEF OffTheHook
    <2>3. CASE t \in items
      BY <2>1, <2>3 DEF QueueWhole
    <2> QED
      BY <2>1, <2>2, <2>3 DEF InHands
  <1> QED
    BY <1>1, ProfilerInvariance, PTL

-----------------------------------------------------------------------------
(* The pods of a job. *)

\* Of some subsets of a finite set, one has no other one below it: the induction
\* that the lemmas on sums need.
LEMMA SmallestSubset ==
    ASSUME NEW S, IsFiniteSet(S), NEW B, B \subseteq SUBSET S, B # {}
    PROVE  \E m \in B : \A T \in SUBSET m : T # m => T \notin B
  <1>1. IsWellFoundedOn(StrictSubsetOrdering(S), FiniteSubsetsOf(S))
    BY FS_StrictSubsetOrderingWellFounded
  <1>2. FiniteSubsetsOf(S) = SUBSET S
    BY FS_FiniteSubsetsOfFinite
  <1>3. PICK m \in B : \A y \in B : ~(<<y, m>> \in StrictSubsetOrdering(S))
    BY <1>1, <1>2, WFMin
  <1>4. ASSUME NEW T \in SUBSET m, T # m, T \in B PROVE FALSE
    BY <1>3, <1>4 DEF StrictSubsetOrdering
  <1> QED
    BY <1>3, <1>4

\* A finite set of numbers that is not empty has a largest one.
LEMMA MaxIs ==
    ASSUME NEW S \in SUBSET Nat, IsFiniteSet(S), S # {}
    PROVE  Max(S) \in S /\ \A x \in S : x <= Max(S)
  <1> DEFINE B == {T \in SUBSET S : T # {} /\ ~ \E x \in T : \A y \in T : x >= y}
  <1>1. B = {}
    <2> SUFFICES ASSUME B # {} PROVE FALSE
      OBVIOUS
    <2>1. PICK m \in B : \A T \in SUBSET m : T # m => T \notin B
      <3>1. B \subseteq SUBSET S
        OBVIOUS
      <3> HIDE DEF B
      <3> QED
        BY <3>1, SmallestSubset
    <2>2. PICK t \in m : TRUE
      OBVIOUS
    <2> DEFINE r == m \ {t}
    <2>3. m \subseteq Nat /\ t \in Nat /\ r \in SUBSET m /\ r # m /\ r \in SUBSET S /\ m = r \cup {t}
      BY <2>2
    <2>4. CASE r = {}
      <3>1. m = {t}
        BY <2>3, <2>4
      <3> QED
        BY <2>3, <3>1
    <2>5. CASE r # {}
      <3>1. r \notin B
        BY <2>1, <2>3
      <3>2. PICK x \in r : \A y \in r : x >= y
        BY <2>3, <2>5, <3>1
      <3>3. x \in Nat /\ x \in m
        BY <2>3
      <3>4. CASE x >= t
        <4>1. \A y \in m : x >= y
          BY <2>3, <3>2, <3>4
        <4> QED
          BY <3>3, <4>1
      <3>5. CASE ~(x >= t)
        <4>1. \A y \in m : y \in Nat
          BY <2>3
        <4>2. \A y \in m : t >= y
          BY <2>3, <3>2, <3>3, <3>5, <4>1
        <4> QED
          BY <2>2, <4>2
      <3> QED
        BY <3>4, <3>5
    <2> QED
      BY <2>4, <2>5
  <1>2. \E x \in S : \A y \in S : x >= y
    <2>1. S \notin B
      BY <1>1
    <2> QED
      BY <2>1
  <1>3. Max(S) \in S /\ \A y \in S : Max(S) >= y
    BY <1>2 DEF Max
  <1> QED
    BY <1>3

\* The equation that the volumes of the first mounts solve: FoldLeft takes a sequence
\* from its last index.
Mounted(f, claim, S) ==
    f = [s \in SUBSET S |-> IF s = {} THEN <<"cache">> ELSE AddVolume(f[s \ {Max(s)}], claim[Max(s)])]

\* What is folded over: some indices of a sequence.
Indices(S) == IsFiniteSet(S) /\ S \subseteq Nat

\* Of some indices, one is the last.
LEMMA LastIndex ==
    ASSUME NEW S, Indices(S), NEW m \in SUBSET S
    PROVE  Indices(m) /\ (m # {} => Max(m) \in m)
  BY FS_Subset, MaxIs DEF Indices

\* Two solutions agree where both are defined.
LEMMA MountsAgree ==
    ASSUME NEW S, Indices(S), NEW T, NEW claim,
           NEW f, Mounted(f, claim, S), NEW g, Mounted(g, claim, T)
    PROVE  \A s \in SUBSET (S \cap T) : f[s] = g[s]
  <1> DEFINE B == {s \in SUBSET (S \cap T) : f[s] # g[s]}
  <1> SUFFICES ASSUME B # {} PROVE FALSE
    OBVIOUS
  <1>1. PICK m \in B : \A s \in SUBSET m : s # m => s \notin B
    <2>1. B \subseteq SUBSET S /\ IsFiniteSet(S)
      BY DEF Indices
    <2> HIDE DEF B
    <2> QED
      BY <2>1, SmallestSubset
  <1>2. m \in SUBSET S /\ m \in SUBSET T
    OBVIOUS
  <1>3. CASE m = {}
    <2>1. f[m] = <<"cache">> /\ g[m] = <<"cache">>
      BY <1>2, <1>3 DEF Mounted
    <2> QED
      BY <2>1
  <1>4. CASE m # {}
    <2>1. PICK top : top = Max(m)
      OBVIOUS
    <2>2. top \in m
      BY <1>2, <1>4, <2>1, LastIndex
    <2>3. m \ {top} \in SUBSET m /\ m \ {top} # m
      BY <2>2
    <2>4. f[m \ {top}] = g[m \ {top}]
      BY <1>1, <1>2, <2>3
    <2>5. f[m] = AddVolume(f[m \ {top}], claim[top])
      BY <1>2, <1>4, <2>1 DEF Mounted
    <2>6. g[m] = AddVolume(g[m \ {top}], claim[top])
      BY <1>2, <1>4, <2>1 DEF Mounted
    <2> QED
      BY <2>4, <2>5, <2>6
  <1> QED
    BY <1>3, <1>4

\* The solution over a set, and the volumes it gives.
MountedOf(claim, S) == CHOOSE f : Mounted(f, claim, S)
Volumes(claim, S) == MountedOf(claim, S)[S]

\* There is a solution over every finite set of numbers.
LEMMA MountsExist ==
    ASSUME NEW S, Indices(S), NEW claim
    PROVE  Mounted(MountedOf(claim, S), claim, S)
  <1> DEFINE B == {T \in SUBSET S : ~\E f : Mounted(f, claim, T)}
  <1>1. SUFFICES ASSUME B # {} PROVE FALSE
    BY DEF MountedOf
  <1>2. PICK m \in B : \A T \in SUBSET m : T # m => T \notin B
    <2>1. B \subseteq SUBSET S /\ IsFiniteSet(S)
      BY DEF Indices
    <2> HIDE DEF B
    <2> QED
      BY <1>1, <2>1, SmallestSubset
  <1>3. ASSUME NEW T \in SUBSET m, T # m
        PROVE  Mounted(MountedOf(claim, T), claim, T) /\ Indices(T)
    <2>1. \E f : Mounted(f, claim, T)
      BY <1>2, <1>3
    <2>2. Mounted(MountedOf(claim, T), claim, T)
      BY <2>1 DEF MountedOf
    <2>3. T \in SUBSET S
      OBVIOUS
    <2> QED
      BY <2>2, <2>3, LastIndex
  <1>m. Indices(m)
    BY LastIndex
  <1> DEFINE rest(s) == s \ {Max(s)}
             step(s) == AddVolume(Volumes(claim, rest(s)), claim[Max(s)])
             g == [s \in SUBSET m |-> IF s = {} THEN <<"cache">> ELSE step(s)]
  <1>r. ASSUME NEW s \in SUBSET m, s # {}
        PROVE  rest(s) \in SUBSET s /\ rest(s) \in SUBSET m /\ rest(s) # s /\ rest(s) # m
    <2>1. Max(s) \in s
      BY <1>m, <1>r, LastIndex
    <2> QED
      BY <2>1
  <1>4. ASSUME NEW s \in SUBSET m, s # m PROVE Volumes(claim, s) = g[s]
    <2>1. Mounted(MountedOf(claim, s), claim, s) /\ Indices(s)
      BY <1>3, <1>4
    <2>2. CASE s = {}
      <3>1. Volumes(claim, s) = <<"cache">>
        BY <2>1, <2>2 DEF Mounted, Volumes
      <3> QED
        BY <3>1, <2>2
    <2>3. CASE s # {}
      <3>1. rest(s) \in SUBSET s /\ rest(s) \in SUBSET m /\ rest(s) # m
        BY <1>r, <2>3
      <3>2. Mounted(MountedOf(claim, rest(s)), claim, rest(s))
        <4> HIDE DEF rest
        <4> QED
          BY <1>3, <3>1
      <3>3. MountedOf(claim, s)[rest(s)] = Volumes(claim, rest(s))
        <4>1. PICK r : r = rest(s)
          OBVIOUS
        <4>2. PICK f : f = MountedOf(claim, s)
          OBVIOUS
        <4>3. PICK h : h = MountedOf(claim, r)
          OBVIOUS
        <4>4. r \in SUBSET (s \cap r)
          BY <3>1, <4>1
        <4>5. Mounted(f, claim, s) /\ Mounted(h, claim, r)
          BY <2>1, <3>2, <4>1, <4>2, <4>3
        <4>6. \A t \in SUBSET (s \cap r) : f[t] = h[t]
          BY <2>1, <4>5, MountsAgree
        <4>7. f[r] = h[r]
          BY <4>4, <4>6
        <4> HIDE DEF rest
        <4> QED
          BY <4>1, <4>2, <4>3, <4>7 DEF Volumes
      <3>4. Volumes(claim, s) = AddVolume(MountedOf(claim, s)[rest(s)], claim[Max(s)])
        BY <2>1, <2>3 DEF Mounted, Volumes
      <3> QED
        BY <3>3, <3>4, <2>3
    <2> QED
      BY <2>2, <2>3
  <1>5. ASSUME NEW s \in SUBSET m, s # {} PROVE g[s] = AddVolume(g[rest(s)], claim[Max(s)])
    <2>1. rest(s) \in SUBSET m /\ rest(s) # m
      BY <1>5, <1>r
    <2>2. Volumes(claim, rest(s)) = g[rest(s)]
      <3> HIDE DEF rest, g
      <3> QED
        BY <2>1, <1>4
    <2>3. g[s] = AddVolume(Volumes(claim, rest(s)), claim[Max(s)])
      BY <1>5
    <2> QED
      BY <2>2, <2>3
  <1>6. Mounted(g, claim, m)
    <2>1. g[{}] = <<"cache">>
      OBVIOUS
    <2>2. g = [s \in SUBSET m |-> g[s]]
      OBVIOUS
    <2>3. ASSUME NEW s \in SUBSET m
          PROVE  g[s] = (IF s = {} THEN <<"cache">> ELSE AddVolume(g[s \ {Max(s)}], claim[Max(s)]))
      BY <1>5, <2>1
    <2> HIDE DEF g
    <2> QED
      BY <2>2, <2>3 DEF Mounted
  <1> QED
    BY <1>2, <1>6

\* The sequences of volumes whose names differ, and the names they have.
Distinct(vs, N) == vs \in Seq(N) /\ IsInjective(vs) /\ ToSet(vs) = N

\* One more name, unless it is there.
LEMMA AddedOnce ==
    ASSUME NEW N, NEW vs, Distinct(vs, N), NEW name
    PROVE  Distinct(AddVolume(vs, name), N \cup {name})
  <1>1. vs \in Seq(N \cup {name}) /\ Len(vs) \in Nat /\ DOMAIN vs = 1..Len(vs)
    BY DEF Distinct
  <1>2. CASE Contains(vs, name)
    <2>1. name \in N
      BY <1>2 DEF Contains, Distinct
    <2> QED
      BY <1>2, <2>1 DEF AddVolume, Distinct
  <1>3. CASE ~Contains(vs, name)
    <2>1. \A i \in 1..Len(vs) : vs[i] # name
      BY <1>3 DEF Contains
    <2>2. PICK new : new = Append(vs, name)
      OBVIOUS
    <2>3. /\ new \in Seq(N \cup {name}) /\ DOMAIN new = 1..(Len(vs) + 1)
          /\ \A i \in 1..Len(vs) : new[i] = vs[i]
          /\ new[Len(vs) + 1] = name
      BY <1>1, <2>2
    <2>4. \A i \in DOMAIN new : i \in 1..Len(vs) \/ i = Len(vs) + 1
      BY <1>1, <2>3
    <2>5. IsInjective(new)
      BY <1>1, <2>1, <2>3, <2>4 DEF IsInjective, Distinct
    <2>6. ToSet(new) = N \cup {name}
      <3>1. \A x \in N : \E i \in 1..Len(vs) : vs[i] = x
        BY <1>1 DEF Distinct, ToSet
      <3>2. \A i \in 1..Len(vs) : vs[i] \in N /\ i \in DOMAIN new
        <4>1. \A i \in 1..Len(vs) : vs[i] \in N
          BY <1>1 DEF Distinct
        <4>2. \A i \in 1..Len(vs) : i \in 1..(Len(vs) + 1)
          BY <1>1
        <4> QED
          BY <2>3, <4>1, <4>2
      <3>3. Len(vs) + 1 \in DOMAIN new
        BY <1>1, <2>3
      <3>4. \A x \in N : \E i \in DOMAIN new : new[i] = x
        BY <2>3, <3>1, <3>2
      <3>5. \A i \in DOMAIN new : new[i] \in N \cup {name}
        BY <2>3, <2>4, <3>2
      <3> QED
        BY <2>3, <3>3, <3>4, <3>5 DEF ToSet
    <2> QED
      BY <1>3, <2>2, <2>3, <2>5, <2>6 DEF AddVolume, Distinct
  <1> QED
    BY <1>2, <1>3

\* The cache and the claims.
NamesOf(claim, S) == {"cache"} \cup {claim[i] : i \in S}

\* Each claim becomes a volume once.
LEMMA ClaimsOnce ==
    ASSUME NEW S, Indices(S), NEW claim, NEW f, Mounted(f, claim, S)
    PROVE  Distinct(f[S], NamesOf(claim, S))
  <1> DEFINE B == {s \in SUBSET S : ~Distinct(f[s], NamesOf(claim, s))}
  <1> SUFFICES ASSUME B # {} PROVE FALSE
    OBVIOUS
  <1>1. PICK m \in B : \A s \in SUBSET m : s # m => s \notin B
    <2>1. B \subseteq SUBSET S /\ IsFiniteSet(S)
      BY DEF Indices
    <2> HIDE DEF B
    <2> QED
      BY <2>1, SmallestSubset
  <1>2. m \in SUBSET S
    OBVIOUS
  <1>3. CASE m = {}
    <2>1. f[m] = <<"cache">>
      BY <1>2, <1>3 DEF Mounted
    <2>2. NamesOf(claim, m) = {"cache"}
      BY <1>3 DEF NamesOf
    <2>3. Distinct(<<"cache">>, {"cache"})
      BY DEF Distinct, IsInjective, ToSet
    <2> QED
      BY <2>1, <2>2, <2>3
  <1>4. CASE m # {}
    <2>1. PICK top : top = Max(m)
      OBVIOUS
    <2>2. top \in m
      BY <1>2, <1>4, <2>1, LastIndex
    <2>3. PICK r : r = m \ {top}
      OBVIOUS
    <2>4. r \in SUBSET m /\ r # m /\ m = r \cup {top}
      BY <2>2, <2>3
    <2>5. Distinct(f[r], NamesOf(claim, r))
      BY <1>1, <1>2, <2>4
    <2>6. f[m] = AddVolume(f[r], claim[top])
      BY <1>2, <1>4, <2>1, <2>3 DEF Mounted
    <2>7. NamesOf(claim, m) = NamesOf(claim, r) \cup {claim[top]}
      BY <2>4 DEF NamesOf
    <2>8. PICK N : N = NamesOf(claim, r)
      OBVIOUS
    <2>9. Distinct(f[m], N \cup {claim[top]})
      BY <2>5, <2>6, <2>8, AddedOnce
    <2> QED
      BY <2>7, <2>8, <2>9
  <1> QED
    BY <1>3, <1>4

\* The volumes of the claims, as the code folds over the mounts.
ClaimVolumes(o) ==
    FoldLeft(LAMBDA vs, vm : AddVolume(vs, resolveVolumeMount(o, vm).name), <<"cache">>, o.mounts)

LEMMA ClaimsOf ==
    ASSUME NEW o, NEW claim, NEW k \in Nat, DOMAIN o.mounts = 1..k,
           \A i \in 1..k : claim[i] = resolveVolumeMount(o, o.mounts[i]).name
    PROVE  Distinct(ClaimVolumes(o), NamesOf(claim, 1..k))
  <1> DEFINE S == 1..k
             P(f) == f = [s \in SUBSET S |-> IF s = {} THEN <<"cache">>
                            ELSE AddVolume(f[s \ {Max(s)}], resolveVolumeMount(o, o.mounts[Max(s)]).name)]
  <1>0. Indices(S)
    <2>1. IsFiniteSet(1..k)
      BY FS_Interval
    <2> QED
      BY <2>1 DEF Indices
  <1>1. \A f : Mounted(f, claim, S) <=> P(f)
    <2>1. ASSUME NEW f, NEW s \in SUBSET S, s # {}
          PROVE  AddVolume(f[s \ {Max(s)}], claim[Max(s)])
                 = AddVolume(f[s \ {Max(s)}], resolveVolumeMount(o, o.mounts[Max(s)]).name)
      <3>1. Max(s) \in S
        BY <1>0, <2>1, LastIndex
      <3>2. claim[Max(s)] = resolveVolumeMount(o, o.mounts[Max(s)]).name
        BY <3>1
      <3> QED
        BY <3>2
    <2>2. ASSUME NEW f
          PROVE  [s \in SUBSET S |-> IF s = {} THEN <<"cache">> ELSE AddVolume(f[s \ {Max(s)}], claim[Max(s)])]
                 = [s \in SUBSET S |-> IF s = {} THEN <<"cache">>
                      ELSE AddVolume(f[s \ {Max(s)}], resolveVolumeMount(o, o.mounts[Max(s)]).name)]
      <3> HIDE DEF S
      <3> QED
        BY <2>1, Zenon
    <2> HIDE DEF S
    <2> QED
      BY <2>2 DEF Mounted
  <1>2. \E f : P(f)
    <2>1. Mounted(MountedOf(claim, S), claim, S)
      <3> HIDE DEF S
      <3> QED
        BY <1>0, MountsExist
    <2> HIDE DEF P, S
    <2> QED
      BY <1>1, <2>1
  <1>3. P(CHOOSE f : P(f))
    <2> HIDE DEF P
    <2> QED
      BY <1>2
  <1>4. PICK f : f = CHOOSE g : P(g)
    OBVIOUS
  <1>5. Mounted(f, claim, S)
    <2> HIDE DEF P, S
    <2> QED
      BY <1>1, <1>3, <1>4
  <1>6. Distinct(f[S], NamesOf(claim, S))
    <2> HIDE DEF S
    <2> QED
      BY <1>0, <1>5, ClaimsOnce
  <1>7. ClaimVolumes(o) = f[S]
    BY <1>4 DEF ClaimVolumes, FoldLeft, MapThenFoldSet
  <1> QED
    BY <1>6, <1>7

\* Sequences of different names whose sets of names have none in common.
LEMMA JoinedOnce ==
    ASSUME NEW N, NEW M, N \cap M = {}, NEW a, Distinct(a, N), NEW b, Distinct(b, M)
    PROVE  Distinct(a \o b, N \cup M)
  <1>1. /\ a \in Seq(N \cup M) /\ b \in Seq(N \cup M)
        /\ Len(a) \in Nat /\ Len(b) \in Nat /\ DOMAIN a = 1..Len(a) /\ DOMAIN b = 1..Len(b)
        /\ \A i \in 1..Len(a) : a[i] \in N
        /\ \A i \in 1..Len(b) : b[i] \in M
    BY DEF Distinct
  <1>2. PICK c : c = a \o b
    OBVIOUS
  <1>3. /\ c \in Seq(N \cup M) /\ DOMAIN c = 1..(Len(a) + Len(b))
        /\ \A i \in 1..Len(a) : c[i] = a[i] /\ i \in DOMAIN c
        /\ \A i \in 1..Len(b) : c[Len(a) + i] = b[i] /\ Len(a) + i \in DOMAIN c
    BY <1>1, <1>2
  <1>4. \A i \in DOMAIN c : i \in 1..Len(a) \/ \E j \in 1..Len(b) : i = Len(a) + j
    <2>1. ASSUME NEW i \in DOMAIN c, i \notin 1..Len(a) PROVE i - Len(a) \in 1..Len(b) /\ i = Len(a) + (i - Len(a))
      BY <1>1, <1>3, <2>1
    <2> QED
      BY <2>1
  <1>5. \A x, y \in DOMAIN c : c[x] = c[y] => x = y
    <2> SUFFICES ASSUME NEW x \in DOMAIN c, NEW y \in DOMAIN c, c[x] = c[y] PROVE x = y
      OBVIOUS
    <2>1. CASE x \in 1..Len(a) /\ y \in 1..Len(a)
      BY <1>1, <1>3, <2>1 DEF Distinct, IsInjective
    <2>2. CASE x \in 1..Len(a) /\ y \notin 1..Len(a)
      <3>1. PICK j \in 1..Len(b) : y = Len(a) + j
        BY <1>4, <2>2
      <3>2. c[x] \in N /\ c[y] \in M
        BY <1>1, <1>3, <2>2, <3>1
      <3> QED
        BY <3>2
    <2>3. CASE x \notin 1..Len(a) /\ y \in 1..Len(a)
      <3>1. PICK j \in 1..Len(b) : x = Len(a) + j
        BY <1>4, <2>3
      <3>2. c[y] \in N /\ c[x] \in M
        BY <1>1, <1>3, <2>3, <3>1
      <3> QED
        BY <3>2
    <2>4. CASE x \notin 1..Len(a) /\ y \notin 1..Len(a)
      <3>1. PICK i \in 1..Len(b) : x = Len(a) + i
        BY <1>4, <2>4
      <3>2. PICK j \in 1..Len(b) : y = Len(a) + j
        BY <1>4, <2>4
      <3>3. b[i] = b[j]
        BY <1>3, <3>1, <3>2
      <3>4. i = j
        BY <1>1, <3>3 DEF Distinct, IsInjective
      <3> QED
        BY <3>1, <3>2, <3>4
    <2> QED
      BY <2>1, <2>2, <2>3, <2>4
  <1>6. ToSet(c) = N \cup M
    <2>1. \A x \in N : \E i \in 1..Len(a) : a[i] = x
      BY <1>1 DEF Distinct, ToSet
    <2>2. \A x \in M : \E i \in 1..Len(b) : b[i] = x
      BY <1>1 DEF Distinct, ToSet
    <2>3. \A x \in N \cup M : \E i \in DOMAIN c : c[i] = x
      BY <1>3, <2>1, <2>2
    <2>4. \A i \in DOMAIN c : c[i] \in N \cup M
      BY <1>1, <1>3, <1>4
    <2> QED
      BY <2>3, <2>4 DEF ToSet
  <1> QED
    BY <1>2, <1>3, <1>5, <1>6 DEF Distinct, IsInjective

\* The names in two sequences one after the other.
LEMMA JoinedNames ==
    ASSUME NEW V, NEW a \in Seq(V), NEW b \in Seq(V)
    PROVE  ToSet(a \o b) = ToSet(a) \cup ToSet(b)
  <1>1. Len(a) \in Nat /\ Len(b) \in Nat /\ DOMAIN a = 1..Len(a) /\ DOMAIN b = 1..Len(b)
    OBVIOUS
  <1>2. PICK c : c = a \o b
    OBVIOUS
  <1>3. /\ DOMAIN c = 1..(Len(a) + Len(b))
        /\ \A i \in 1..Len(a) : c[i] = a[i] /\ i \in DOMAIN c
        /\ \A i \in 1..Len(b) : c[Len(a) + i] = b[i] /\ Len(a) + i \in DOMAIN c
    BY <1>1, <1>2
  <1>4. \A i \in DOMAIN c : i \in 1..Len(a) \/ \E j \in 1..Len(b) : i = Len(a) + j
    <2>1. ASSUME NEW i \in DOMAIN c, i \notin 1..Len(a) PROVE i - Len(a) \in 1..Len(b) /\ i = Len(a) + (i - Len(a))
      BY <1>1, <1>3, <2>1
    <2> QED
      BY <2>1
  <1>5. \A i \in DOMAIN c : c[i] \in ToSet(a) \cup ToSet(b)
    BY <1>1, <1>3, <1>4 DEF ToSet
  <1>6. \A x \in ToSet(a) \cup ToSet(b) : \E i \in DOMAIN c : c[i] = x
    BY <1>1, <1>3 DEF ToSet
  <1>7. ToSet(c) = ToSet(a) \cup ToSet(b)
    BY <1>5, <1>6 DEF ToSet
  <1> QED
    BY <1>2, <1>7

\* The volumes have names of their own, and are those that are mounted.
LEMMA VolumesAreMounted ==
    ASSUME NEW o \in Orders
    PROVE  /\ GenerateVolumes(o) \in Seq(VolumeNames) /\ GenerateVolumeMounts(o) \in Seq(VolumeNames)
           /\ IsInjective(GenerateVolumes(o))
           /\ ToSet(GenerateVolumeMounts(o)) = ToSet(GenerateVolumes(o))
  <1>1. PICK k \in Nat : o.mounts \in [1..k -> Mounts]
    BY PodSpecsAssumption DEF Orders, SeqOf
  <1>2. PICK claim : claim = [i \in 1..k |-> resolveVolumeMount(o, o.mounts[i]).name]
    OBVIOUS
  <1>3. \A i \in 1..k : claim[i] = resolveVolumeMount(o, o.mounts[i]).name
                        /\ claim[i] \in {ReadOnlyClaim, SharedClaim}
    BY <1>2 DEF resolveVolumeMount
  <1>4. PICK N : N = NamesOf(claim, 1..k)
    OBVIOUS
  <1>5. PICK vs : vs = ClaimVolumes(o)
    OBVIOUS
  <1>6. Distinct(vs, N)
    <2>1. DOMAIN o.mounts = 1..k
      BY <1>1
    <2> QED
      BY <1>3, <1>4, <1>5, <2>1, ClaimsOf
  <1>7. PICK end : end = IF o.kind = "ngc" THEN <<"bash">> ELSE <<>>
    OBVIOUS
  <1>8. PICK E : E = IF o.kind = "ngc" THEN {"bash"} ELSE {}
    OBVIOUS
  <1>9. Distinct(end, E)
    <2>1. Distinct(<<"bash">>, {"bash"})
      BY DEF Distinct, IsInjective, ToSet
    <2>2. Distinct(<<>>, {})
      BY DEF Distinct, IsInjective, ToSet
    <2> QED
      BY <1>7, <1>8, <2>1, <2>2
  <1>10. Distinct(<<"start">>, {"start"})
    BY DEF Distinct, IsInjective, ToSet
  <1>11. N \cap {"start"} = {} /\ (N \cup {"start"}) \cap E = {}
    BY <1>3, <1>4, <1>8, PodSpecsAssumption DEF NamesOf
  <1>12. Distinct(vs \o <<"start">>, N \cup {"start"})
    BY <1>6, <1>10, <1>11, JoinedOnce
  <1>13. Distinct((vs \o <<"start">>) \o end, (N \cup {"start"}) \cup E)
    BY <1>9, <1>11, <1>12, JoinedOnce
  <1>14. GenerateVolumes(o) = (vs \o <<"start">>) \o end
    BY <1>5, <1>7 DEF GenerateVolumes, ClaimVolumes
  <1>15. DOMAIN o.mounts = 1..k
    BY <1>1
  <1>16. GenerateVolumeMounts(o) = ((<<"cache">> \o claim) \o <<"start">>) \o end
    BY <1>2, <1>7, <1>15 DEF GenerateVolumeMounts
  <1> DEFINE V == N \cup {"start", "bash"}
  <1>17. <<"cache">> \in Seq(V) /\ claim \in Seq(V) /\ <<"start">> \in Seq(V) /\ end \in Seq(V)
    <2>1. claim \in [1..k -> V]
      BY <1>2, <1>4 DEF NamesOf
    <2>2. claim \in Seq(V)
      BY <2>1
    <2>3. <<"cache">> \in Seq(V) /\ <<"start">> \in Seq(V) /\ <<"bash">> \in Seq(V) /\ <<>> \in Seq(V)
      BY <1>4 DEF NamesOf
    <2> QED
      BY <1>7, <2>2, <2>3
  <1>18. /\ ToSet(<<"cache">>) = {"cache"} /\ ToSet(<<"start">>) = {"start"}
         /\ {"cache"} \cup ToSet(claim) = N /\ ToSet(end) = E
    <2>1. ToSet(<<"cache">>) = {"cache"} /\ ToSet(<<"start">>) = {"start"}
      BY DEF ToSet
    <2>2. {"cache"} \cup ToSet(claim) = N
      BY <1>2, <1>4 DEF ToSet, NamesOf
    <2> QED
      BY <1>9, <2>1, <2>2 DEF Distinct
  <1>19. ToSet(GenerateVolumeMounts(o)) = (N \cup {"start"}) \cup E
    <2> HIDE DEF V
    <2>1. PICK x : x = <<"cache">> \o claim
      OBVIOUS
    <2>2. x \in Seq(V)
      BY <1>17, <2>1
    <2>3. ToSet(x) = N
      <3>1. ToSet(<<"cache">> \o claim) = ToSet(<<"cache">>) \cup ToSet(claim)
        BY <1>17, JoinedNames
      <3> QED
        BY <1>18, <2>1, <3>1
    <2>4. PICK y : y = x \o <<"start">>
      OBVIOUS
    <2>5. y \in Seq(V)
      BY <1>17, <2>2, <2>4
    <2>6. ToSet(y) = N \cup {"start"}
      <3>1. ToSet(x \o <<"start">>) = ToSet(x) \cup ToSet(<<"start">>)
        BY <1>17, <2>2, JoinedNames
      <3> QED
        BY <1>18, <2>3, <2>4, <3>1
    <2>7. ToSet(y \o end) = (N \cup {"start"}) \cup E
      <3>1. ToSet(y \o end) = ToSet(y) \cup ToSet(end)
        BY <1>17, <2>5, JoinedNames
      <3> QED
        BY <1>18, <2>6, <3>1
    <2> QED
      BY <1>16, <2>1, <2>4, <2>7
  <1>20. V \subseteq VolumeNames
    BY <1>3, <1>4 DEF NamesOf, VolumeNames
  <1>21. GenerateVolumes(o) \in Seq(V) /\ GenerateVolumeMounts(o) \in Seq(V)
    <2>1. (N \cup {"start"}) \cup E \subseteq V
      BY <1>8
    <2>2. GenerateVolumes(o) \in Seq((N \cup {"start"}) \cup E)
      BY <1>13, <1>14 DEF Distinct
    <2> HIDE DEF V
    <2> QED
      BY <1>16, <1>17, <2>1, <2>2
  <1> HIDE DEF V
  <1> QED
    BY <1>13, <1>14, <1>19, <1>20, <1>21 DEF Distinct

\* The base affinity, and what the image of a task adds to it.
LEMMA BaseAffinity ==
    ASSUME NEW o \in Orders
    PROVE  /\ GenerateNodeAffinity(o) \in Affinities
           /\ GenerateNodeAffinity(o).required = IF o.selector = {} THEN {} ELSE {o.selector}
  <1>1. o.selector \subseteq SelectorKeys /\ o.gpus \in {0, 1, 2}
    BY DEF Orders, GPUCounts
  <1>2. CASE o.selector # {}
    BY <1>1, <1>2 DEF GenerateNodeAffinity, Affinities
  <1>3. CASE o.selector = {} /\ o.gpus = 0
    BY <1>3 DEF GenerateNodeAffinity, Affinities
  <1>4. CASE o.selector = {} /\ o.gpus = 1
    BY <1>4 DEF GenerateNodeAffinity, Affinities
  <1>5. CASE o.selector = {} /\ o.gpus = 2
    BY <1>5 DEF GenerateNodeAffinity, Affinities, NoAffinity
  <1> QED
    BY <1>1, <1>2, <1>3, <1>4, <1>5

LEMMA WithArchitecture ==
    ASSUME NEW archs \in SUBSET Machine, NEW base \in Affinities
    PROVE  LET arch == DetermineArchitectureType(archs)
               made == GenerateArchitectureNodeAffinity(archs, base)
           IN  /\ arch \subseteq Machine
               /\ made \in Affinities
               /\ arch = {} => made.required = base.required
               /\ arch # {} /\ base.required = {} => made.required = {arch}
               /\ arch # {} /\ base.required # {} => made.required = {t \cup arch : t \in base.required}
  <1> DEFINE arch == DetermineArchitectureType(archs)
  <1>1. arch \subseteq Machine
    BY DEF DetermineArchitectureType, Machine
  <1> HIDE DEF arch
  <1>2. CASE arch = {}
    BY <1>1, <1>2 DEF GenerateArchitectureNodeAffinity, arch
  <1>3. CASE arch # {} /\ base.required = {}
    <2>1. GenerateArchitectureNodeAffinity(archs, base) = [base EXCEPT !.required = {arch}]
      BY <1>3 DEF GenerateArchitectureNodeAffinity, arch
    <2> QED
      BY <1>1, <1>3, <2>1 DEF Affinities, arch
  <1>4. CASE arch # {} /\ base.required # {}
    <2>1. GenerateArchitectureNodeAffinity(archs, base) = [base EXCEPT !.required = {t \cup arch : t \in @}]
      BY <1>4 DEF GenerateArchitectureNodeAffinity, arch
    <2>2. {t \cup arch : t \in base.required} \in SUBSET SUBSET (SelectorKeys \cup Machine)
      BY <1>1 DEF Affinities
    <2> QED
      BY <1>1, <1>4, <2>1, <2>2 DEF Affinities, arch
  <1> QED
    BY <1>2, <1>3, <1>4 DEF arch

\* A task runs where its image and the user's selector allow it.
LEMMA TaskRunsThere ==
    ASSUME NEW o \in Orders, NEW archs \in SUBSET Machine, NEW arch \in Machine, NEW labels \in SUBSET SelectorKeys
    PROVE  Admits(GenerateArchitectureNodeAffinity(archs, GenerateNodeAffinity(o)), labels \cup {arch})
           <=> (archs = Machine \/ archs = {arch} \/ (archs = {} /\ arch = "amd64")) /\ o.selector \subseteq labels
  <1>1. PICK base : base = GenerateNodeAffinity(o)
    OBVIOUS
  <1>2. base \in Affinities /\ base.required = IF o.selector = {} THEN {} ELSE {o.selector}
    BY <1>1, BaseAffinity
  <1>3. PICK need : need = DetermineArchitectureType(archs)
    OBVIOUS
  <1>4. PICK made : made = GenerateArchitectureNodeAffinity(archs, base)
    OBVIOUS
  <1>5. /\ need \subseteq Machine
        /\ need = {} => made.required = base.required
        /\ need # {} /\ base.required = {} => made.required = {need}
        /\ need # {} /\ base.required # {} => made.required = {t \cup need : t \in base.required}
    BY <1>2, <1>3, <1>4, WithArchitecture
  <1>6. need \subseteq {arch} <=> archs = Machine \/ archs = {arch} \/ (archs = {} /\ arch = "amd64")
    BY <1>3 DEF DetermineArchitectureType, Machine
  <1>7. o.selector \subseteq SelectorKeys /\ arch \notin SelectorKeys /\ need \cap SelectorKeys = {}
    BY <1>5, PodSpecsAssumption DEF Orders, Machine
  <1>8. o.selector \cup need \subseteq labels \cup {arch} <=> o.selector \subseteq labels /\ need \subseteq {arch}
    BY <1>7
  <1>9. (made.required = {} /\ o.selector = {} /\ need = {}) \/ made.required = {o.selector \cup need}
    <2>1. CASE need = {} /\ o.selector = {}
      BY <1>2, <1>5, <2>1
    <2>2. CASE need = {} /\ o.selector # {}
      <3>1. o.selector \cup need = o.selector
        BY <2>2
      <3> QED
        BY <1>2, <1>5, <2>2, <3>1
    <2>3. CASE need # {} /\ o.selector = {}
      <3>1. o.selector \cup need = need
        BY <2>3
      <3> QED
        BY <1>2, <1>5, <2>3, <3>1
    <2>4. CASE need # {} /\ o.selector # {}
      <3>1. made.required = {t \cup need : t \in {o.selector}}
        BY <1>2, <1>5, <2>4
      <3> QED
        BY <3>1
    <2> QED
      BY <2>1, <2>2, <2>3, <2>4
  <1>10. Admits(made, labels \cup {arch}) <=> o.selector \subseteq labels /\ need \subseteq {arch}
    <2>1. CASE made.required = {} /\ o.selector = {} /\ need = {}
      BY <2>1 DEF Admits
    <2>2. CASE made.required = {o.selector \cup need}
      <3>1. Admits(made, labels \cup {arch}) <=> o.selector \cup need \subseteq labels \cup {arch}
        BY <2>2 DEF Admits
      <3> QED
        BY <1>8, <3>1
    <2> QED
      BY <1>9, <2>1, <2>2
  <1> QED
    BY <1>1, <1>4, <1>6, <1>10

\* The request has an image for each task.
LEMMA ImagesOf ==
    ASSUME NEW o \in Orders
    PROVE  o.images \in Seq(SUBSET Machine)
  <1>1. o.images \in SeqOf(SUBSET Machine, MaxTasks)
    BY DEF Orders
  <1>2. PICK k \in Nat : o.images \in [1..k -> SUBSET Machine]
    BY <1>1, PodSpecsAssumption DEF SeqOf
  <1> QED
    BY <1>2

\* What is built at once, and what one task adds.
LEMMA CommonKeeps ==
    ASSUME PodSpecInv, BuildCommon
    PROVE  PodSpecInv'
  <1>1. order \in Orders /\ order' = order /\ Len(order.images) \in Nat
    BY ImagesOf DEF PodSpecInv, PodSpecTypeOK, BuildCommon
  <1>2. /\ GenerateVolumes(order) \in Seq(VolumeNames) /\ GenerateVolumeMounts(order) \in Seq(VolumeNames)
        /\ GenerateNodeAffinity(order) \in Affinities
        /\ Tolerations(order) \in SUBSET {"crater.raids.io/account"}
    BY <1>1, BaseAffinity, VolumesAreMounted DEF Tolerations
  <1>3. built' = [volumes |-> GenerateVolumes(order), mounts |-> GenerateVolumeMounts(order),
                  base |-> GenerateNodeAffinity(order), tolerations |-> Tolerations(order), tasks |-> <<>>]
    BY DEF BuildCommon
  <1>4. PodSpecTypeOK'
    BY <1>1, <1>2, <1>3 DEF PodSpecTypeOK, PodSpec
  <1>5. BuiltAsOrdered'
    BY <1>1, <1>3 DEF BuiltAsOrdered
  <1> QED
    BY <1>4, <1>5 DEF PodSpecInv

LEMMA TaskKeeps ==
    ASSUME PodSpecInv, BuildTask
    PROVE  PodSpecInv'
  <1>1. order \in Orders /\ order' = order /\ order.images \in Seq(SUBSET Machine)
    BY ImagesOf DEF PodSpecInv, PodSpecTypeOK, BuildTask
  <1>2. built.tasks \in Seq(Affinities) /\ Len(built.tasks) < Len(order.images) /\ built # NothingBuilt
    BY DEF PodSpecInv, PodSpecTypeOK, PodSpec, BuildTask, TasksLeft
  <1>3. PICK n \in Nat : n = Len(built.tasks)
    BY <1>2
  <1>4. n + 1 \in 1..Len(order.images) /\ order.images[n + 1] \in SUBSET Machine
    BY <1>1, <1>2, <1>3
  <1>5. PICK base : base = GenerateNodeAffinity(order)
    OBVIOUS
  <1>6. built.base = base /\ base \in Affinities
    BY <1>1, <1>2, <1>5, BaseAffinity DEF PodSpecInv, BuiltAsOrdered
  <1>7. PICK new : new = GenerateArchitectureNodeAffinity(order.images[n + 1], base)
    OBVIOUS
  <1>8. new \in Affinities
    BY <1>4, <1>6, <1>7, WithArchitecture
  <1>9. built' = [built EXCEPT !.tasks = Append(built.tasks, new)]
    BY <1>3, <1>6, <1>7 DEF BuildTask
  <1>10. PodSpecTypeOK'
    <2>1. Append(built.tasks, new) \in Seq(Affinities)
      BY <1>2, <1>8
    <2>2. built \in PodSpec
      BY DEF PodSpecInv, PodSpecTypeOK
    <2>3. [built EXCEPT !.tasks = Append(built.tasks, new)] \in PodSpec
      <3> HIDE DEF Affinities
      <3>1. PICK more \in Seq(Affinities) : more = Append(built.tasks, new)
        BY <2>1
      <3>2. [built EXCEPT !.tasks = more] \in PodSpec
        BY <2>2 DEF PodSpec
      <3> QED
        BY <3>1, <3>2
    <2> QED
      BY <1>1, <1>9, <2>3 DEF PodSpecTypeOK
  <1>11. /\ built'.volumes = built.volumes /\ built'.mounts = built.mounts /\ built'.base = built.base
         /\ built'.tasks = Append(built.tasks, new)
    BY <1>9 DEF PodSpecInv, PodSpecTypeOK, PodSpec
  <1>12. /\ Len(built'.tasks) = n + 1
         /\ \A i \in 1..(n + 1) : built'.tasks[i] = IF i = n + 1 THEN new ELSE built.tasks[i]
         /\ DOMAIN built'.tasks = 1..(n + 1) /\ DOMAIN built.tasks = 1..n
    BY <1>2, <1>3, <1>11
  <1>13. \A i \in 1..(n + 1) :
            built'.tasks[i] = GenerateArchitectureNodeAffinity(order.images[i], GenerateNodeAffinity(order))
    <2>1. ASSUME NEW i \in 1..(n + 1), i # n + 1
          PROVE  i \in DOMAIN built.tasks
      BY <1>12, <2>1
    <2> QED
      BY <1>5, <1>7, <1>12, <2>1 DEF PodSpecInv, BuiltAsOrdered
  <1>14. Len(built'.tasks) <= Len(order.images)
    BY <1>4, <1>12
  <1>15. BuiltAsOrdered'
    BY <1>1, <1>2, <1>11, <1>12, <1>13, <1>14 DEF PodSpecInv, BuiltAsOrdered
  <1> QED
    BY <1>10, <1>15 DEF PodSpecInv

\* The invariant of the pod specifications, for any mounts, selectors and images.
THEOREM PodSpecInvariance == PodSpecSpec => []PodSpecInv
  <1>1. PodSpecInit => PodSpecInv
    <2> SUFFICES ASSUME PodSpecInit PROVE PodSpecInv
      OBVIOUS
    <2>1. order.images \in Seq(SUBSET Machine)
      BY ImagesOf DEF PodSpecInit
    <2>2. PodSpecTypeOK
      <3>1. /\ <<>> \in Seq(VolumeNames) /\ <<>> \in Seq(Affinities)
            /\ NoAffinity \in Affinities /\ {} \in SUBSET {"crater.raids.io/account"}
        BY DEF NoAffinity, Affinities
      <3>2. NothingBuilt \in PodSpec
        BY <3>1 DEF NothingBuilt, PodSpec
      <3> QED
        BY <3>2 DEF PodSpecInit, PodSpecTypeOK
    <2>3. BuiltAsOrdered
      BY <2>1 DEF PodSpecInit, BuiltAsOrdered, NothingBuilt
    <2> QED
      BY <2>2, <2>3 DEF PodSpecInv
  <1>2. PodSpecInv /\ [PodSpecNext]_podSpecVars => PodSpecInv'
    <2> SUFFICES ASSUME PodSpecInv, [PodSpecNext]_podSpecVars PROVE PodSpecInv'
      OBVIOUS
    <2>1. CASE UNCHANGED podSpecVars
      BY <2>1 DEF podSpecVars, PodSpecInv, PodSpecTypeOK, BuiltAsOrdered
    <2> QED
      BY <2>1, CommonKeeps, TaskKeeps DEF PodSpecNext
  <1> QED
    BY <1>1, <1>2, PTL DEF PodSpecSpec

\* The pods of a job can run (internal/handler/vcjob): their volumes have names of
\* their own and are those that are mounted, and each task runs on the nodes that
\* the user selected and that its own image can run on.
THEOREM PodsAlwaysRun == PodSpecSpec => []PodsCanRun
  <1>1. PodSpecInv => PodsCanRun
    <2> SUFFICES ASSUME PodSpecInv PROVE PodsCanRun
      OBVIOUS
    <2>1. order \in Orders /\ order.images \in Seq(SUBSET Machine)
      BY ImagesOf DEF PodSpecInv, PodSpecTypeOK
    <2>2. built # NothingBuilt => IsInjective(built.volumes) /\ ToSet(built.mounts) = ToSet(built.volumes)
      BY <2>1, VolumesAreMounted DEF PodSpecInv, BuiltAsOrdered
    <2>3. ASSUME NEW i \in DOMAIN built.tasks, NEW arch \in Machine, NEW labels \in SUBSET SelectorKeys
          PROVE  Admits(built.tasks[i], labels \cup {arch})
                 <=> /\ \/ order.images[i] = Machine \/ order.images[i] = {arch}
                        \/ order.images[i] = {} /\ arch = "amd64"
                     /\ order.selector \subseteq labels
      <3>1. i \in 1..Len(order.images)
        BY <2>1 DEF PodSpecInv, PodSpecTypeOK, PodSpec, BuiltAsOrdered
      <3>2. order.images[i] \in SUBSET Machine
        BY <2>1, <3>1
      <3>3. built.tasks[i] = GenerateArchitectureNodeAffinity(order.images[i], GenerateNodeAffinity(order))
        BY DEF PodSpecInv, BuiltAsOrdered
      <3> QED
        BY <2>1, <3>2, <3>3, TaskRunsThere
    <2> QED
      BY <2>2, <2>3 DEF PodsCanRun
  <1> QED
    BY <1>1, PodSpecInvariance, PTL

=============================================================================
