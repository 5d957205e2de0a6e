------------------------------ MODULE Tenants ------------------------------
(***************************************************************************)
(* Users, accounts and memberships (internal/handler/account.go, user.go,  *)
(* auth.go, middleware/jwt.go); the contents of users' rows are UserRows.   *)
(*                                                                         *)
(* An account has a row, membership rows, and a Volcano queue in the       *)
(* cluster that holds a copy of its quota.  Handlers look rows up, decide  *)
(* and write, mostly without a transaction; what they have read may have   *)
(* changed by then.  gorm keeps deleted rows, with their unique names.     *)
(***************************************************************************)
EXTENDS Naturals, FiniteSets, FiniteSetsExt

CONSTANTS Users,       \* names of users
          Accounts,    \* accounts, by id
          Default,     \* the account every user gets (DefaultAccountID)
          Grants,      \* role and access mode of a membership
          Quotas,      \* quotas of an account
          Calls,       \* HTTP requests in progress at one time
          MaxMembers,  \* bound: membership rows ever inserted
          MaxMishaps   \* bound: calls to the database or the cluster that fail

ASSUME TenantAssumption ==
    /\ Default \in Accounts
    /\ MaxMembers \in Nat /\ MaxMishaps \in Nat
    /\ Users # {} /\ Grants # {} /\ Quotas # {}
    /\ "no queue" \notin Quotas

VARIABLES
    user,      \* the table users
    account,   \* the table accounts
    member,    \* the table user_accounts, by id
    queue,     \* Volcano queues in the cluster, by the account they are named after
    call,      \* requests in progress
    mishaps,   \* failures left
    raced,     \* history: accounts to which a user was added while they were deleted
    split      \* history: accounts whose queue was left behind by a failure or an overlap

tenantVars == <<user, account, member, queue, call, mishaps, raced, split>>

-----------------------------------------------------------------------------
MemberIds == 1..MaxMembers
NoQueue   == "no queue"

TheGrant == CHOOSE g \in Grants : TRUE
TheQuota == CHOOSE q \in Quotas : TRUE

NoCall == [pc |-> "idle", user |-> CHOOSE u \in Users : TRUE, account |-> Default,
           grant |-> TheGrant, quota |-> TheQuota, found |-> {}]

NoMember == [state |-> "none", user |-> NoCall.user, account |-> Default, grant |-> TheGrant]

\* Deleted rows are never read again: what they said is left out.
DeletedMember  == [NoMember EXCEPT !.state = "deleted"]
DeletedAccount == [state |-> "deleted", quota |-> TheQuota]

TenantInit ==
    /\ user = [u \in Users |-> "none"]
    /\ account = [a \in Accounts |->
                    [state |-> IF a = Default THEN "live" ELSE "none", quota |-> TheQuota]]
    /\ member = [i \in MemberIds |-> NoMember]
    /\ queue = [a \in Accounts |-> IF a = Default THEN TheQuota ELSE NoQueue]
    /\ call = [c \in Calls |-> NoCall]
    /\ mishaps = MaxMishaps
    /\ raced = {}
    /\ split = {}

LiveUser(u)    == user[u] = "live"
LiveAccount(a) == account[a].state = "live"
RowsOf(u, a) ==
    {i \in MemberIds : member[i].state = "live" /\ member[i].user = u /\ member[i].account = a}
Memberships(u) == UNION {RowsOf(u, a) : a \in Accounts}
MembersOf(a)   == UNION {RowsOf(u, a) : u \in Users}
FreeIds        == {i \in MemberIds : member[i].state = "none"}

\* FirstRow and LastRow order by the primary key.
FirstRow(rows) == Min(rows)
LastRow(rows)  == Max(rows)

Idle(c)      == call[c].pc = "idle"
Await(c, r)  == call' = [call EXCEPT ![c] = r]
Answer(c)    == call' = [call EXCEPT ![c] = NoCall]
Mishap       == mishaps > 0 /\ mishaps' = mishaps - 1
Waiting(pc, a) == {c \in Calls : call[c].pc = pc /\ call[c].account = a}

NewMember(u, a, g) == [state |-> "live", user |-> u, account |-> a, grant |-> g]
InsertMember(u, a, g) ==
    /\ FreeIds # {}
    /\ member' = [member EXCEPT ![Min(FreeIds)] = NewMember(u, a, g)]

-----------------------------------------------------------------------------
(***************************************************************************)
(* Accounts                                                                *)
(***************************************************************************)
\* One transaction: the row, its administrators and the queue.  Nobody checks
\* that an administrator's row is not deleted.
CreateAccount(a, u, q, withoutVolcano) ==
    /\ account[a].state = "none"
    /\ user[u] # "none"
    /\ InsertMember(u, a, TheGrant)
    /\ account' = [account EXCEPT ![a] = [state |-> "live", quota |-> q]]
    /\ queue' = [queue EXCEPT ![a] = IF withoutVolcano THEN NoQueue ELSE q]
    /\ split' = IF withoutVolcano THEN split \cup {a} ELSE split
    /\ UNCHANGED <<user, call, mishaps, raced>>

\* The commit fails after CreateVolcanoQueue: the id is used up, the queue stays.
CreateUncommitted(a, q) ==
    /\ account[a].state = "none"
    /\ Mishap
    /\ account' = [account EXCEPT ![a].state = "lost"]
    /\ queue' = [queue EXCEPT ![a] = q]
    /\ split' = split \cup {a}
    /\ UNCHANGED <<user, member, call, raced>>

\* UpdateAccount writes the row; updateVolcanoQueue follows unless the request
\* says withoutVolcano.
UpdateRow(c, a, q, withoutVolcano) ==
    /\ Idle(c)
    /\ LiveAccount(a)
    /\ account' = [account EXCEPT ![a].quota = q]
    /\ IF withoutVolcano THEN UNCHANGED call
       ELSE Await(c, [NoCall EXCEPT !.pc = "queue", !.account = a, !.quota = q])
    /\ split' = IF withoutVolcano \/ Waiting("queue", a) # {} THEN split \cup {a} ELSE split
    /\ UNCHANGED <<user, member, queue, mishaps, raced>>

\* Mutant: the queue gets no new quota.
updateVolcanoQueue_Kept(c) ==
    /\ call[c].pc = "queue"
    /\ Answer(c)
    /\ UNCHANGED <<user, account, member, queue, mishaps, raced, split>>

\* Get fails when there is no queue; Update may fail as well.
updateVolcanoQueue(c) ==
    /\ call[c].pc = "queue"
    /\ LET a == call[c].account
       IN  \/ /\ queue[a] # NoQueue
              /\ queue' = [queue EXCEPT ![a] = call[c].quota]
              /\ UNCHANGED <<mishaps, split>>
           \/ /\ queue[a] = NoQueue
              /\ UNCHANGED <<queue, mishaps, split>>
           \/ /\ Mishap
              /\ split' = split \cup {a}
              /\ UNCHANGED queue
    /\ Answer(c)
    /\ UNCHANGED <<user, account, member, raced>>

\* DeleteAccount: an account with members is refused, before the transaction.
CheckMembers(c, a) ==
    /\ Idle(c)
    /\ account[a].state \in {"live", "deleted"}
    /\ MembersOf(a) = {}
    /\ Await(c, [NoCall EXCEPT !.pc = "delete", !.account = a])
    /\ UNCHANGED <<user, account, member, queue, mishaps, raced, split>>

\* The transaction begins: the row, and the members that came since.
FindMembers(c) ==
    /\ call[c].pc = "delete"
    /\ LET a == call[c].account
       IN  IF LiveAccount(a)
           THEN Await(c, [call[c] EXCEPT !.pc = "drop", !.found = MembersOf(a)])
           ELSE Answer(c)
    /\ UNCHANGED <<user, account, member, queue, mishaps, raced, split>>

\* A user who is being added, or was since the members were found, is not deleted.
Missed(c, a) == Waiting("add", a) # {} \/ ~(MembersOf(a) \subseteq call[c].found)

\* Mutant: the members that came after the check stay.
DeleteAccount_MembersStay(c) ==
    /\ call[c].pc = "drop"
    /\ LET a == call[c].account
       IN  /\ LiveAccount(a) /\ queue[a] # NoQueue
           /\ account' = [account EXCEPT ![a] = DeletedAccount]
           /\ queue' = [queue EXCEPT ![a] = NoQueue]
           /\ raced' = IF Missed(c, a) THEN raced \cup {a} ELSE raced
    /\ Answer(c)
    /\ UNCHANGED <<user, member, mishaps, split>>

\* The found members, the row and the queue are deleted.  All is rolled back when a
\* call fails and when DeleteQueue finds no queue or one with running pods.
DeleteAccount(c) ==
    /\ call[c].pc = "drop"
    /\ LET a == call[c].account
       IN  \/ /\ LiveAccount(a) /\ queue[a] # NoQueue
              /\ member' = [i \in MemberIds |-> IF i \in call[c].found
                                                THEN DeletedMember ELSE member[i]]
              /\ account' = [account EXCEPT ![a] = DeletedAccount]
              /\ queue' = [queue EXCEPT ![a] = NoQueue]
              /\ raced' = IF Missed(c, a) THEN raced \cup {a} ELSE raced
              /\ UNCHANGED <<mishaps, split>>
           \/ UNCHANGED <<account, member, queue, mishaps, raced, split>>
           \/ \* the queue is deleted, and the commit fails
              /\ queue[a] # NoQueue
              /\ Mishap
              /\ queue' = [queue EXCEPT ![a] = NoQueue]
              /\ split' = split \cup {a}
              /\ UNCHANGED <<account, member, raced>>
    /\ Answer(c)
    /\ UNCHANGED user

-----------------------------------------------------------------------------
(***************************************************************************)
(* Memberships                                                             *)
(***************************************************************************)
\* AddUserProject looks the account and the user up.  Its Find of the rows of
\* the pair does not fail when there are some.
AddUserProject(c, u, a, g) ==
    /\ Idle(c)
    /\ LiveAccount(a) /\ LiveUser(u)
    /\ Await(c, [NoCall EXCEPT !.pc = "add", !.user = u, !.account = a, !.grant = g])
    /\ UNCHANGED <<user, account, member, queue, mishaps, raced, split>>

AddInsert(c) ==
    /\ call[c].pc = "add"
    /\ InsertMember(call[c].user, call[c].account, call[c].grant)
    /\ Answer(c)
    /\ UNCHANGED <<user, account, queue, mishaps, raced, split>>

\* Updates(userQueue) has the primary key of the first row.
UpdateUserProject(u, a, g) ==
    /\ LiveAccount(a) /\ LiveUser(u)
    /\ RowsOf(u, a) # {}
    /\ member' = [member EXCEPT ![FirstRow(RowsOf(u, a))].grant = g]
    /\ UNCHANGED <<user, account, queue, call, mishaps, raced, split>>

\* Updates(map) has only the pair.
PutUserInProject(u, a, g) ==
    /\ RowsOf(u, a) # {}
    /\ member' = [i \in MemberIds |-> IF i \in RowsOf(u, a) THEN [member[i] EXCEPT !.grant = g]
                                      ELSE member[i]]
    /\ UNCHANGED <<user, account, queue, call, mishaps, raced, split>>

DeleteUserProject(u, a) ==
    /\ LiveAccount(a) /\ LiveUser(u)
    /\ RowsOf(u, a) # {}
    /\ member' = [member EXCEPT ![FirstRow(RowsOf(u, a))] = DeletedMember]
    /\ UNCHANGED <<user, account, queue, call, mishaps, raced, split>>

GetUserInProject(a)    == {u \in Users : LiveUser(u) /\ RowsOf(u, a) # {}}
GetUserOutOfProject(a) == {u \in Users : LiveUser(u) /\ RowsOf(u, a) = {}}

\* The join does not look whether the account is deleted.
ListForUser(u)  == {member[i].account : i \in Memberships(u)}
ListForAdmin    == {a \in Accounts : LiveAccount(a)}

-----------------------------------------------------------------------------
(***************************************************************************)
(* Users                                                                   *)
(***************************************************************************)
\* Signup, or the first login by an outside account: no row with this name is
\* found.  createUser inserts the user and then the default membership; the
\* name of a deleted user is still taken.
createUser(c, u) ==
    /\ Idle(c)
    /\ ~LiveUser(u)
    /\ IF user[u] = "none"
       THEN /\ user' = [user EXCEPT ![u] = "live"]
            /\ Await(c, [NoCall EXCEPT !.pc = "default", !.user = u])
       ELSE UNCHANGED <<user, call>>
    /\ UNCHANGED <<account, member, queue, mishaps, raced, split>>

AddDefault(c) ==
    /\ call[c].pc = "default"
    /\ \/ InsertMember(call[c].user, Default, TheGrant) /\ UNCHANGED mishaps
       \/ Mishap /\ UNCHANGED member
    /\ Answer(c)
    /\ UNCHANGED <<user, account, queue, raced, split>>

DeleteUser(u) ==
    /\ LiveUser(u)
    /\ user' = [user EXCEPT ![u] = "deleted"]
    /\ UNCHANGED <<account, member, queue, call, mishaps, raced, split>>

TenantNext ==
    \/ \E a \in Accounts, q \in Quotas :
          \/ \E u \in Users, w \in BOOLEAN : CreateAccount(a, u, q, w)
          \/ CreateUncommitted(a, q)
          \/ \E c \in Calls, w \in BOOLEAN : UpdateRow(c, a, q, w)
    \/ \E c \in Calls :
          \/ updateVolcanoQueue(c) \/ FindMembers(c) \/ DeleteAccount(c) \/ AddInsert(c)
          \/ AddDefault(c)
          \/ \E a \in Accounts : CheckMembers(c, a)
          \/ \E u \in Users : createUser(c, u)
    \/ \E u \in Users, a \in Accounts, g \in Grants :
          \/ UpdateUserProject(u, a, g) \/ PutUserInProject(u, a, g)
          \/ \E c \in Calls : AddUserProject(c, u, a, g)
    \/ \E u \in Users :
          \/ DeleteUser(u)
          \/ \E a \in Accounts : DeleteUserProject(u, a)

TenantSpec == TenantInit /\ [][TenantNext]_tenantVars

-----------------------------------------------------------------------------
(***************************************************************************)
(* Tokens.  A token carries what the tables said when it was issued, and   *)
(* RefreshToken issues it again without a look at them.                    *)
(***************************************************************************)
\* Login takes the user's last membership row.
CanLogin(u) ==
    /\ LiveUser(u)
    /\ Memberships(u) # {}
    /\ LiveAccount(member[LastRow(Memberships(u))].account)

\* Mutant: the account of the last row with the grant of the first.
Login_FirstGrant(u) ==
    [user |-> u, account |-> member[LastRow(Memberships(u))].account,
     grant |-> member[FirstRow(Memberships(u))].grant]

Login(u) ==
    LET row == member[LastRow(Memberships(u))]
    IN  [user |-> u, account |-> row.account, grant |-> row.grant]

\* AuthProtected, for every method but GET; it compares the platform role, which
\* is no part of this module, in the same way.
AuthProtected(t) ==
    /\ LiveUser(t.user)
    /\ RowsOf(t.user, t.account) # {}
    /\ member[FirstRow(RowsOf(t.user, t.account))].grant = t.grant

CanSwitch(t, a) == LiveAccount(a) /\ RowsOf(t.user, a) # {}

SwitchQueue(t, a) ==
    [t EXCEPT !.account = a, !.grant = member[FirstRow(RowsOf(t.user, a))].grant]

\* Check answers with the context of the tables, VerifyToken with the
\* permission in the account's space.
Check(t)       == LiveUser(t.user) /\ LiveAccount(t.account) /\ RowsOf(t.user, t.account) # {}
VerifyToken(t) == LiveAccount(t.account) /\ RowsOf(t.user, t.account) # {}

-----------------------------------------------------------------------------
\* The queue of an account has the quota of its row when no update is under
\* way, unless a failure or an overlap split them, or the request left Volcano
\* out; an account without a queue of its own has none (UpdateAccount,
\* DeleteAccount).
QueuesMatch ==
    \A a \in Accounts \ split :
        Waiting("queue", a) = {} => queue[a] = (IF LiveAccount(a) THEN account[a].quota ELSE NoQueue)

\* No member of a deleted account is left, unless the member was being added
\* while the account was deleted: then Login and ListForUser meet an account
\* that is not there (DeleteAccount, AddUserProject).  createUser does not ask
\* whether there is a default account.
NoMemberOfDeleted ==
    \A a \in Accounts \ {Default} : MembersOf(a) # {} => LiveAccount(a) \/ a \in raced

\* A token is good for what it was issued for as long as the tables do not
\* change: a user who logs in may change something, may switch to each account
\* he is a member of and go on there, and is shown the context by Check -
\* unless two rows for one account disagree, of which Login takes the last and
\* AuthProtected the first.
FreshTokenWorks ==
    \A u \in Users :
        LET t == Login(u)
        IN  /\ CanLogin(u)
            /\ Cardinality(RowsOf(u, t.account)) = 1
            => /\ AuthProtected(t)
               /\ Check(t) /\ VerifyToken(t)
               /\ \A a \in ListForUser(u) \ (raced \cup {Default}) :
                     /\ CanSwitch(t, a)
                     /\ AuthProtected(SwitchQueue(t, a))
                     /\ u \in GetUserInProject(a) \ GetUserOutOfProject(a)
                     /\ a \in ListForAdmin

-----------------------------------------------------------------------------
(* The inductive invariant *)

UserState    == {"none", "live", "deleted"}
AccountState == {"none", "lost", "live", "deleted"}
AccountRow   == [state : AccountState, quota : Quotas]
MemberRow    == [state : UserState, user : Users, account : Accounts, grant : Grants]
TenantCall   == [pc : {"idle", "queue", "delete", "drop", "add", "default"},
                 user : Users, account : Accounts, grant : Grants, quota : Quotas,
                 found : SUBSET MemberIds]

TenantTypeOK ==
    /\ user \in [Users -> UserState]
    /\ account \in [Accounts -> AccountRow]
    /\ member \in [MemberIds -> MemberRow]
    /\ queue \in [Accounts -> Quotas \cup {NoQueue}]
    /\ call \in [Calls -> TenantCall]
    /\ mishaps \in 0..MaxMishaps
    /\ raced \in SUBSET Accounts /\ split \in SUBSET Accounts

\* The queue of an account that is not split: an update that waits for it was
\* written into the row, and nothing else has been written into the row since.
Follows(a) ==
    a \notin split =>
        /\ LiveAccount(a) <=> queue[a] # NoQueue
        /\ \A c \in Waiting("queue", a) : LiveAccount(a) => call[c].quota = account[a].quota
        /\ \A c, d \in Waiting("queue", a) : c = d
        /\ Waiting("queue", a) = {} /\ LiveAccount(a) => queue[a] = account[a].quota
QueuesFollow ==
    /\ \A c \in Calls : call[c].pc = "queue" => account[call[c].account].state # "none"
    /\ \A a \in Accounts : Follows(a)

\* A user is being added to an account that is there, or that was deleted meanwhile.
AddedInTime ==
    \A c \in Calls : call[c].pc = "add" => LiveAccount(call[c].account) \/ call[c].account \in raced

\* And so is the account of each row.
RowsHaveAccounts ==
    \A i \in MemberIds : member[i].state = "live" /\ member[i].account # Default
        => LiveAccount(member[i].account) \/ member[i].account \in raced

TenantInv == TenantTypeOK /\ QueuesFollow /\ AddedInTime /\ RowsHaveAccounts
=============================================================================
