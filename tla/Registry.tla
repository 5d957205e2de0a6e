-------------------------------- MODULE Registry --------------------------------
(***************************************************************************)
(* The project and the account of one user in the image registry           *)
(* (pkg/imageregistry, internal/handler/image/harbor.go).  A credential is *)
(* handed out by removing the user's registry account and making it anew;  *)
(* Harbor is asked call by call, and any call may fail.  Requests of the   *)
(* same user interleave.                                                   *)
(***************************************************************************)
EXTENDS Integers

CONSTANTS HarborCalls,       \* requests for a credential, by name
          MaxPassword,       \* bound: accounts made
          Sizes,             \* quotas a user may ask for
          DefaultQuotaSize,  \* what a new project gets
          MaxHarborFaults    \* bound: calls to Harbor or the database that fail

\* A project without a quota is no project.
ASSUME RegistryAssumption ==
    /\ Sizes \subseteq Nat \ {0} /\ DefaultQuotaSize \in Nat \ {0}
    /\ MaxPassword \in Nat /\ MaxHarborFaults \in Nat

VARIABLES
    project,      \* the quota of the project, 0 without one
    account,      \* the password of the registry account, 0 without one
    member,       \* the account is a member of the project
    imageQuota,   \* users.image_quota, -1 before a project is made
    ask,          \* the requests
    nextPassword,
    answered,     \* history: the credential answered by the last request of one, 0 if
                  \* it failed or another request of one ran beside it
    shown,        \* the quota page: quota and use
    harborFaults

registryVars == <<project, account, member, imageQuota, ask, nextPassword, answered, shown, harborFaults>>

NoAsk == [pc |-> "idle", then |-> "none", password |-> 0, alone |-> TRUE]

Credentials == {r \in HarborCalls : ask[r].then = "credential"}

RegistryInit ==
    /\ project = 0 /\ account = 0 /\ member = FALSE /\ imageQuota = -1
    /\ ask = [r \in HarborCalls |-> NoAsk]
    /\ nextPassword = 1 /\ answered = 0 /\ shown = 0
    /\ harborFaults = 0

CallFails == harborFaults < MaxHarborFaults /\ harborFaults' = harborFaults + 1
CallWorks == UNCHANGED harborFaults

At(r, pc) == ask[r].pc = pc
Go(r, pc) == ask' = [ask EXCEPT ![r].pc = pc]

\* The request is answered with an error.
Refuse(r) == ask' = [ask EXCEPT ![r] = NoAsk]
Refused(r) == Refuse(r) /\ answered' = IF ask[r].then = "credential" THEN 0 ELSE answered

\* The request is answered with the credential.
Answer(r) == Refuse(r) /\ answered' = IF ask[r].alone THEN ask[r].password ELSE 0

\* What is left alone by a step that only reads.
HarborUnchanged == UNCHANGED <<project, account, member, imageQuota, nextPassword>>

-----------------------------------------------------------------------------
(* CheckOrCreateProjectForUser, first in a build and in a credential.      *)

\* A request of a credential that starts while others run is beside them.
Begin(r, then, pc) ==
    LET beside == then = "credential" /\ Credentials # {}
    IN  ask' = [s \in HarborCalls |->
                   IF s = r THEN [pc |-> pc, then |-> then, password |-> 0, alone |-> ~beside]
                   ELSE IF beside THEN [ask[s] EXCEPT !.alone = FALSE] ELSE ask[s]]

\* An error of ProjectExists counts as no project.
CheckProject(r, then) ==
    /\ At(r, "idle")
    /\ \/ CallWorks /\ Begin(r, then, IF project # 0 THEN "ready" ELSE "quota")
       \/ CallFails /\ Begin(r, then, "quota")
    /\ HarborUnchanged /\ UNCHANGED <<answered, shown>>

RecordQuota(r) ==
    /\ At(r, "quota")
    /\ \/ CallWorks /\ imageQuota' = DefaultQuotaSize /\ Go(r, "project") /\ UNCHANGED answered
       \/ CallFails /\ UNCHANGED imageQuota /\ Refused(r)
    /\ UNCHANGED <<project, account, member, nextPassword, shown>>

\* Two projects of a name are refused.
NewProject(r) ==
    /\ At(r, "project")
    /\ \/ CallWorks /\ project = 0 /\ project' = DefaultQuotaSize /\ Go(r, "ready") /\ UNCHANGED answered
       \/ (IF project = 0 THEN CallFails ELSE CallWorks) /\ UNCHANGED project /\ Refused(r)
    /\ UNCHANGED <<account, member, imageQuota, nextPassword, shown>>

\* The build goes on elsewhere (Builds).
BuildGoesOn(r) ==
    /\ At(r, "ready") /\ ask[r].then = "build"
    /\ Refuse(r)
    /\ HarborUnchanged /\ UNCHANGED <<answered, shown, harborFaults>>

-----------------------------------------------------------------------------
(* UserGetProjectCredential.                                               *)

\* An error of UserExists counts as no user.
CheckUserExist(r) ==
    /\ At(r, "ready") /\ ask[r].then = "credential"
    /\ \/ CallWorks /\ Go(r, IF account # 0 THEN "delete" ELSE "create")
       \/ CallFails /\ Go(r, "create")
    /\ HarborUnchanged /\ UNCHANGED <<answered, shown>>

\* The account is looked up by name and deleted, and its membership with it.
HarborDeletesUser(r) ==
    /\ At(r, "delete")
    /\ \/ CallWorks /\ account # 0 /\ account' = 0 /\ member' = FALSE /\ Go(r, "create") /\ UNCHANGED answered
       \/ (IF account # 0 THEN CallFails ELSE CallWorks) /\ UNCHANGED <<account, member>> /\ Refused(r)
    /\ UNCHANGED <<project, imageQuota, nextPassword, shown>>

CreateUser(r) ==
    /\ At(r, "create") /\ nextPassword <= MaxPassword
    /\ nextPassword' = nextPassword + 1
    /\ \/ /\ CallWorks /\ account = 0 /\ account' = nextPassword
          /\ ask' = [ask EXCEPT ![r].pc = "member", ![r].password = nextPassword] /\ UNCHANGED answered
       \/ (IF account = 0 THEN CallFails ELSE CallWorks) /\ UNCHANGED account /\ Refused(r)
    /\ UNCHANGED <<project, member, imageQuota, shown>>

\* Mutant: the answer does not wait for the membership.
AddProjectMember_Later(r) ==
    /\ At(r, "member")
    /\ CallWorks \/ CallFails
    /\ UNCHANGED member /\ Answer(r)
    /\ UNCHANGED <<project, account, imageQuota, nextPassword, shown>>

\* Without an account of the name, or with a member of it, Harbor refuses.
AddProjectMember(r) ==
    /\ At(r, "member")
    /\ \/ /\ CallWorks /\ account # 0 /\ ~member /\ member' = TRUE
          /\ Answer(r)
       \/ (IF account # 0 /\ ~member THEN CallFails ELSE CallWorks) /\ UNCHANGED member /\ Refused(r)
    /\ UNCHANGED <<project, account, imageQuota, nextPassword, shown>>

-----------------------------------------------------------------------------
(* The quota of the project.                                               *)

\* Nothing compares the size with anything, and the row keeps its own.
UpdateQuotaForProject(size) ==
    /\ project # 0
    /\ project' = size
    /\ UNCHANGED <<account, member, imageQuota, ask, nextPassword, answered, shown, harborFaults>>

\* Without a project the page shows what a new one would get.
GetProjectDetail ==
    /\ shown' = IF project = 0 THEN DefaultQuotaSize ELSE project
    /\ HarborUnchanged /\ UNCHANGED <<ask, answered, harborFaults>>

RegistryNext ==
    \/ \E r \in HarborCalls :
          \/ \E then \in {"build", "credential"} : CheckProject(r, then)
          \/ RecordQuota(r) \/ NewProject(r) \/ BuildGoesOn(r)
          \/ CheckUserExist(r) \/ HarborDeletesUser(r) \/ CreateUser(r) \/ AddProjectMember(r)
    \/ \E size \in Sizes : UpdateQuotaForProject(size)
    \/ GetProjectDetail

RegistrySpec == RegistryInit /\ [][RegistryNext]_registryVars

-----------------------------------------------------------------------------
(* Properties.                                                             *)

\* A credential that was answered works until another is asked for, whatever failed
\* before and whatever builds do meanwhile: the account has that password and is a
\* member of a project.  (Of two requests beside each other nothing is sure: each
\* removes the account the other made.)
CredentialWorks ==
    Credentials = {} /\ answered # 0
    => account = answered /\ member /\ project # 0

-----------------------------------------------------------------------------
(* The inductive invariant: a request of a credential that is alone has    *)
(* made the account that is there, in a project that is there.             *)

Ask == [pc : {"idle", "quota", "project", "ready", "delete", "create", "member"},
        then : {"none", "build", "credential"}, password : Nat, alone : BOOLEAN]

RegistryTypeOK ==
    /\ project \in Nat /\ account \in Nat /\ member \in BOOLEAN
    /\ ask \in [HarborCalls -> Ask]
    /\ nextPassword \in Nat \ {0} /\ answered \in Nat

AskInOrder(r) ==
    /\ ask[r].pc = "idle" <=> ask[r].then = "none"
    /\ ask[r].pc \in {"delete", "create", "member"} => ask[r].then = "credential"
    /\ ask[r].pc \in {"ready", "delete", "create", "member"} => project # 0
    /\ ask[r].then = "credential" /\ ask[r].alone => Credentials = {r}
    /\ ask[r].pc = "member" /\ ask[r].alone => account = ask[r].password /\ account # 0

RegistryInv ==
    /\ RegistryTypeOK
    /\ \A r \in HarborCalls : AskInOrder(r)
    /\ CredentialWorks
=============================================================================
