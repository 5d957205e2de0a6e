------------------------------ MODULE UserRows ------------------------------
(***************************************************************************)
(* The contents of a user's row: platform role, attributes, verification   *)
(* of the email (internal/handler/user.go, context.go, and the part of     *)
(* Login in auth.go that brings attributes up to date).                    *)
(*                                                                         *)
(* Three handlers read a row, change it in memory and write it back: two   *)
(* save the whole row, Login writes the attributes.  The codes that were   *)
(* mailed are kept in a map of the process.                                *)
(***************************************************************************)
EXTENDS Naturals

CONSTANTS Persons,     \* users
          PlatformRoles,
          Emails,
          NoEmail,
          Edits,       \* requests in progress at one time
          MaxCode      \* bound: codes ever mailed

ASSUME UserRowAssumption ==
    Persons # {} /\ PlatformRoles # {} /\ NoEmail \notin Emails /\ MaxCode \in Nat

VARIABLES
    urow,      \* the table users
    edit,      \* requests in progress
    code,      \* verifyCodeCache
    lastCode,  \* codes are numbered in the order in which they were drawn
    undone     \* history: users of whom a later change was overwritten

userRowVars == <<urow, edit, code, lastCode, undone>>

-----------------------------------------------------------------------------
Codes == 0..MaxCode   \* 0 is the empty string
FirstRole == CHOOSE r \in PlatformRoles : TRUE

\* Attributes: whether the id was filled in, the email, and who set UID and GID.
Attrs == [id : BOOLEAN, email : Emails \cup {NoEmail}, uid : {"server", "admin"}]
URow  == [state : {"none", "live", "deleted"}, role : PlatformRoles, attrs : Attrs,
          verified : BOOLEAN]

NewRow == [state |-> "live", role |-> FirstRole, verified |-> FALSE,
           attrs |-> [id |-> FALSE, email |-> NoEmail, uid |-> "server"]]
NoEdit == [pc |-> "idle", person |-> CHOOSE u \in Persons : TRUE, seen |-> NewRow, new |-> NewRow]

UserRowInit ==
    /\ urow = [u \in Persons |-> [NewRow EXCEPT !.state = "none"]]
    /\ edit = [e \in Edits |-> NoEdit]
    /\ code = [m \in Emails |-> 0]
    /\ lastCode = 0
    /\ undone = {}

Live(u) == urow[u].state = "live"

\* Signup and createUser (Tenants): a new name only.
NewUser(u) ==
    /\ urow[u].state = "none"
    /\ urow' = [urow EXCEPT ![u] = NewRow]
    /\ UNCHANGED <<edit, code, lastCode, undone>>

SetRole(u, r) ==
    /\ Live(u)
    /\ urow' = [urow EXCEPT ![u].role = r]
    /\ UNCHANGED <<edit, code, lastCode, undone>>

RemoveUser(u) ==
    /\ Live(u)
    /\ urow' = [urow EXCEPT ![u].state = "deleted"]
    /\ UNCHANGED <<edit, code, lastCode, undone>>

-----------------------------------------------------------------------------
BeginEdit(e, u, pc, new) ==
    /\ edit[e].pc = "idle"
    /\ Live(u)
    /\ edit' = [edit EXCEPT ![e] = [pc |-> pc, person |-> u, seen |-> urow[u], new |-> new]]
    /\ UNCHANGED <<urow, code, lastCode, undone>>

\* Mutant: the attributes are taken as they come.
UpdateUserAttributes_AsGiven(e, u, m) ==
    BeginEdit(e, u, "save",
              [urow[u] EXCEPT !.attrs = [id |-> FALSE, email |-> m, uid |-> "admin"]])

\* The user's own attributes; id, UID and GID are those of the row.
UpdateUserAttributes(e, u, m) ==
    BeginEdit(e, u, "save", [urow[u] EXCEPT !.attrs.email = m])

\* An administrator's are taken as they come.
UpdateUserAttributesByAdmin(e, u, a) ==
    BeginEdit(e, u, "adminsave", [urow[u] EXCEPT !.attrs = a])

\* updateUserIfNeeded: m is what the outside account says.  An email that is set
\* is kept, and a login that brings none changes nothing but a first login's id.
UpdateNeeded(cur, m) ==
    \/ ~cur.id
    \/ m # NoEmail /\ [cur EXCEPT !.email = m] # cur
LoginUpdate(e, u, m) ==
    LET cur == urow[u].attrs
    IN  /\ UpdateNeeded(cur, m)
        /\ BeginEdit(e, u, "update",
                     [urow[u] EXCEPT !.attrs = [id |-> TRUE, uid |-> cur.uid,
                                        email |-> IF cur.email = NoEmail THEN m ELSE cur.email]])

\* Save writes every column, and inserts a row that is not there: a deleted one
\* comes back.
SaveRow(e) ==
    /\ edit[e].pc \in {"save", "adminsave"}
    /\ LET u == edit[e].person
       IN  /\ urow' = [urow EXCEPT ![u] = edit[e].new]
           /\ undone' = IF urow[u] # edit[e].seen THEN undone \cup {u} ELSE undone
    /\ edit' = [edit EXCEPT ![e] = NoEdit]
    /\ UNCHANGED <<code, lastCode>>

\* Login's Updates names two columns, of a row that is not deleted.
WriteAttributes(e) ==
    /\ edit[e].pc = "update"
    /\ LET u == edit[e].person
       IN  /\ urow' = [urow EXCEPT ![u].attrs = IF Live(u) THEN edit[e].new.attrs ELSE @]
           /\ undone' = IF Live(u) /\ urow[u].attrs # edit[e].seen.attrs
                        THEN undone \cup {u} ELSE undone
    /\ edit' = [edit EXCEPT ![e] = NoEdit]
    /\ UNCHANGED <<code, lastCode>>

-----------------------------------------------------------------------------
\* Whether or not the mail goes out, the code is the one that counts.
SendUserVerificationCode(u, m) ==
    /\ Live(u)
    /\ lastCode < MaxCode
    /\ lastCode' = lastCode + 1
    /\ code' = [code EXCEPT ![m] = lastCode + 1]
    /\ UNCHANGED <<urow, edit, undone>>

\* A code stays good: it is neither used up nor forgotten before a restart.
UpdateUserEmail(u, m, k) ==
    /\ Live(u)
    /\ code[m] = k
    /\ urow' = [urow EXCEPT ![u].verified = TRUE]
    /\ UNCHANGED <<edit, code, lastCode, undone>>

RestartProcess ==
    /\ code' = [m \in Emails |-> 0]
    /\ edit' = [e \in Edits |-> NoEdit]
    /\ UNCHANGED <<urow, lastCode, undone>>

UserRowNext ==
    \/ \E u \in Persons :
          \/ NewUser(u) \/ RemoveUser(u)
          \/ \E r \in PlatformRoles : SetRole(u, r)
          \/ \E m \in Emails : SendUserVerificationCode(u, m)
          \/ \E m \in Emails, k \in Codes : UpdateUserEmail(u, m, k)
    \/ \E e \in Edits :
          \/ SaveRow(e) \/ WriteAttributes(e)
          \/ \E u \in Persons :
                \/ \E m \in Emails \cup {NoEmail} :
                      UpdateUserAttributes(e, u, m) \/ LoginUpdate(e, u, m)
                \/ \E a \in Attrs : a.uid = "admin" /\ UpdateUserAttributesByAdmin(e, u, a)
    \/ RestartProcess

UserRowSpec == UserRowInit /\ [][UserRowNext]_userRowVars

-----------------------------------------------------------------------------
\* A user's role changes only by UpdateRole, a deleted user stays deleted, the
\* verification of an email stays, and UID and GID, which own the user's files,
\* are those of the UID server until an administrator sets others ("UID and GID
\* are not allowed to be updated", context.go) - unless a request saves a row
\* that has changed since it was read.
UserRowsKept ==
    [][\A u \in Persons :
          LET old == urow[u]
              new == urow'[u]
          IN  \/ u \in undone'
              \/ old.state = "none"
              \/ /\ old.role # new.role => \E r \in PlatformRoles : SetRole(u, r)
                 /\ old.state = "deleted" => new.state = "deleted"
                 /\ old.verified => new.verified
                 /\ old.attrs.uid # new.attrs.uid =>
                       \E e \in Edits : edit[e].pc = "adminsave" /\ edit[e].person = u]_userRowVars

-----------------------------------------------------------------------------
(* The inductive invariant: what a request is about to write differs from   *)
(* the row that it read in the attributes alone.                            *)

Edit == [pc : {"idle", "save", "adminsave", "update"}, person : Persons, seen : URow, new : URow]

UserRowTypeOK ==
    /\ urow \in [Persons -> URow] /\ edit \in [Edits -> Edit]
    /\ code \in [Emails -> Codes] /\ lastCode \in Codes /\ undone \subseteq Persons

EditsAttributes == \A e \in Edits :
    LET r == edit[e] IN
    r.pc # "idle" =>
        /\ r.seen.state = "live" /\ r.new = [r.seen EXCEPT !.attrs = r.new.attrs]
        /\ r.pc # "adminsave" => r.new.attrs.uid = r.seen.attrs.uid

UserRowInv == UserRowTypeOK /\ EditsAttributes
=============================================================================
