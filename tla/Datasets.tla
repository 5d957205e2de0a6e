------------------------------ MODULE Datasets ------------------------------
(***************************************************************************)
(* Datasets and whom they are shared with (internal/handler/dataset.go).   *)
(*                                                                         *)
(* A share is a row of user_datasets or account_datasets; the two tables   *)
(* are handled alike, so one table with a sharee that is a user or an      *)
(* account stands for both.  Sharing looks for a row and then inserts one; *)
(* only the deletion of a dataset and its creation are transactions.       *)
(***************************************************************************)
EXTENDS Naturals, FiniteSets, FiniteSetsExt

CONSTANTS Owners,      \* users
          Groups,      \* accounts
          Public,      \* the default account, in which everybody is
          DataIds,     \* ids of datasets
          Areas,       \* where files are: "public", "account", "user"
          Prefix,      \* how the configured path of an area starts: "longer" (users),
                       \* "same" (public) or "other" than the word of the area
          Ops,         \* HTTP requests in progress at one time
          MaxShares,   \* bound: shares ever inserted
          MaxDepth,    \* bound: how often a location was redirected
          MaxErrors    \* bound: failing database calls

ASSUME DatasetAssumption ==
    /\ Public \in Groups
    /\ Owners \cap Groups = {} /\ Owners # {} /\ DataIds # {} /\ Areas # {}
    /\ MaxShares \in Nat /\ MaxErrors \in Nat /\ MaxDepth \in Nat \ {0}
    /\ Prefix \in [Areas -> {"longer", "same", "other"}]

VARIABLES
    dataset,   \* the table datasets
    share,     \* the tables user_datasets and account_datasets, by id
    gone,      \* sharees that were deleted (Tenants)
    op,        \* requests in progress
    errors,    \* failures left
    late,      \* history: datasets that were deleted while a share was under way
    twice      \* history: pairs that two requests shared at one time, or that were shared
               \* after a lookup that failed

datasetVars == <<dataset, share, gone, op, errors, late, twice>>

-----------------------------------------------------------------------------
Sharees == Owners \cup Groups
ShareIds == 1..MaxShares

\* A location is 0 steps deep as a user types it, with the word of an area in
\* front, and 1 as it is stored.
Locations == [area : Areas, depth : 0..MaxDepth]
SomeArea == CHOOSE a \in Areas : TRUE
SomeUser == CHOOSE u \in Owners : TRUE

NoData  == [state |-> "none", owner |-> SomeUser, url |-> [area |-> SomeArea, depth |-> 1]]
NoShare == [state |-> "none", who |-> Public, data |-> CHOOSE d \in DataIds : TRUE]
NoOp    == [pc |-> "idle", data |-> NoShare.data, who |-> Public, todo |-> {},
            url |-> NoData.url]

DatasetInit ==
    /\ dataset = [d \in DataIds |-> NoData]
    /\ share = [i \in ShareIds |-> NoShare]
    /\ gone = {}
    /\ op = [o \in Ops |-> NoOp]
    /\ errors = MaxErrors
    /\ late = {}
    /\ twice = {}

HasData(d)   == dataset[d].state = "live"
Shares(s, d) == {i \in ShareIds : share[i].state = "live" /\ share[i].who = s /\ share[i].data = d}
SharesOf(d)  == UNION {Shares(s, d) : s \in Sharees}
Unused       == {i \in ShareIds : share[i].state = "none"}

SetOp(o, new) == op' = [op EXCEPT ![o] = new]
DbError       == errors > 0 /\ errors' = errors - 1
Inserting(d)  == {o \in Ops : op[o].pc \in {"look", "insert"} /\ op[o].data = d}

\* A row for s and d; a request that has looked for one, found none and not yet
\* inserted it will make it a second one.
InsertShare(o, s, d) ==
    /\ Unused # {}
    /\ share' = [share EXCEPT ![Min(Unused)] = [state |-> "live", who |-> s, data |-> d]]
    /\ twice' = IF \E p \in Ops \ {o} : op[p].pc = "insert" /\ op[p].who = s /\ op[p].data = d
                THEN twice \cup {<<s, d>>} ELSE twice

-----------------------------------------------------------------------------
Recognised(url) == url.depth = 0 \/ Prefix[url.area] # "other"

\* The word in front is replaced by the configured path, and for a user or an
\* account by its space as well; only "public" by "public" changes nothing.
redirectDatasetURL(url) ==
    IF url.area = "public" /\ url.depth > 0 THEN url ELSE [url EXCEPT !.depth = @ + 1]

\* CreateDataset: the dataset and the share of its owner are one transaction.
CreateDataset(o, d, u, area, ispublic) ==
    /\ op[o].pc = "idle"
    /\ dataset[d].state = "none"
    /\ u \notin gone
    /\ dataset' = [dataset EXCEPT ![d] = [NoData EXCEPT !.state = "live", !.owner = u,
                      !.url = redirectDatasetURL([area |-> area, depth |-> 0])]]
    /\ InsertShare(o, u, d)
    /\ IF ispublic THEN SetOp(o, [NoOp EXCEPT !.pc = "insert", !.data = d, !.who = Public])
       ELSE UNCHANGED op
    /\ UNCHANGED <<gone, errors, late>>

\* A request shares with a list.
ShareWith(o, d, S) ==
    /\ op[o].pc = "idle"
    /\ HasData(d)
    /\ S # {}
    /\ SetOp(o, [NoOp EXCEPT !.pc = "look", !.data = d, !.todo = S])
    /\ UNCHANGED <<dataset, share, gone, errors, late, twice>>

\* The owner or an administrator shares with users, or with accounts.
ShareDatasetWithUser(o, d, S)  == S \subseteq Owners /\ ShareWith(o, d, S)
ShareDatasetWithQueue(o, d, S) == S \subseteq Groups /\ ShareWith(o, d, S)

\* Mutant: a share that is there already is not looked for.
LookForShare_Never(o, s) ==
    /\ op[o].pc = "look"
    /\ s \in op[o].todo
    /\ SetOp(o, IF s \in gone THEN NoOp
                ELSE [op[o] EXCEPT !.pc = "insert", !.who = s, !.todo = @ \ {s}])
    /\ UNCHANGED <<dataset, share, gone, errors, late, twice>>

\* The next of the list: one that does not exist, or has a share, ends it all,
\* and the shares made so far stay.  The error of the lookup of a share is ignored:
\* one that fails has found none.
LookForShare(o, s) ==
    /\ op[o].pc = "look"
    /\ s \in op[o].todo
    /\ LET d == op[o].data
           goOn == [op[o] EXCEPT !.pc = "insert", !.who = s, !.todo = @ \ {s}]
       IN  \/ /\ SetOp(o, IF s \in gone \/ Shares(s, d) # {} THEN NoOp ELSE goOn)
              /\ UNCHANGED <<errors, twice>>
           \/ \* the sharee cannot be looked up
              /\ DbError
              /\ SetOp(o, NoOp)
              /\ UNCHANGED twice
           \/ \* the share cannot
              /\ s \notin gone
              /\ DbError
              /\ SetOp(o, goOn)
              /\ twice' = twice \cup {<<s, d>>}
    /\ UNCHANGED <<dataset, share, gone, late>>

AddShare(o) ==
    /\ op[o].pc = "insert"
    /\ \/ /\ InsertShare(o, op[o].who, op[o].data)
          /\ SetOp(o, IF op[o].todo = {} THEN NoOp ELSE [op[o] EXCEPT !.pc = "look"])
          /\ UNCHANGED errors
       \/ /\ DbError
          /\ SetOp(o, NoOp)
          /\ UNCHANGED <<share, twice>>
    /\ UNCHANGED <<dataset, gone, late>>

\* One share is taken back.
CancelShare(s, d) ==
    /\ HasData(d)
    /\ s \notin gone
    /\ Shares(s, d) # {}
    /\ share' = [share EXCEPT ![Min(Shares(s, d))].state = "deleted"]
    /\ UNCHANGED <<dataset, gone, op, errors, late, twice>>

\* Never the creator's.
CancelShareDatasetWithUser(u, d)  == u # dataset[d].owner /\ CancelShare(u, d)
CancelShareDatasetWithQueue(q, d) == CancelShare(q, d)

DeleteDataset(d) ==
    /\ HasData(d)
    /\ dataset' = [dataset EXCEPT ![d].state = "deleted"]
    /\ share' = [i \in ShareIds |-> IF i \in SharesOf(d) THEN [share[i] EXCEPT !.state = "deleted"]
                                    ELSE share[i]]
    /\ late' = IF Inserting(d) # {} THEN late \cup {d} ELSE late
    /\ UNCHANGED <<gone, op, errors, twice>>

-----------------------------------------------------------------------------
\* UpdateDataset.  The form shows the location as it is stored, and the user
\* leaves it as it is or types another.  Name, description, location and extra
\* are updated one by one; only the location is modelled.
UpdateDataset(o, d, url) ==
    /\ op[o].pc = "idle"
    /\ HasData(d)
    /\ url = dataset[d].url \/ url.depth = 0
    /\ LET real == IF Recognised(url) THEN redirectDatasetURL(url) ELSE url
       IN  /\ real.depth <= MaxDepth
           /\ SetOp(o, [NoOp EXCEPT !.pc = "url", !.data = d, !.url = real])
    /\ UNCHANGED <<dataset, share, gone, errors, late, twice>>

UpdateColumns(o) ==
    /\ op[o].pc = "url"
    /\ \/ /\ dataset' = [dataset EXCEPT ![op[o].data].url =
                             IF HasData(op[o].data) THEN op[o].url ELSE @]
          /\ UNCHANGED errors
       \/ DbError /\ UNCHANGED dataset
    /\ SetOp(o, NoOp)
    /\ UNCHANGED <<share, gone, late, twice>>

\* DeleteUser, DeleteAccount: the shares stay.
ShareeDeleted(s) ==
    /\ s # Public
    /\ gone' = gone \cup {s}
    /\ UNCHANGED <<dataset, share, op, errors, late, twice>>

DatasetNext ==
    \/ \E o \in Ops :
          \/ AddShare(o) \/ UpdateColumns(o)
          \/ \E s \in Sharees : LookForShare(o, s)
          \/ \E d \in DataIds :
                \/ \E u \in Owners, a \in Areas, p \in BOOLEAN : CreateDataset(o, d, u, a, p)
                \/ \E S \in SUBSET Owners : ShareDatasetWithUser(o, d, S)
                \/ \E S \in SUBSET Groups : ShareDatasetWithQueue(o, d, S)
                \/ \E url \in Locations : UpdateDataset(o, d, url)
    \/ \E d \in DataIds :
          \/ DeleteDataset(d)
          \/ \E u \in Owners : CancelShareDatasetWithUser(u, d)
          \/ \E q \in Groups : CancelShareDatasetWithQueue(q, d)
    \/ \E s \in Sharees : ShareeDeleted(s)

DatasetSpec == DatasetInit /\ [][DatasetNext]_datasetVars

-----------------------------------------------------------------------------
(***************************************************************************)
(* What the lists show                                                     *)
(***************************************************************************)
Shown(s) == {share[i].data : i \in {j \in ShareIds : share[j].state = "live" /\ share[j].who = s}}

\* One share of a dataset that is not found fails the whole list.
GetDatasets(u, a) == Shown(u) \cup Shown(Public) \cup Shown(a)
GetDatasetsFails(u, a) == \E d \in GetDatasets(u, a) : ~HasData(d)

GetAllDataset == {d \in DataIds : HasData(d)}

ListUserOfDataset(d)      == {s \in Owners : Shares(s, d) # {}}
ListUsersOutOfDataset(d)  == {s \in Owners \ gone : Shares(s, d) = {}}
ListQueueOfDataset(d)     == {s \in Groups \ gone : Shares(s, d) # {}}
ListQueuesOutOfDataset(d) == {s \in Groups \ gone : Shares(s, d) = {}}

\* Every user can list his datasets, those that he created among them, unless a
\* dataset was deleted while it was being shared with him or his account: one share
\* of a missing dataset fails the whole list.  And a pair has one share, so that
\* cancelling it takes the dataset out of the list, unless two requests shared it
\* at the same time, or a lookup that failed was taken for none found.
SharesAreListed ==
    /\ \A u \in Owners, a \in Groups :
          /\ GetDatasetsFails(u, a) => GetDatasets(u, a) \cap late # {}
          /\ {d \in GetAllDataset : dataset[d].owner = u} \subseteq GetDatasets(u, a)
    /\ \A s \in Sharees, d \in DataIds : Cardinality(Shares(s, d)) > 1 => <<s, d>> \in twice

-----------------------------------------------------------------------------
(* The inductive invariant *)

Location == [area : Areas, depth : Nat]
DataRow  == [state : {"none", "live", "deleted"}, owner : Owners, url : Location]
ShareRow == [state : {"none", "live", "deleted"}, who : Sharees, data : DataIds]
DataOp   == [pc : {"idle", "look", "insert", "url"}, data : DataIds, who : Sharees,
             todo : SUBSET Sharees, url : Location]

DatasetTypeOK ==
    /\ dataset \in [DataIds -> DataRow]
    /\ share \in [ShareIds -> ShareRow]
    /\ op \in [Ops -> DataOp]
    /\ late \subseteq DataIds

Sharing(o) == op[o].pc \in {"look", "insert"}

\* What is shared is there, or was deleted while it was being shared.
SharedIsThere ==
    /\ \A i \in ShareIds : share[i].state = "live" => HasData(share[i].data) \/ share[i].data \in late
    /\ \A o \in Ops : Sharing(o) => HasData(op[o].data) \/ op[o].data \in late
    /\ \A d \in late : dataset[d].state = "deleted"

\* The owner of a dataset keeps his share of it.
OwnerHasShare == \A d \in DataIds : HasData(d) => Shares(dataset[d].owner, d) # {}

\* A second share of a pair comes from a request that looked before the first was made,
\* or could not look.
SharedTwice ==
    /\ \A i, j \in ShareIds :
          /\ share[i].state = "live" /\ share[j].state = "live"
          /\ share[i].who = share[j].who /\ share[i].data = share[j].data
          => i = j \/ <<share[i].who, share[i].data>> \in twice
    /\ \A o \in Ops : op[o].pc = "insert" /\ Shares(op[o].who, op[o].data) # {}
          => <<op[o].who, op[o].data>> \in twice

DatasetInv == DatasetTypeOK /\ SharedIsThere /\ OwnerHasShare /\ SharedTwice
=============================================================================
