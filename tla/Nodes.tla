------------------------------- MODULE Nodes --------------------------------
(***************************************************************************)
(* The marks of the cluster's nodes (internal/handler/node.go over         *)
(* pkg/crclient/nodeclient.go).  Every handler that changes a node gets    *)
(* it, changes its copy and puts the whole copy back; the API server takes *)
(* it only when the node still has the version that was read.  A refused   *)
(* update is reported and not tried again.                                 *)
(*                                                                         *)
(* A slot is what a mark is known by: the key of a label or an annotation, *)
(* the key and effect of a taint (Taint.MatchTaint).                       *)
(***************************************************************************)
EXTENDS Naturals, FiniteSets

CONSTANTS NodeNames,      \* the cluster's nodes
          LabelSlots,     \* slots of labels and of annotations
          TaintSlots,     \* slots of taints
          AccountSlot,    \* the taint crater.raids.io/account with effect NoSchedule
          MarkValues,     \* values of marks, the empty one among them
          NodeCalls,      \* requests in progress at one time
          MaxNodeVersion  \* bound: writes of a node

EmptyValue == "empty"

ASSUME NodesAssumption ==
    /\ LabelSlots \cap TaintSlots = {} /\ AccountSlot \in TaintSlots
    /\ EmptyValue \in MarkValues
    /\ MaxNodeVersion \in Nat

VARIABLES
    node,  \* the nodes of the API server
    call   \* requests: what was asked, and the node as it was read

nodeVars == <<node, call>>

-----------------------------------------------------------------------------
NodeSlots == LabelSlots \cup TaintSlots
Unmarked == "unmarked"
FreshNode == [version |-> 0, unschedulable |-> FALSE, ready |-> TRUE,
              marks |-> [s \in NodeSlots |-> Unmarked]]

\* What a request asks of a node: a label or an annotation set or removed, a
\* taint set or removed, schedulability toggled.
MarkAsks(slots) == [what : {"add"}, slot : slots, value : MarkValues] \cup [what : {"delete"}, slot : slots]
LabelAsks == MarkAsks(LabelSlots)
TaintAsks == MarkAsks(TaintSlots)
ToggleAsk == [what |-> "toggle"]
Asks == LabelAsks \cup TaintAsks \cup {ToggleAsk}
NoCall == [pc |-> "idle"]

NodesInit ==
    /\ node = [n \in NodeNames |-> FreshNode]
    /\ call = [c \in NodeCalls |-> NoCall]

\* Get with the clientset: the API server's own copy.
GetForUpdate(c, n, ask) ==
    /\ call[c] = NoCall
    /\ call' = [call EXCEPT ![c] = [pc |-> "read", name |-> n, ask |-> ask, seen |-> node[n]]]
    /\ UNCHANGED node

\* AddNodeTaint refuses a taint that is there, DeleteNodeTaint one that is not;
\* labels and annotations are overwritten, and removing one that is not there is
\* no error.
Acceptable(ask, seen) ==
    \/ ask.what = "toggle"
    \/ ask.what # "toggle" /\ ask.slot \in LabelSlots
    \/ ask.what = "add" /\ ask.slot \in TaintSlots /\ seen.marks[ask.slot] = Unmarked
    \/ ask.what = "delete" /\ ask.slot \in TaintSlots /\ seen.marks[ask.slot] # Unmarked

\* The copy, changed: UpdateNodeunschedule, AddNodeLabel, AddNodeAnnotation,
\* AddNodeTaint, DeleteNodeLabel, DeleteNodeAnnotation, DeleteNodeTaint.
Changed(ask, seen) ==
    CASE ask.what = "toggle" -> [seen EXCEPT !.unschedulable = ~@]
      [] ask.what = "add"    -> [seen EXCEPT !.marks[ask.slot] = ask.value]
      [] ask.what = "delete" -> [seen EXCEPT !.marks[ask.slot] = Unmarked]

\* Mutant: the update is sent without the version that was read.
Update_Unversioned(c) ==
    LET r == call[c] IN
    /\ r.pc = "read" /\ Acceptable(r.ask, r.seen)
    /\ node[r.name].version < MaxNodeVersion
    /\ node' = [node EXCEPT ![r.name] =
                  [Changed(r.ask, r.seen) EXCEPT !.version = node[r.name].version + 1]]
    /\ call' = [call EXCEPT ![c] = NoCall]

\* Update: the API server compares the versions.
Update(c) ==
    LET r == call[c] IN
    /\ r.pc = "read" /\ Acceptable(r.ask, r.seen)
    /\ node[r.name].version = r.seen.version
    /\ node[r.name].version < MaxNodeVersion
    /\ node' = [node EXCEPT ![r.name] = [Changed(r.ask, r.seen) EXCEPT !.version = @ + 1]]
    /\ call' = [call EXCEPT ![c] = NoCall]

\* The request is refused, here or by the API server, or the call fails.
UpdateFails(c) ==
    /\ call[c].pc = "read"
    /\ call' = [call EXCEPT ![c] = NoCall]
    /\ UNCHANGED node

\* Others write nodes as well: the kubelet and the cluster's own administrators.
ChangedByOthers(n, ask) ==
    /\ node[n].version < MaxNodeVersion
    /\ Acceptable(ask, node[n])
    /\ node' = [node EXCEPT ![n] = [Changed(ask, node[n]) EXCEPT !.version = @ + 1]]
    /\ UNCHANGED call

Readiness(n) ==
    /\ node[n].version < MaxNodeVersion
    /\ node' = [node EXCEPT ![n].ready = ~@, ![n].version = @ + 1]
    /\ UNCHANGED call

-----------------------------------------------------------------------------
(* What is shown *)

\* The taint is looked for in its printed form, which has no "=" when the value
\* is empty.
isNodeOccupied(n) == node[n].marks[AccountSlot] \notin {Unmarked, EmptyValue}

getNodeStatus(n) ==
    CASE isNodeOccupied(n)                            -> "Occupied"
      [] ~isNodeOccupied(n) /\ node[n].unschedulable  -> "Unschedulable"
      [] ~isNodeOccupied(n) /\ ~node[n].unschedulable -> IF node[n].ready THEN "Ready" ELSE "Unknown"

-----------------------------------------------------------------------------
NodesNext ==
    \/ \E c \in NodeCalls, n \in NodeNames, ask \in Asks : GetForUpdate(c, n, ask)
    \/ \E c \in NodeCalls : Update(c) \/ UpdateFails(c)
    \/ \E n \in NodeNames, ask \in Asks : ChangedByOthers(n, ask)
    \/ \E n \in NodeNames : Readiness(n)

NodesSpec == NodesInit /\ [][NodesNext]_nodeVars

-----------------------------------------------------------------------------
(* The inductive invariant behind OthersMarksKept. *)

Node == [version : Nat, unschedulable : BOOLEAN, ready : BOOLEAN,
         marks : [NodeSlots -> MarkValues \cup {Unmarked}]]
ReadCall == [pc : {"read"}, name : NodeNames, ask : Asks, seen : Node]

NodesTypeOK ==
    /\ node \in [NodeNames -> Node]
    /\ call \in [NodeCalls -> {NoCall} \cup ReadCall]

\* What was read is an older version of the node, or the node as it is.
SeenIsOlder ==
    \A c \in NodeCalls : call[c] # NoCall =>
        /\ call[c].seen.version <= node[call[c].name].version
        /\ call[c].seen.version = node[call[c].name].version => call[c].seen = node[call[c].name]

NodesInv == NodesTypeOK /\ SeenIsOlder

-----------------------------------------------------------------------------
(* Properties *)

\* A request changes what it was asked to change and nothing that another client
\* wrote between its Get and its Update: the other marks stay, and a node that
\* was given to an account is shown as anything else only when that taint is
\* removed by name.
OthersMarksKept == [][
    \A n \in NodeNames, c \in NodeCalls :
        node'[n] # node[n] /\ call[c] # NoCall /\ call'[c] = NoCall =>
            LET ask == call[c].ask IN
            /\ \A s \in NodeSlots : (ask.what # "toggle" => ask.slot # s)
                                    => node'[n].marks[s] = node[n].marks[s]
            /\ ask.what # "toggle" => node'[n].unschedulable = node[n].unschedulable
            /\ node'[n].ready = node[n].ready
            /\ getNodeStatus(n) = "Occupied" /\ getNodeStatus(n)' # "Occupied"
                 => ask.what # "toggle" /\ ask.slot = AccountSlot ]_nodeVars
=============================================================================
