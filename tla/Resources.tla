----------------------------- MODULE Resources ------------------------------
(***************************************************************************)
(* The table of resources and its links (internal/handler/resource.go).    *)
(* SyncResource copies the allocatable resources of the cluster's nodes    *)
(* into the table, one statement after the other; administrators give rows *)
(* a type, delete them, and link a GPU to networks and to virtual GPUs.    *)
(*                                                                         *)
(* A name is unique in the table, the soft deleted rows included, and a    *)
(* row that is deleted for good takes its links along (ON DELETE CASCADE), *)
(* so a row is known by its name.                                          *)
(***************************************************************************)
EXTENDS Naturals, FiniteSets, FiniteSetsExt, Functions

CONSTANTS Machines,     \* the cluster's nodes
          Kinds,        \* names of resources
          MaxOnNode,    \* bound: allocatable amount of a resource on a node
          Syncs,        \* sync requests in progress at one time
          MaxNodeSteps, \* bound: changes of the cluster
          RangeEnds,    \* where the range of a link may begin and end
          MaxLinks      \* bound: links at one time

ASSUME ResourcesAssumption ==
    /\ IsFiniteSet(Machines)
    /\ MaxOnNode \in Nat /\ MaxNodeSteps \in Nat /\ MaxLinks \in Nat /\ RangeEnds \subseteq Nat \ {0}

VARIABLES
    allocatable,  \* of each node, the amount of each resource
    nodeSteps,    \* changes of the cluster left
    resource,     \* the table resources
    links,        \* the tables resource_networks and resource_vgpus
    sync          \* sync requests

resourceVars == <<allocatable, nodeSteps, resource, links, sync>>

-----------------------------------------------------------------------------
ResourceTypes == {"gpu", "rdma", "vgpu"}
\* What a node says of a resource: an amount, which may be 0, or nothing.
Unlisted == MaxOnNode + 1
Entries  == 0..Unlisted
Lists(alloc, n, k)    == alloc[n][k] # Unlisted
AmountOn(alloc, n, k) == IF Lists(alloc, n, k) THEN alloc[n][k] ELSE 0

NoResource == [state |-> "none", total |-> 0, max |-> 0, type |-> "untyped"]
NoSync     == [pc |-> "idle", seen |-> [n \in Machines |-> [k \in Kinds |-> Unlisted]], todo |-> {},
               alone |-> TRUE]

\* NoBound: the range of a link is open at this end.
NoBound == 0
Bounds  == RangeEnds \cup {NoBound}
Link    == [table : {"network", "vgpu"}, gpu : Kinds, other : Kinds, min : Bounds, max : Bounds]

ResourceInit ==
    /\ allocatable = [n \in Machines |-> [k \in Kinds |-> Unlisted]]
    /\ nodeSteps = MaxNodeSteps
    /\ resource = [k \in Kinds |-> NoResource]
    /\ links = {}
    /\ sync = [s \in Syncs |-> NoSync]

InTable(k) == resource[k].state = "live"

\* The node's resources change: a device plugin registers, or goes and leaves 0; a node
\* joins or leaves.
ChangeMachine(n, k, a) ==
    /\ nodeSteps > 0 /\ allocatable[n][k] # a
    /\ allocatable' = [allocatable EXCEPT ![n][k] = a]
    /\ nodeSteps' = nodeSteps - 1
    /\ UNCHANGED <<resource, links, sync>>

-----------------------------------------------------------------------------
(* SyncResource *)

\* Mutant: the largest node is not looked for.
Quantity_FirstNode(alloc, k) ==
    LET having == {n \in Machines : Lists(alloc, n, k)}
    IN  [total |-> MapThenSumSet(LAMBDA n : AmountOn(alloc, n, k), having),
         max   |-> AmountOn(alloc, CHOOSE n \in having : TRUE, k)]

\* What the nodes have of k together, and what one node has at most.
Quantity(alloc, k) ==
    LET having == {n \in Machines : Lists(alloc, n, k)}
    IN  [total |-> MapThenSumSet(LAMBDA n : AmountOn(alloc, n, k), having),
         max   |-> Max({AmountOn(alloc, n, k) : n \in having})]

Listed(alloc) == {k \in Kinds : \E n \in Machines : Lists(alloc, n, k)}
SetSync(s, new) == sync' = [sync EXCEPT ![s] = new]

\* The nodes are listed and their resources added up.
SyncResource(s) ==
    /\ sync[s].pc \in {"idle", "done"}
    /\ LET others == {t \in Syncs \ {s} : sync[t].pc \in {"write", "drop"}}
       IN  sync' = [t \in Syncs |->
                IF t = s THEN [pc |-> "write", seen |-> allocatable, todo |-> Listed(allocatable),
                               alone |-> others = {}]
                ELSE [sync[t] EXCEPT !.alone = FALSE, !.pc = IF @ = "done" THEN "idle" ELSE @]]
    /\ UNCHANGED <<allocatable, nodeSteps, resource, links>>

\* The row of one resource is updated, or made when no row was updated: an insert
\* fails when the row is soft deleted, and that ends the sync.
WriteResource(s, k) ==
    /\ sync[s].pc = "write" /\ k \in sync[s].todo
    /\ \/ /\ resource[k].state # "deleted"
          /\ resource' = [resource EXCEPT ![k].state = "live", ![k].total = Quantity(sync[s].seen, k).total,
                                          ![k].max = Quantity(sync[s].seen, k).max]
          /\ SetSync(s, [sync[s] EXCEPT !.todo = @ \ {k}])
       \/ /\ resource[k].state = "deleted"
          /\ SetSync(s, NoSync)
          /\ UNCHANGED resource
    /\ UNCHANGED <<allocatable, nodeSteps, links>>

\* The rows that the cluster does not have any more are listed.
ListObsolete(s) ==
    /\ sync[s].pc = "write" /\ sync[s].todo = {}
    /\ SetSync(s, [sync[s] EXCEPT !.pc = "drop",
                      !.todo = {k \in Kinds : InTable(k)} \ Listed(sync[s].seen)])
    /\ UNCHANGED <<allocatable, nodeSteps, resource, links>>

\* One of them is deleted for good, with its links.
DropResource(s, k) ==
    /\ sync[s].pc = "drop" /\ k \in sync[s].todo
    /\ resource' = [resource EXCEPT ![k] = NoResource]
    /\ links' = {l \in links : l.gpu # k /\ l.other # k}
    /\ SetSync(s, [sync[s] EXCEPT !.todo = @ \ {k}])
    /\ UNCHANGED <<allocatable, nodeSteps>>

EndSync(s) ==
    /\ sync[s].pc = "drop" /\ sync[s].todo = {}
    /\ SetSync(s, [sync[s] EXCEPT !.pc = "done"])
    /\ UNCHANGED <<allocatable, nodeSteps, resource, links>>

-----------------------------------------------------------------------------
(* Administration *)

\* A write by an administrator: what a sync has written may be changed by it.
Administered == sync' = [s \in Syncs |-> IF sync[s].pc = "done" THEN NoSync
                                         ELSE [sync[s] EXCEPT !.alone = FALSE]]

\* UpdateResource, its type; links made for another type stay.
UpdateResource(k, type) ==
    /\ InTable(k) /\ resource[k].type # type
    /\ resource' = [resource EXCEPT ![k].type = type]
    /\ UNCHANGED <<allocatable, nodeSteps, links, sync>>

\* DeleteResource: soft deleted.
DeleteResource(k) ==
    /\ InTable(k)
    /\ resource' = [resource EXCEPT ![k].state = "deleted"]
    /\ Administered
    /\ UNCHANGED <<allocatable, nodeSteps, links>>

IsOf(k, type) == InTable(k) /\ resource[k].type = type

\* Linking a pair twice adds nothing that can be told apart.
LinkGPUToRDMA(g, k) ==
    /\ Cardinality(links) < MaxLinks
    /\ IsOf(g, "gpu") /\ IsOf(k, "rdma")
    /\ links' = links \cup {[table |-> "network", gpu |-> g, other |-> k, min |-> NoBound, max |-> NoBound]}
    /\ UNCHANGED <<allocatable, nodeSteps, resource, sync>>

LinkGPUToVGPU(g, k, min, max) ==
    /\ Cardinality(links) < MaxLinks
    /\ min = NoBound \/ max = NoBound \/ min <= max
    /\ IsOf(g, "gpu") /\ IsOf(k, "vgpu")
    /\ ~ \E l \in links : l.table = "vgpu" /\ l.gpu = g /\ l.other = k
    /\ links' = links \cup {[table |-> "vgpu", gpu |-> g, other |-> k, min |-> min, max |-> max]}
    /\ UNCHANGED <<allocatable, nodeSteps, resource, sync>>

\* UpdateGPUVGPULink: the fields that are given (NoBound is not given); the range
\* is checked when both its ends are.
UpdateGPUVGPULink(l, k, min, max) ==
    /\ l \in links /\ l.table = "vgpu"
    /\ min = NoBound \/ max = NoBound \/ min <= max
    /\ k = l.other \/ IsOf(k, "vgpu")
    /\ links' = (links \ {l}) \cup {[l EXCEPT !.other = k,
                                        !.min = IF min = NoBound THEN @ ELSE min,
                                        !.max = IF max = NoBound THEN @ ELSE max]}
    /\ UNCHANGED <<allocatable, nodeSteps, resource, sync>>

\* The pair is named, and the GPU has to be one still.
DeleteResourceLink(l) ==
    /\ l \in links /\ l.table = "network"
    /\ IsOf(l.gpu, "gpu")
    /\ links' = links \ {l}
    /\ UNCHANGED <<allocatable, nodeSteps, resource, sync>>

\* The link itself is named.
DeleteGPUVGPULink(l) ==
    /\ l \in links /\ l.table = "vgpu"
    /\ links' = links \ {l}
    /\ UNCHANGED <<allocatable, nodeSteps, resource, sync>>

ListResource == {k \in Kinds : InTable(k)}
LinkedTo(g, table) == {k \in Kinds : \E l \in links : l.table = table /\ l.gpu = g /\ l.other = k /\ InTable(k)}
GetGPUNetworks(g) ==
    IF IsOf(g, "gpu") THEN {k \in LinkedTo(g, "network") : IsOf(k, "rdma")} ELSE {}
GetGPUVGPUResources(g) == IF IsOf(g, "gpu") THEN LinkedTo(g, "vgpu") ELSE {}

-----------------------------------------------------------------------------
ResourceNext ==
    \/ \E n \in Machines, k \in Kinds, a \in Entries : ChangeMachine(n, k, a)
    \/ \E s \in Syncs : SyncResource(s) \/ ListObsolete(s) \/ EndSync(s)
    \/ \E s \in Syncs, k \in Kinds : WriteResource(s, k) \/ DropResource(s, k)
    \/ \E k \in Kinds, type \in ResourceTypes : UpdateResource(k, type)
    \/ \E k \in Kinds : DeleteResource(k)
    \/ \E g, k \in Kinds : LinkGPUToRDMA(g, k) \/ \E min, max \in Bounds : LinkGPUToVGPU(g, k, min, max)
    \/ \E l \in links, k \in Kinds, min, max \in Bounds : UpdateGPUVGPULink(l, k, min, max)
    \/ \E l \in links : DeleteResourceLink(l) \/ DeleteGPUVGPULink(l)

ResourceSpec == ResourceInit /\ [][ResourceNext]_resourceVars

-----------------------------------------------------------------------------
(* Properties *)

IsMaximum(m, S) == m \in S /\ \A x \in S : x <= m

\* A sync that ended well, with no other sync and no deletion beside it, leaves
\* in the table what the cluster had when it was read: the same resources, each
\* with the sum over the nodes and the largest node.  Updates, inserts and hard
\* deletes are separate statements, and a row that was there keeps its type.
SyncedIsCluster == \A s \in Syncs :
    sync[s].pc = "done" /\ sync[s].alone =>
        /\ ListResource = Listed(sync[s].seen)
        /\ \A k \in ListResource : LET of == [n \in Machines |-> AmountOn(sync[s].seen, n, k)] IN
              /\ resource[k].total = FoldFunction(+, 0, of)
              /\ IsMaximum(resource[k].max, Range(of))

-----------------------------------------------------------------------------
(* What is inductive of it. *)

Row    == [state : {"none", "live", "deleted"}, total : Nat, max : Nat, type : ResourceTypes \cup {"untyped"}]
Census == [Machines -> [Kinds -> Entries]]
Sync   == [pc : {"idle", "write", "drop", "done"}, seen : Census, todo : SUBSET Kinds, alone : BOOLEAN]

\* What a sync reads and writes.
ResourceTypeOK ==
    allocatable \in Census /\ resource \in [Kinds -> Row] /\ sync \in [Syncs -> Sync]

Copied(k, alloc) ==
    InTable(k) /\ resource[k].total = Quantity(alloc, k).total /\ resource[k].max = Quantity(alloc, k).max

\* A sync writes what some node has.
WritesListed == \A s \in Syncs : sync[s].pc = "write" => sync[s].todo \subseteq Listed(sync[s].seen)

\* Beside a sync that is alone nobody writes; what it is through with is in the table,
\* and what it does not have is out or about to be dropped.
AloneIsCopied == \A s \in Syncs : sync[s].alone /\ sync[s].pc \in {"write", "drop", "done"} =>
    LET now == sync[s]
        has == Listed(now.seen)
    IN  /\ \A t \in Syncs \ {s} : sync[t].pc \notin {"write", "drop"}
        /\ \A k \in has : (now.pc = "write" /\ k \in now.todo) \/ Copied(k, now.seen)
        /\ now.pc # "write" => ListResource \ has \subseteq now.todo /\ now.todo \cap has = {}
        /\ now.pc = "done" => now.todo = {}

ResourceInv == ResourceTypeOK /\ WritesListed /\ AloneIsCopied
=============================================================================
