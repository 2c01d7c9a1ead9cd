----------------------------- MODULE BlastRadius -----------------------------
(***************************************************************************)
(* `infractl graph blast-radius`: the breadth-first traversal of           *)
(* Graph.BlastRadius, one action per node taken off the queue and one per  *)
(* edge looked at. The order of an adjacency list is left open.            *)
(***************************************************************************)
EXTENDS DependencyGraph

CONSTANT MaxDepths      \* values given to --max-depth

ASSUME MaxDepthAssumption == MaxDepths \subseteq Nat

VARIABLES
    radius,     \* where the call is: idle, running, done or cancelled
    origin,     \* the node asked about
    maxDepth,   \* the --max-depth asked for
    queue,      \* items still to be taken, [node, depth]
    visited,
    affected,   \* result.AffectedNodes, [node, depth]
    item,       \* the item whose edges are being looked at
    todo        \* where those that are left lead

search     == <<queue, visited, affected, item, todo>>
radiusVars == <<loaded, radius, origin, maxDepth, search>>

Item == [node : graph.nodes, depth : Nat]

RadiusTypeOK ==
    /\ file \in StateFiles
    /\ radius \in {"idle", "running", "done", "cancelled"}
    /\ maxDepth \in MaxDepths \cup {0}
    /\ queue \in Seq(Item)
    /\ visited \in SUBSET graph.nodes
    /\ affected \in SUBSET Item
    /\ todo \in SUBSET graph.nodes
    /\ radius # "idle" => origin \in graph.nodes /\ item \in Item

RadiusInit ==
    /\ Load
    /\ radius = "idle"
    /\ origin = Nil
    /\ maxDepth = 0
    /\ queue = <<>>
    /\ visited = {}
    /\ affected = {}
    /\ item = Nil
    /\ todo = {}

\* A depth that is not positive stands for ten.
Limit == IF maxDepth = 0 THEN 10 ELSE maxDepth

\* The queue is seeded from the origin's edges as from those of any node.
AskRadius(n, d) ==
    /\ radius = "idle"
    /\ n \in graph.nodes
    /\ radius' = "running"
    /\ origin' = n
    /\ maxDepth' = d
    /\ visited' = {n}
    /\ item' = [node |-> n, depth |-> 0]
    /\ todo' = Dependents(n)
    /\ UNCHANGED <<loaded, queue, affected>>

LookAt(t) ==
    /\ radius = "running"
    /\ t \in todo
    /\ todo' = todo \ {t}
    /\ IF t \in visited
       THEN UNCHANGED <<visited, queue>>
       ELSE /\ visited' = visited \cup {t}
            /\ queue' = Append(queue, [node |-> t, depth |-> item.depth + 1])
    /\ UNCHANGED <<loaded, radius, origin, maxDepth, affected, item>>

\* Faulty variant of the next action: an item that is too deep stays on the queue.
TakeKeepsDeep ==
    /\ radius = "running"
    /\ todo = {}
    /\ queue # <<>>
    /\ Head(queue).depth <= Limit
    /\ queue' = Tail(queue)
    /\ item' = Head(queue)
    /\ affected' = affected \cup {Head(queue)}
    /\ todo' = Dependents(Head(queue).node)
    /\ UNCHANGED <<loaded, radius, origin, maxDepth, visited>>

\* The next item; one beyond the limit is dropped, and its edges are not
\* looked at.
Take ==
    /\ radius = "running"
    /\ todo = {}
    /\ queue # <<>>
    /\ queue' = Tail(queue)
    /\ item' = Head(queue)
    /\ IF Head(queue).depth > Limit
       THEN UNCHANGED <<affected, todo>>
       ELSE /\ affected' = affected \cup {Head(queue)}
            /\ todo' = Dependents(Head(queue).node)
    /\ UNCHANGED <<loaded, radius, origin, maxDepth, visited>>

FinishRadius ==
    /\ radius = "running"
    /\ todo = {}
    /\ queue = <<>>
    /\ radius' = "done"
    /\ UNCHANGED <<loaded, origin, maxDepth, search>>

\* The context is looked at before each item, and an error is all that is
\* returned.
Cancel ==
    /\ radius = "running"
    /\ todo = {}
    /\ queue # <<>>
    /\ radius' = "cancelled"
    /\ UNCHANGED <<loaded, origin, maxDepth, search>>

RadiusProceeds == (\E t \in todo : LookAt(t)) \/ Take \/ FinishRadius

RadiusNext ==
    \/ \E n \in graph.nodes, d \in MaxDepths : AskRadius(n, d)
    \/ RadiusProceeds
    \/ Cancel

RadiusSpec == RadiusInit /\ [][RadiusNext]_radiusVars

-----------------------------------------------------------------------------
(* Properties *)

\* Finding each thing that breaks "by distance" (README.md:245): the result
\* holds every node that the file says is affected within the limit, at the
\* length of its shortest chain, and nothing else.
RadiusIsExact ==
    radius = "done" =>
        LET next      == AffectedBy(file)
            within(k) == WithinHops(next, origin, k)
            depths    == (1..Limit) \cap (1..Cardinality(graph.nodes))
        IN  affected = UNION {[node : within(k) \ within(k - 1), depth : {k}] : k \in depths}

\* What the flag's help says of --max-depth 0 (cli/graph.go:352): no limit.
ZeroIsNoLimit ==
    radius = "done" /\ maxDepth = 0 =>
        WithinHops(AffectedBy(file), origin, Cardinality(graph.nodes)) \ {origin}
            \subseteq {i.node : i \in affected}
=============================================================================
