----------------------------- MODULE GraphQuery ------------------------------
(***************************************************************************)
(* Graph.Query: the recursive, bounded, depth-first traverseQuery, with    *)
(* its call stack as a sequence of frames. Downstream edges of a node are  *)
(* followed before upstream ones; their order in a list is left open.      *)
(***************************************************************************)
EXTENDS DependencyGraph

CONSTANT Queries    \* the queries asked, [start, direction, maxDepth, edges, nodes]

\* A direction is one of the three the query's type names (pkg/types/graph.go:74).
ASSUME QueryAssumption ==
    \A q \in Queries : /\ q.direction \in {"upstream", "downstream", "both"}
                       /\ q.maxDepth \in Nat

VARIABLES
    asked,      \* where the call is: idle, running or done
    query,
    stack,      \* frames of traverseQuery, [node, depth, down, up]
    seen,       \* visited
    answer,     \* resultNodes
    followed    \* resultEdges

queryLocals == <<query, stack, seen, answer, followed>>
queryVars   == <<loaded, asked, queryLocals>>

NodeType(n) == IF n[2] = Nil THEN "module" ELSE "resource"

EdgeType(e) == IF NodeType(e[1]) = "module" THEN "contains" ELSE "depends_on"

\* Types to keep; none given keeps all.
Matches(type, allowed) == allowed = {} \/ type \in allowed

Frames == [node : graph.nodes, depth : Nat,
           down : SUBSET graph.nodes, up : SUBSET graph.nodes]

QueryTypeOK ==
    /\ asked \in {"idle", "running", "done"}
    /\ seen \in SUBSET graph.nodes
    /\ answer \in SUBSET graph.nodes
    /\ followed \in SUBSET graph.edges
    /\ stack \in Seq(Frames)
    /\ asked # "idle" => query \in Queries

QueryInit ==
    /\ Load
    /\ asked = "idle"
    /\ query = Nil
    /\ stack = <<>>
    /\ seen = {}
    /\ answer = {}
    /\ followed = {}

\* Faulty variant: one hop less than asked.
EnterShort(q, n, d) ==
    [node  |-> n,
     depth |-> d,
     down  |-> {t \in Dependents(n) :
                   /\ d + 1 < q.maxDepth
                   /\ q.direction \in {"downstream", "both"}
                   /\ Matches(EdgeType(<<n, t>>), q.edges)},
     up    |-> {s \in Dependencies(n) :
                   /\ d + 1 < q.maxDepth
                   /\ q.direction \in {"upstream", "both"}
                   /\ Matches(EdgeType(<<s, n>>), q.edges)}]

\* The frame of a call: nothing is followed from a node at the depth bound.
Enter(q, n, d) ==
    [node  |-> n,
     depth |-> d,
     down  |-> {t \in Dependents(n) :
                   /\ d < q.maxDepth
                   /\ q.direction \in {"downstream", "both"}
                   /\ Matches(EdgeType(<<n, t>>), q.edges)},
     up    |-> {s \in Dependencies(n) :
                   /\ d < q.maxDepth
                   /\ q.direction \in {"upstream", "both"}
                   /\ Matches(EdgeType(<<s, n>>), q.edges)}]

AskQuery(q) ==
    /\ asked = "idle"
    /\ q.start \in graph.nodes
    /\ asked' = "running"
    /\ query' = q
    /\ seen' = {q.start}
    /\ stack' = <<Enter(q, q.start, 0)>>
    /\ UNCHANGED <<loaded, answer, followed>>

Top == stack[Len(stack)]

\* A node reached for the first time is reported if its type is asked for, and
\* traversed in any case.
Visit(n, rest) ==
    IF n \in seen
    THEN /\ stack' = [stack EXCEPT ![Len(stack)] = rest]
         /\ UNCHANGED <<seen, answer>>
    ELSE /\ seen' = seen \cup {n}
         /\ answer' = IF Matches(NodeType(n), query.nodes)
                      THEN answer \cup {n} ELSE answer
         /\ stack' = Append([stack EXCEPT ![Len(stack)] = rest],
                            Enter(query, n, Top.depth + 1))

FollowDown ==
    /\ asked = "running"
    /\ stack # <<>>
    /\ \E t \in Top.down :
          /\ followed' = followed \cup {<<Top.node, t>>}
          /\ Visit(t, [Top EXCEPT !.down = @ \ {t}])
    /\ UNCHANGED <<loaded, asked, query>>

FollowUp ==
    /\ asked = "running"
    /\ stack # <<>>
    /\ Top.down = {}
    /\ \E s \in Top.up :
          /\ followed' = followed \cup {<<s, Top.node>>}
          /\ Visit(s, [Top EXCEPT !.up = @ \ {s}])
    /\ UNCHANGED <<loaded, asked, query>>

Return ==
    /\ asked = "running"
    /\ stack # <<>>
    /\ Top.down = {} /\ Top.up = {}
    /\ stack' = SubSeq(stack, 1, Len(stack) - 1)
    /\ asked' = IF Len(stack) = 1 THEN "done" ELSE "running"
    /\ UNCHANGED <<loaded, query, seen, answer, followed>>

QueryProceeds == FollowDown \/ FollowUp \/ Return

QueryNext == (\E q \in Queries : AskQuery(q)) \/ QueryProceeds

QuerySpec == QueryInit /\ [][QueryNext]_queryVars

-----------------------------------------------------------------------------
(* Properties *)

\* The hops a query allows, along what the state file records.
Hops(q) ==
    LET next == AffectedBy(file)
    IN  [n \in graph.nodes |->
            {l \in graph.nodes :
                \/ /\ q.direction # "upstream"
                   /\ l \in next[n] /\ Matches(EdgeType(<<n, l>>), q.edges)
                \/ /\ q.direction # "downstream"
                   /\ n \in next[l] /\ Matches(EdgeType(<<l, n>>), q.edges)}]

\* The ways of k hops from one node to another that visit none twice.
Ways(hops, from, to, k) ==
    {way \in [0..k -> graph.nodes] :
        /\ way[0] = from /\ way[k] = to
        /\ \A i \in 1..k : way[i] \in hops[way[i - 1]]
        /\ \A i, j \in 0..k : way[i] = way[j] => i = j}

\* A query reports only nodes of the types asked for that are within its depth,
\* and all of them, unless a node that is nearer than its depth also lies at the end
\* of a way as long as that: met there first, it is marked as visited and nothing
\* is followed from it (graph/graph.go:319,331). A chain that the bound could not
\* cut short, or one way only to each node, and none is missed.
QueryIsFaithful ==
    asked = "done" =>
        LET hops      == Hops(query)
            within(k) == WithinHops(hops, query.start, k)
            wanted    == {n \in within(query.maxDepth) \ {query.start} :
                             Matches(NodeType(n), query.nodes)}
        IN  /\ answer \subseteq wanted
            /\ \/ wanted \subseteq answer
               \/ \E n \in within(query.maxDepth - 1) :
                      Ways(hops, query.start, n, query.maxDepth) # {}
=============================================================================
