--------------------------- MODULE TopologicalSort ---------------------------
(***************************************************************************)
(* Graph.TopologicalSort: Kahn's algorithm over the dependency graph. The  *)
(* order in which a Go map yields the nodes without incoming edges, and    *)
(* that of an adjacency list, are left open.                               *)
(***************************************************************************)
EXTENDS DependencyGraph

VARIABLES
    sort,       \* where the call is: idle, seeding, running, done or failed
    inDegree,   \* incoming edges of each node that are not yet accounted for
    ready,      \* nodes with none
    sorted,     \* the result so far
    left        \* nodes the edges of the last one lead to, still to be counted

sortLocals == <<inDegree, ready, sorted, left>>
sortVars   == <<loaded, sort, sortLocals>>

SortTypeOK ==
    /\ sort \in {"idle", "seeding", "running", "done", "failed"}
    /\ ready \in Seq(graph.nodes)
    /\ sorted \in Seq(graph.nodes)
    /\ left \in SUBSET graph.nodes
    /\ sort # "idle" => inDegree \in [graph.nodes -> Nat]

SortInit ==
    /\ Load
    /\ sort = "idle"
    /\ inDegree = <<>>
    /\ ready = <<>>
    /\ sorted = <<>>
    /\ left = {}

\* Faulty variant: containment is not counted.
AskSortDependsOnly ==
    /\ sort = "idle"
    /\ sort' = "seeding"
    /\ inDegree' = [n \in graph.nodes |-> Cardinality({s \in Dependencies(n) : s[2] # Nil})]
    /\ UNCHANGED <<loaded, ready, sorted, left>>

AskSort ==
    /\ sort = "idle"
    /\ sort' = "seeding"
    /\ inDegree' = [n \in graph.nodes |-> Cardinality(Dependencies(n))]
    /\ UNCHANGED <<loaded, ready, sorted, left>>

Queued == {ready[i] : i \in DOMAIN ready}

Unseeded == {n \in graph.nodes : inDegree[n] = 0} \ Queued

Seed(n) ==
    /\ sort = "seeding"
    /\ n \in Unseeded
    /\ ready' = Append(ready, n)
    /\ UNCHANGED <<loaded, sort, inDegree, sorted, left>>

Seeded ==
    /\ sort = "seeding"
    /\ Unseeded = {}
    /\ sort' = "running"
    /\ UNCHANGED <<loaded, sortLocals>>

TakeReady ==
    /\ sort = "running"
    /\ left = {}
    /\ ready # <<>>
    /\ ready' = Tail(ready)
    /\ sorted' = Append(sorted, Head(ready))
    /\ left' = Dependents(Head(ready))
    /\ UNCHANGED <<loaded, sort, inDegree>>

\* Faulty variant: a node is ready when its first dependency is.
CountDownFirst(t) ==
    /\ sort = "running"
    /\ t \in left
    /\ left' = left \ {t}
    /\ inDegree' = [inDegree EXCEPT ![t] = @ - 1]
    /\ ready' = IF inDegree[t] = Cardinality(Dependencies(t))
                THEN Append(ready, t) ELSE ready
    /\ UNCHANGED <<loaded, sort, sorted>>

CountDown(t) ==
    /\ sort = "running"
    /\ t \in left
    /\ left' = left \ {t}
    /\ inDegree' = [inDegree EXCEPT ![t] = @ - 1]
    /\ ready' = IF inDegree[t] = 1 THEN Append(ready, t) ELSE ready
    /\ UNCHANGED <<loaded, sort, sorted>>

\* Faulty variant: what could be sorted is returned without the check.
FinishUnchecked ==
    /\ sort = "running"
    /\ left = {}
    /\ ready = <<>>
    /\ sort' = "done"
    /\ UNCHANGED <<loaded, sortLocals>>

FinishSort ==
    /\ sort = "running"
    /\ left = {}
    /\ ready = <<>>
    /\ sort' = IF Len(sorted) = Cardinality(graph.nodes) THEN "done" ELSE "failed"
    /\ UNCHANGED <<loaded, sortLocals>>

SortProceeds ==
    \/ \E n \in graph.nodes : Seed(n)
    \/ Seeded
    \/ TakeReady
    \/ \E t \in left : CountDown(t)
    \/ FinishSort

SortNext == AskSort \/ SortProceeds

SortSpec == SortInit /\ [][SortNext]_sortVars

-----------------------------------------------------------------------------
(* Properties *)

\* "Topological order for safe execution" (graph.go:252): every node once, and
\* none before something it depends on.
SortIsSafe ==
    sort = "done" =>
        /\ {sorted[i] : i \in DOMAIN sorted} = graph.nodes
        /\ \A i, j \in DOMAIN sorted :
              /\ sorted[i] = sorted[j] => i = j
              /\ Affects(file, sorted[i], sorted[j]) => i < j

HasCycle ==
    LET next == AffectedBy(file)
    IN  \E n \in graph.nodes : \E l \in next[n] :
            n \in WithinHops(next, l, Cardinality(graph.nodes))

\* The call reports a cycle exactly when the state file records one.
FailsOnlyOnACycle ==
    sort \in {"done", "failed"} => (sort = "failed" <=> HasCycle)
=============================================================================
