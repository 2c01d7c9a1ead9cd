--------------------------- MODULE DependencyGraph ---------------------------
(***************************************************************************)
(* The graph `infractl graph` builds from a state file: FromState in       *)
(* graph/fromstate.go. A node is an address <<module, block, key>>; a      *)
(* module has a node of its own. An edge <<a, b>> reads "b depends on a",  *)
(* or "module a contains b". The traversals of graph/graph.go are modules  *)
(* that extend this one: BlastRadius, TopologicalSort and GraphQuery.      *)
(***************************************************************************)
EXTENDS Naturals, Sequences, FiniteSets

CONSTANTS
    StateFiles,     \* the state files there are: sets of resource instances,
                    \* [mode, module, block, key, deps]
    Nil             \* no module, no block, no count or for_each key

VARIABLES
    file,       \* the state file the command was given
    graph       \* the graph built from it, [nodes, edges]

\* Addresses are unique in a state file, and one that is in a module is a
\* resource and not the module itself.
ASSUME StateFileAssumption ==
    \A f \in StateFiles : \A r \in f :
        /\ r.mode \in {"managed", "data"}
        /\ r.block # Nil
        /\ \A ref \in r.deps : ref = <<ref[1], ref[2]>>
        /\ \A q \in f : (/\ q.module = r.module
                         /\ q.block = r.block
                         /\ q.key = r.key) => q = r

Managed(f) == {r \in f : r.mode = "managed"}

\* A block has the one resource without a key, or its instances have keys: "the
\* instances carry index suffixes, so an exact match finds nothing"
\* (graph/fromstate.go:131). And a file ends.
ASSUME BlockAssumption ==
    \A f \in StateFiles :
        /\ IsFiniteSet(f)
        /\ \A r, q \in Managed(f) :
              r.module = q.module /\ r.block = q.block /\ r.key = Nil => q.key = Nil

Address(r) == <<r.module, r.block, r.key>>

ModuleNode(m) == <<m, Nil, Nil>>

\* Faulty variant: an indexed block is not resolved.
ResolveExact(ref, f) ==
    {r \in Managed(f) : Address(r) = <<ref[1], ref[2], Nil>>}

\* A dependency is recorded as a block, without an index: it means the resource
\* of that address or, failing that, every instance of the block.
Resolve(ref, f) ==
    LET exact == {r \in Managed(f) : Address(r) = <<ref[1], ref[2], Nil>>}
    IN  IF exact # {} THEN exact
        ELSE {r \in Managed(f) : r.module = ref[1] /\ r.block = ref[2] /\ r.key # Nil}

Nodes(f) ==
    {Address(r) : r \in Managed(f)} \cup
    {ModuleNode(r.module) : r \in {s \in Managed(f) : s.module # Nil}}

Contains(f) ==
    {<<ModuleNode(r.module), Address(r)>> : r \in {s \in Managed(f) : s.module # Nil}}

\* A reference nothing resolves to, such as a data source, makes no edge.
DependsOn(f) ==
    LET pairs == {p \in Managed(f) \X Managed(f) :
                     p[1] # p[2] /\ \E ref \in p[2].deps : p[1] \in Resolve(ref, f)}
    IN  {<<Address(p[1]), Address(p[2])>> : p \in pairs}

FromState(f) == [nodes |-> Nodes(f), edges |-> Contains(f) \cup DependsOn(f)]

\* loadGraph: a command reads one state file and builds the graph once.
Load ==
    /\ file \in StateFiles
    /\ graph = FromState(file)

loaded == <<file, graph>>

\* adj: where the outgoing edges of a node lead.
Dependents(n) == {t \in graph.nodes : <<n, t>> \in graph.edges}

\* radj: where its incoming edges come from.
Dependencies(n) == {s \in graph.nodes : <<s, n>> \in graph.edges}

-----------------------------------------------------------------------------
(* Reference definitions, for the properties of the traversals. They speak   *)
(* of the state file, not of the graph.                                      *)

\* b changes when a does: b records a dependency on the block of a, or a is the
\* module b is in.
Affects(f, a, b) ==
    \E r \in Managed(f) :
        /\ Address(r) = b
        /\ \/ a = ModuleNode(r.module) /\ r.module # Nil
           \/ /\ a # b
              /\ <<a[1], a[2]>> \in r.deps
              /\ \E s \in Managed(f) : Address(s) = a

\* The nodes at most k hops of the relation next from n, n included.
WithinHops(next, n, k) ==
    LET within[i \in 0..k] ==
            IF i = 0 THEN {n}
            ELSE LET nearer == within[i - 1]
                 IN  nearer \cup UNION {next[l] : l \in nearer}
    IN  within[k]

AffectedBy(f) == [a \in Nodes(f) |-> {b \in Nodes(f) : Affects(f, a, b)}]
=============================================================================
