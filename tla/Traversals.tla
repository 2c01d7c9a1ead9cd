------------------------------ MODULE Traversals ------------------------------
(***************************************************************************)
(* The commands on the graph of one state file: a command asks for one     *)
(* traversal and ends. The traversals share nothing but the file.          *)
(***************************************************************************)
EXTENDS BlastRadius, TopologicalSort, GraphQuery

vars == <<radiusVars, sortVars, queryVars>>

Init == RadiusInit /\ SortInit /\ QueryInit

Asks ==
    /\ radius = "idle" /\ sort = "idle" /\ asked = "idle"
    /\ \/ /\ \E n \in graph.nodes, d \in MaxDepths : AskRadius(n, d)
          /\ UNCHANGED <<sortVars, queryVars>>
       \/ AskSort /\ UNCHANGED <<radiusVars, queryVars>>
       \/ (\E q \in Queries : AskQuery(q)) /\ UNCHANGED <<radiusVars, sortVars>>

Proceeds ==
    \/ RadiusProceeds /\ UNCHANGED <<sortVars, queryVars>>
    \/ SortProceeds /\ UNCHANGED <<radiusVars, queryVars>>
    \/ QueryProceeds /\ UNCHANGED <<radiusVars, sortVars>>

Cancelled == Cancel /\ UNCHANGED <<sortVars, queryVars>>

Next == Asks \/ Proceeds \/ Cancelled

Spec == Init /\ [][Next]_vars /\ WF_vars(Proceeds)

TypeOK == RadiusTypeOK /\ SortTypeOK /\ QueryTypeOK

-----------------------------------------------------------------------------
(* Properties *)

\* A call that is asked for returns, whatever cycles the file records.
CallsReturn ==
    /\ radius = "running" ~> radius \in {"done", "cancelled"}
    /\ sort = "seeding" ~> sort \in {"done", "failed"}
    /\ asked = "running" ~> asked = "done"
=============================================================================
