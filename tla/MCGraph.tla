------------------------------- MODULE MCGraph -------------------------------
(***************************************************************************)
(* State files whose blocks depend on each other in every way, and what is *)
(* asked of their graphs.                                                  *)
(***************************************************************************)
EXTENDS Traversals

CONSTANTS vpc, net, app, ami, lb, m, k0, k1

Resource(mode, module, block, key, deps) ==
    [mode |-> mode, module |-> module, block |-> block, key |-> key, deps |-> deps]

Blocks == {<<Nil, vpc>>, <<Nil, net>>, <<m, app>>}

\* A singleton, a block with two instances, a resource in a module and a data
\* source, with every way the three blocks can depend on each other, and the
\* instances on their own block.
Related ==
    {{Resource("managed", Nil, vpc, Nil, d.vpc),
      Resource("managed", Nil, net, k0, d.net \cup {<<Nil, ami>>}),
      Resource("managed", Nil, net, k1, d.net),
      Resource("managed", m, app, Nil, d.app),
      Resource("data", Nil, ami, Nil, {})} :
        d \in [vpc : SUBSET (Blocks \ {<<Nil, vpc>>}), net : SUBSET Blocks,
               app : SUBSET (Blocks \ {<<m, app>>})]}

\* Two ways from vpc to lb, one a hop longer than the other, and two to app: which
\* one is met first depends on the order of the traversal, and a query of two hops
\* that goes to app by way of net does not see ami.
Detour ==
    {Resource("managed", Nil, vpc, Nil, {}),
     Resource("managed", Nil, net, Nil, {<<Nil, vpc>>}),
     Resource("managed", Nil, app, Nil, {<<Nil, vpc>>, <<Nil, net>>}),
     Resource("managed", Nil, ami, Nil, {<<Nil, app>>}),
     Resource("managed", Nil, lb, Nil, {<<Nil, net>>, <<Nil, ami>>})}

MCStateFiles == Related \cup {Detour}

\* Queries for resources, along every edge, and along dependencies both ways.
MCQueries ==
    LET asking(directions, edges) ==
            [start : {<<Nil, vpc, Nil>>, <<m, Nil, Nil>>}, direction : directions,
             maxDepth : {2, 5}, edges : {edges}, nodes : {{"resource"}}]
    IN  asking({"downstream", "upstream"}, {}) \cup asking({"both"}, {"depends_on"})
=============================================================================
