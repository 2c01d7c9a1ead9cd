----------------------------- MODULE MCGraphChain -----------------------------
(***************************************************************************)
(* Twelve resources, each depending on the one before it.                  *)
(***************************************************************************)
EXTENDS BlastRadius

MCChain ==
    {{[mode |-> "managed", module |-> Nil, block |-> i, key |-> Nil,
       deps |-> {<<Nil, i - 1>>}] : i \in 1..12}}
=============================================================================
