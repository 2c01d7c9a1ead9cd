-------------------------------- MODULE Tables ---------------------------------
(***************************************************************************)
(* Rows in an order. What ORDER BY a time leaves open stays open here: of  *)
(* two rows with the same time either may come first, and the next query   *)
(* may have them the other way round.                                      *)
(***************************************************************************)
EXTENDS Integers, FiniteSets

\* ORDER BY time DESC.
Listings(rows, time) ==
    {seq \in [1..Cardinality(rows) -> rows] :
        \A i, j \in DOMAIN seq : i < j => seq[i] # seq[j] /\ time[seq[i]] >= time[seq[j]]}

\* The rows whose time no other row has: their place is given.
Untied(rows, time) == {r \in rows : \A other \in rows \ {r} : time[other] # time[r]}

\* Numbers, from the least on.
Ascending(numbers) ==
    [i \in 1..Cardinality(numbers) |->
        CHOOSE t \in numbers : Cardinality({u \in numbers : u < t}) = i - 1]

\* What a sequence has at some of its places.
Kept(seq, places) ==
    LET kept == Ascending(places) IN [k \in DOMAIN kept |-> seq[kept[k]]]
=============================================================================
