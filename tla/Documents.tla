------------------------------- MODULE Documents -------------------------------
(***************************************************************************)
(* Decoded JSON. A value is [kind, value]: null, a scalar (a list too is   *)
(* compared as a whole), or an object, which is a function from its keys   *)
(* to values. A path is the sequence of the keys on the way to a value.    *)
(***************************************************************************)
EXTENDS Naturals, Sequences, FiniteSets

CONSTANTS
    Objects,    \* the objects that are read, the ones inside of others too
    Nesting     \* how many levels each of them has

Null   == [kind |-> "null"]
Absent == [kind |-> "absent"]

\* JSON is finite, and so is how deep it goes.
ASSUME ObjectsAssumption ==
    /\ Nesting \in [Objects -> Nat \ {0}]
    /\ \A o \in Objects :
          /\ IsFiniteSet(DOMAIN o)
          /\ \A key \in DOMAIN o :
                /\ o[key].kind \in {"null", "scalar", "object"}
                /\ o[key].kind = "null" => o[key] = Null
                /\ o[key].kind = "object" =>
                      o[key].value \in Objects /\ Nesting[o[key].value] < Nesting[o]

IsMap(v) == v.kind = "object"

\* What a value holds under a key.
Inside(v, key) == IF IsMap(v) /\ key \in DOMAIN v.value THEN v.value[key] ELSE Absent

\* What an object holds along a path, from itself on.
Along(object, path) ==
    LET at[n \in 0..Len(path)] ==
            IF n = 0 THEN [kind |-> "object", value |-> object]
            ELSE Inside(at[n - 1], path[n])
    IN  at

\* What it holds at the end of the path.
At(object, path) == Along(object, path)[Len(path)]

Attributes == UNION {DOMAIN o : o \in Objects}
Paths == UNION {[1..n -> Attributes] : n \in UNION {1..Nesting[o] : o \in Objects}}

\* The path goes through objects on both sides, to where one of them has none.
Parts(s, l, path) ==
    /\ \A i \in 1..(Len(path) - 1) : IsMap(Along(s, path)[i]) /\ IsMap(Along(l, path)[i])
    /\ ~(IsMap(At(s, path)) /\ IsMap(At(l, path)))
=============================================================================
