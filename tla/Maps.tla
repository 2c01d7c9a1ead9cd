---------------------------------- MODULE Maps ---------------------------------
(***************************************************************************)
(* A map of the program is a function; its domain is the keys that are set. *)
(***************************************************************************)
EmptyMap == [key \in {} |-> {}]

\* map[key] = value
Put(map, key, value) ==
    [k \in DOMAIN map \cup {key} |-> IF k = key THEN value ELSE map[k]]
=============================================================================
