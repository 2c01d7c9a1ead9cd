-------------------------------- MODULE Lease ---------------------------------
(***************************************************************************)
(* What a lock that is held for a time promises the processes that use it, *)
(* without keys, values or lost messages: it is given to one at a time,    *)
(* nobody takes it from its holder but time, and who lost it does not get  *)
(* it back. It may be given away with nobody knowing; only time frees it   *)
(* then.                                                                   *)
(***************************************************************************)
CONSTANT Users

VARIABLES
    hold,       \* user |-> none, held, or over: it thinks that it holds the lock
    stranded    \* whether it was given away with nobody knowing

leaseVars == <<hold, stranded>>

Init ==
    /\ hold = [u \in Users |-> "none"]
    /\ stranded = FALSE

Free == ~stranded /\ \A u \in Users : hold[u] # "held"

Grant(u) ==
    /\ Free /\ hold[u] = "none"
    /\ hold' = [hold EXCEPT ![u] = "held"]
    /\ UNCHANGED stranded

Strand == Free /\ stranded' = TRUE /\ UNCHANGED hold

\* Its holder is done with it.
GiveBack(u) ==
    /\ hold[u] = "held"
    /\ hold' = [hold EXCEPT ![u] = "none"]
    /\ UNCHANGED stranded

\* The lease ends without its holder's knowing: its time is up, or the answer to
\* its release was lost.
RunOut(u) ==
    /\ hold[u] = "held"
    /\ hold' = [hold EXCEPT ![u] = "over"]
    /\ UNCHANGED stranded

\* Who thinks it still has it learns otherwise.
Learn(u) ==
    /\ hold[u] = "over"
    /\ hold' = [hold EXCEPT ![u] = "none"]
    /\ UNCHANGED stranded

Recover == stranded /\ stranded' = FALSE /\ UNCHANGED hold

Next ==
    \/ \E u \in Users : Grant(u) \/ GiveBack(u) \/ RunOut(u) \/ Learn(u)
    \/ Strand \/ Recover

Spec == Init /\ [][Next]_leaseVars
=============================================================================
