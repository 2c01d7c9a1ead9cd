---------------------------- MODULE AlertHistory ----------------------------
(***************************************************************************)
(* What `infractl notify` promises its readers, without runs, files or     *)
(* failures: a subject's record moves through openings, and no move is     *)
(* recorded that was not said first, unless a person asked for silence.    *)
(* Nothing is said about an opening once it is recorded, so a message is   *)
(* repeated only when the run that sent it could not record it.            *)
(***************************************************************************)
EXTENDS Integers

CONSTANT Subject

VARIABLES
    record,     \* what is on record about each subject
    told        \* what has been said, [fp, kind, since]

Nil == -1

Unknown == [state |-> "absent", since |-> Nil, aged |-> Nil, hushed |-> Nil]

Init ==
    /\ record = [s \in Subject |-> Unknown]
    /\ told = {}

Said(s, kind, since) == [fp |-> s, kind |-> kind, since |-> since] \in told

\* What may be said while r is the record: the start of a later opening, or
\* the first aging or the end of the one on record.
MaySay(r, kind, since) ==
    \/ kind = "new" /\ r.state \in {"absent", "resolved"} /\ since >= r.since
    \/ kind = "aging" /\ r.state \in {"open", "snoozed"}
                      /\ r.aged = Nil /\ since = r.since
    \/ kind = "resolved" /\ r.state = "open" /\ since = r.since

Say ==
    /\ told \subseteq told'
    /\ \A m \in told' \ told : MaySay(record[m.fp], m.kind, m.since)
    /\ UNCHANGED record

\* r is replaced by q: the subject opens, ages, wakes from a snooze or closes.
Opens(s, r, q) ==
    /\ r.state \in {"absent", "resolved"}
    /\ q = [state |-> "open", since |-> q.since, aged |-> Nil, hushed |-> r.hushed]
    /\ q.since >= r.since
    /\ Said(s, "new", q.since) \/ q.since < r.hushed

Ages(s, r, q) ==
    /\ r.state \in {"open", "snoozed"}
    /\ r.aged = Nil
    /\ q = [state |-> "open", since |-> r.since, aged |-> q.aged, hushed |-> r.hushed]
    /\ q.aged > r.since
    /\ Said(s, "aging", r.since) \/ q.aged < r.hushed

Wakes(r, q) ==
    /\ r.state = "snoozed"
    /\ q = [r EXCEPT !.state = "open"]

Closes(s, r, q) ==
    /\ r.state = "open"
    /\ q = [r EXCEPT !.state = "resolved"]
    /\ Said(s, "resolved", r.since)

Moves(s, r, q) ==
    \/ q = r
    \/ Opens(s, r, q)
    \/ Ages(s, r, q)
    \/ Wakes(r, q)
    \/ Closes(s, r, q)

\* Any number of subjects move at once.
Record ==
    /\ record' = [s \in Subject |-> record'[s]]
    /\ \A s \in Subject : Moves(s, record[s], record'[s])
    /\ UNCHANGED told

\* A person snoozes an open subject.
Hush(s) ==
    /\ record[s].state = "open"
    /\ record' = [record EXCEPT ![s].state = "snoozed",
                                ![s].hushed = record'[s].hushed]
    /\ UNCHANGED told

Next ==
    \/ Say
    \/ Record
    \/ \E s \in Subject : Hush(s)

Spec == Init /\ [][Next]_<<record, told>>

=============================================================================
