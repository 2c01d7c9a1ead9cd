------------------------------- MODULE EventBus -------------------------------
(***************************************************************************)
(* The event bus over NATS, which delivers at most once: what is published *)
(* goes to every subscriber of a subject and to one member of each queue   *)
(* group, in order, unless it is lost. A handler failure is logged, or, by *)
(* ProcessWithDLQ, published to another subject, whose error is dropped.   *)
(***************************************************************************)
EXTENDS FiniteSets, Naturals, Sequences, SequencesExt

CONSTANTS
    Messages,       \* what is published, each once: [id, decodable]
    Subscribers,    \* subscriber |-> its queue group, or itself
    MaxPublished    \* bound on the messages published

ASSUME SubscribersAssumption == IsFiniteSet(DOMAIN Subscribers)

VARIABLES
    published,  \* the messages the bus took, in order
    inbox,      \* subscriber |-> the messages on their way to it
    outcome,    \* subscriber |-> what it did, [message, result] in order
    deadLetters \* what the dead letter subject took

busVars == <<published, inbox, outcome, deadLetters>>

Groups == {Subscribers[s] : s \in DOMAIN Subscribers}

BusInit ==
    /\ published = <<>>
    /\ inbox = [s \in DOMAIN Subscribers |-> <<>>]
    /\ outcome = [s \in DOMAIN Subscribers |-> <<>>]
    /\ deadLetters = <<>>

\* One member of each group gets it; one that cannot be serialised, or that the
\* connection refuses, is an error of the publisher and goes nowhere.
Publish(m) ==
    /\ m \notin ToSet(published) /\ Len(published) < MaxPublished
    /\ published' = Append(published, m)
    /\ \E chosen \in {c \in [Groups -> DOMAIN Subscribers] : \A g \in Groups : Subscribers[c[g]] = g} :
          inbox' = [s \in DOMAIN Subscribers |->
                       IF s = chosen[Subscribers[s]] THEN Append(inbox[s], m) ELSE inbox[s]]
    /\ UNCHANGED <<outcome, deadLetters>>

\* A slow subscriber, or a lost connection.
Lose(s) ==
    /\ inbox[s] # <<>>
    /\ inbox' = [inbox EXCEPT ![s] = Tail(@)]
    /\ UNCHANGED <<published, outcome, deadLetters>>

Took(s, result) ==
    /\ inbox' = [inbox EXCEPT ![s] = Tail(@)]
    /\ outcome' = [outcome EXCEPT ![s] = Append(@, [message |-> Head(inbox[s]), result |-> result])]
    /\ UNCHANGED published

\* What does not decode reaches no handler and no dead letter subject.
Undecodable(s) ==
    /\ inbox[s] # <<>> /\ ~Head(inbox[s]).decodable
    /\ Took(s, "dropped")
    /\ UNCHANGED deadLetters

Handle(s) ==
    /\ inbox[s] # <<>> /\ Head(inbox[s]).decodable
    /\ Took(s, "handled")
    /\ UNCHANGED deadLetters

\* Faulty variant: a message that failed is delivered again as well.
FailAndRedeliver(s, accepted) ==
    /\ inbox[s] # <<>> /\ Head(inbox[s]).decodable
    /\ outcome' = [outcome EXCEPT ![s] = Append(@, [message |-> Head(inbox[s]), result |-> "failed"])]
    /\ deadLetters' = Append(deadLetters, Head(inbox[s]))
    /\ UNCHANGED <<published, inbox>>

\* ProcessWithDLQ. The second publication may fail, and then the event is gone.
FailHandler(s, accepted) ==
    /\ inbox[s] # <<>> /\ Head(inbox[s]).decodable
    /\ Took(s, IF accepted THEN "failed" ELSE "lost")
    /\ deadLetters' = IF accepted THEN Append(deadLetters, Head(inbox[s])) ELSE deadLetters

BusNext ==
    \/ \E m \in Messages : Publish(m)
    \/ \E s \in DOMAIN Subscribers :
          \/ Lose(s) \/ Undecodable(s) \/ Handle(s)
          \/ \E accepted \in BOOLEAN : FailHandler(s, accepted)

BusSpec == BusInit /\ [][BusNext]_busVars

BusTypeOK ==
    /\ ToSet(published) \subseteq Messages
    /\ \A s \in DOMAIN Subscribers :
          /\ ToSet(inbox[s]) \subseteq ToSet(published)
          /\ \A i \in DOMAIN outcome[s] :
                outcome[s][i].result \in {"dropped", "handled", "failed", "lost"}

-----------------------------------------------------------------------------
(* Properties *)

Taken(s) == [i \in DOMAIN outcome[s] |-> outcome[s][i].message]

KeepsOrder(small, large) ==
    \A i, j \in DOMAIN small : i < j =>
        \E k, l \in DOMAIN large : k < l /\ large[k] = small[i] /\ large[l] = small[j]

\* A queue group shares the load (events/bus.go:18): no message is taken by two of
\* its members, and each takes its own in the order they were published. A dead
\* letter is a message whose handler failed, one for each failure that was not
\* lost on the way; what does not decode is never one (events/subscriber.go:31).
EachTakenOnce ==
    /\ \A s, t \in DOMAIN Subscribers :
          (s # t /\ Subscribers[s] = Subscribers[t]) =>
              ToSet(Taken(s)) \cap ToSet(Taken(t)) = {}
    /\ \A s \in DOMAIN Subscribers : KeepsOrder(Taken(s) \o inbox[s], published)
    /\ \A m \in Messages :
          Cardinality({i \in DOMAIN deadLetters : deadLetters[i] = m}) =
              Cardinality({s \in DOMAIN Subscribers :
                  \E i \in DOMAIN outcome[s] : outcome[s][i] = [message |-> m, result |-> "failed"]})
=============================================================================
