----------------------------- MODULE DriftEvents ------------------------------
(***************************************************************************)
(* The store of drift events. Clients read an event, decide, and write it  *)
(* back, resolve or ignore it; a reader pages through those that match a   *)
(* filter, newest first. Each statement is atomic and none is in a         *)
(* transaction with another. When an event was detected is up to whoever   *)
(* creates it: two may have one time, and an older one may come later.     *)
(***************************************************************************)
EXTENDS Nothing, Maps, Tables, Sequences, SequencesExt

CONSTANTS
    Ids,            \* a set of naturals
    Severities,
    Times,          \* what detected_at may be
    Clients,
    MaxWrites       \* bound on the number of writes after the first of an event

ASSUME IdsAssumption == Ids \subseteq Nat

ASSUME SeveritiesAssumption == IsFiniteSet(Severities)

ASSUME TimesAssumption == Times \subseteq Nat

\* A reason is who gave it. An empty one would be none, and is not modelled.
ASSUME ClientsAssumption == Nil \notin Clients

VARIABLES
    events,     \* drift_events: id |-> [severity, status, resolved, resolution, diff]
    detectedAt, \* its column detected_at, which only an insert writes
    copy,       \* client |-> [id, event], the event it read, or Nil
    browse,     \* [filter, phase, total, rows, there, left]: a List, in pages
    writes

eventVars == <<events, detectedAt, copy, browse, writes>>

Event(severity, resolved, resolution, diff) ==
    [severity |-> severity, resolved |-> resolved, resolution |-> resolution, diff |-> diff]

\* Faulty variant: what was given as a resolution decides.
StatusFromReason(event) == IF event.resolution # Nil THEN "resolved" ELSE "open"

StatusOf(event) == IF event.resolved THEN "resolved" ELSE "open"

Row(event) ==
    [severity |-> event.severity, status |-> StatusOf(event), resolved |-> event.resolved,
     resolution |-> event.resolution, diff |-> event.diff]

\* scanDriftEvent: the status is read and dropped.
ScanRow(row) == Event(row.severity, row.resolved, row.resolution, row.diff)

NoBrowse == [filter |-> Nil, phase |-> "idle", total |-> 0, rows |-> <<>>,
             there |-> {}, left |-> {}]

EventsInit ==
    /\ events = EmptyMap /\ detectedAt = EmptyMap
    /\ copy = [c \in Clients |-> Nil]
    /\ browse = NoBrowse
    /\ writes = 0

\* Each time an event stops matching while a reader pages is counted for it.
Leaves(id, now) ==
    browse' = IF /\ browse.phase \in {"counted", "paged"}
                 /\ events[id].status = "open" /\ now # "open"
              THEN [browse EXCEPT !.left = @ \cup {[id |-> id, at |-> writes]}] ELSE browse

\* Events of an earlier scan arrive resolved, the others open. The n-th event that is
\* inserted is called n, which says nothing of its time.
Create(id, severity, resolved, at) ==
    /\ id \notin DOMAIN events /\ {n \in Ids : n < id} \subseteq DOMAIN events
    /\ events' = Put(events, id, Row(Event(severity, resolved, Nil, id)))
    /\ detectedAt' = Put(detectedAt, id, at)
    /\ UNCHANGED <<copy, browse, writes>>

Get(c, id) ==
    /\ id \in DOMAIN events
    /\ copy' = [copy EXCEPT ![c] = [id |-> id, event |-> ScanRow(events[id])]]
    /\ UNCHANGED <<events, detectedAt, browse, writes>>

\* The event as the client changed it: its severity, and whether it is over. That a
\* client takes back a time of resolution it has read is not modelled.
Changed(c, severity, closes) ==
    LET event == [copy[c].event EXCEPT !.severity = severity]
    IN  IF closes THEN [event EXCEPT !.resolved = TRUE, !.resolution = c] ELSE event

\* It is written back whole, as far as the statement goes: not its time.
Update(c, severity, closes) ==
    /\ copy[c] # Nil /\ writes < MaxWrites
    /\ writes' = writes + 1
    /\ events' = [events EXCEPT ![copy[c].id] = Row(Changed(c, severity, closes))]
    /\ Leaves(copy[c].id, StatusOf(Changed(c, severity, closes)))
    /\ copy' = [copy EXCEPT ![c] = Nil]
    /\ UNCHANGED detectedAt

\* Faulty variant: a closed event keeps its status and gets a new reason.
SetReasonOnly(c, id, status) ==
    /\ id \in DOMAIN events /\ writes < MaxWrites
    /\ writes' = writes + 1
    /\ events' = [events EXCEPT ![id].status = status, ![id].resolution = c]
    /\ Leaves(id, status)
    /\ UNCHANGED <<copy, detectedAt>>

\* Resolve and Ignore: the reason is merged into the details. Nothing asks what
\* the status was.
SetTerminalStatus(c, id, status) ==
    /\ id \in DOMAIN events /\ writes < MaxWrites
    /\ writes' = writes + 1
    /\ events' = [events EXCEPT ![id].status = status, ![id].resolved = TRUE,
                                ![id].resolution = c]
    /\ Leaves(id, status)
    /\ UNCHANGED <<copy, detectedAt>>

\* driftFilterClause: a filter gives severities, or {} for all of them, and may
\* ask for open events only.
Selected(filter) ==
    {id \in DOMAIN events :
        /\ filter.severities # {} => events[id].severity \in filter.severities
        /\ filter.unresolvedOnly => events[id].status = "open"}

GetUnresolved == Selected([severities |-> {}, unresolvedOnly |-> TRUE])

GetSummary ==
    LET open(severity) == {id \in GetUnresolved : events[id].severity = severity}
    IN  [severity \in Severities |-> Cardinality(open(severity))]

\* The total of a summary, which is counted up row by row.
SummaryTotal(summary) ==
    LET total[S \in SUBSET Severities] ==
            IF S = {} THEN 0
            ELSE LET severity == CHOOSE s \in S : TRUE
                 IN  summary[severity] + total[S \ {severity}]
    IN  total[Severities]

\* List counts first and selects then: here a page of one event at a time, with
\* the offset of what the reader has.
CountEvents(filter) ==
    /\ browse.phase \in {"idle", "paged"}
    /\ browse' = IF browse.phase = "idle"
                 THEN [filter |-> filter, phase |-> "counted", rows |-> <<>>, left |-> {},
                       total |-> Cardinality(Selected(filter)), there |-> Selected(filter)]
                 ELSE [browse EXCEPT !.phase = "counted",
                                     !.total = Cardinality(Selected(browse.filter))]
    /\ UNCHANGED <<events, detectedAt, copy, writes>>

\* Faulty variant: the offset is one too far.
SelectPastOffset ==
    /\ browse.phase = "counted"
    /\ \E found \in Listings(Selected(browse.filter), detectedAt) :
          LET offset == Len(browse.rows)
          IN  browse' = IF offset + 1 < Len(found)
                        THEN [browse EXCEPT !.phase = "paged", !.rows = Append(@, found[offset + 2])]
                        ELSE [browse EXCEPT !.phase = "read"]
    /\ UNCHANGED <<events, detectedAt, copy, writes>>

SelectEvents ==
    /\ browse.phase = "counted"
    /\ \E found \in Listings(Selected(browse.filter), detectedAt) :
          LET offset == Len(browse.rows)
          IN  browse' = IF offset < Len(found)
                        THEN [browse EXCEPT !.phase = "paged", !.rows = Append(@, found[offset + 1])]
                        ELSE [browse EXCEPT !.phase = "read"]
    /\ UNCHANGED <<events, detectedAt, copy, writes>>

EventsNext ==
    \/ \E id \in Ids, s \in Severities, resolved \in BOOLEAN, at \in Times :
          Create(id, s, resolved, at)
    \/ \E c \in Clients, id \in Ids :
          \/ Get(c, id)
          \/ \E status \in {"resolved", "ignored"} : SetTerminalStatus(c, id, status)
    \/ \E c \in Clients, s \in Severities, closes \in BOOLEAN : Update(c, s, closes)
    \/ CountEvents([severities |-> {}, unresolvedOnly |-> TRUE])
    \/ SelectEvents

EventsSpec == EventsInit /\ [][EventsNext]_eventVars

EventsTypeOK ==
    /\ \A id \in DOMAIN events :
          /\ id \in Ids /\ events[id].severity \in Severities
          /\ events[id].status \in {"open", "resolved", "ignored"}
          /\ events[id].resolution \in Clients \cup {Nil}
    /\ detectedAt \in [DOMAIN events -> Times]
    /\ \A c \in Clients : copy[c] # Nil => copy[c].id \in DOMAIN events
    /\ browse.phase \in {"idle", "counted", "paged", "read"}

-----------------------------------------------------------------------------
(* Properties *)

\* "The status column can never disagree with ResolvedAt" (postgres/drift.go:67):
\* an event is open exactly when it has no time of resolution, whoever wrote it
\* last and from whatever copy, and the diff it was created with is never lost.
OpenIsUnresolved ==
    /\ \A id \in DOMAIN events : events[id].status = "open" <=> ~events[id].resolved
    /\ \A id \in DOMAIN events : events[id].diff = id
    /\ SummaryTotal(GetSummary) = Cardinality(GetUnresolved)

\* A decision is undone by a write from a copy that is older than it, and by
\* nothing else: a closed event opens again, or loses its reason, only when a
\* client had read it open, and an ignored one turns into a resolved one only
\* when somebody resolves it, in place or in a copy, or had read it closed.
DecisionsStick ==
    [][\A id \in DOMAIN events :
          LET had(c) == copy[c] # Nil /\ copy[c].id = id /\ copy'[c] = Nil
              now == events'[id]
          IN  /\ (events[id].status # "open" /\ now.status = "open") =>
                    \E c \in Clients : had(c) /\ ~copy[c].event.resolved
              /\ (events[id].resolution # Nil /\ now.resolution # events[id].resolution) =>
                    \/ now.resolution # Nil
                    \/ \E c \in Clients : had(c) /\ copy[c].event.resolution = Nil
              /\ (events[id].status = "ignored" /\ now.status = "resolved") =>
                    \/ copy' = copy
                    \/ \E c \in Clients :
                          had(c) /\ (copy[c].event.resolved \/ now.resolution = c)]_events

\* A reader that pages through the open events misses at most as many of those
\* that stay open as there were times one was closed under it: each time moves
\* those after it up by one, and the same event may open again and be closed again.
\* That is said of the events whose time no other has. Nothing orders the others
\* among themselves (postgres/drift.go:117), and the pages may miss one of them
\* with nothing closed at all.
PagesMissWhatLeaves ==
    browse.phase = "read" =>
        LET closed == {l.id : l \in browse.left}
            missed == browse.there \ (ToSet(browse.rows) \cup closed)
        IN  Cardinality(missed \cap Untied(DOMAIN events, detectedAt))
                <= Cardinality(browse.left)
=============================================================================
