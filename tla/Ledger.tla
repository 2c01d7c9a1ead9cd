------------------------------- MODULE Ledger -------------------------------
(***************************************************************************)
(* The finding ledger of internal/notify: what Reconcile does to a record, *)
(* which events it returns, and which of them the router lets through.     *)
(* Everything here is a function of its arguments; the state machine that  *)
(* loads, delivers and saves is in NotifyRun.                              *)
(***************************************************************************)
EXTENDS Integers

CONSTANTS
    Finding,        \* every finding a drift scan may report
    AgingAfter,     \* --aging-days
    RenotifyAfter   \* --renotify-days

\* A nil *time.Time.
Nil == -1

Time == Nat

Kinds == {"missing_in_live", "modified", "unmanaged"}
Severities == {"critical", "high", "medium", "low", "info"}

\* The zero string stands for the dimension Reconcile leaves empty on the
\* finding it rebuilds for a resolved event.
Dimensions == {"security", "reliability", ""}

ASSUME FindingAssumption ==
    \A f \in Finding :
        /\ f = [address  |-> f.address,  kind      |-> f.kind,
                paths    |-> f.paths,    severity  |-> f.severity,
                dimension |-> f.dimension]
        /\ f.kind \in Kinds
        /\ f.severity \in Severities
        /\ f.dimension \in Dimensions

\* A threshold of zero or less is replaced by the seven day default, in
\* Reconcile and in NewRouter, before either is used.
ASSUME ThresholdAssumption ==
    /\ AgingAfter \in Nat \ {0}
    /\ RenotifyAfter \in Nat \ {0}

\* The identity of a finding: where it is, what kind it is and which attribute
\* paths moved; neither the values nor the severity.
Fingerprint(f) == [address |-> f.address, kind |-> f.kind, paths |-> f.paths]

Fingerprints == {Fingerprint(f) : f \in Finding}

States == {"open", "resolved", "suppressed", "snoozed"}

Entry == [state        : States \cup {"absent"},
          severity     : Severities,
          firstSeen    : Time \cup {Nil},
          lastSeen     : Time \cup {Nil},
          notified     : Time \cup {Nil},
          agedAt       : Time \cup {Nil},
          snoozedUntil : Time \cup {Nil}]

\* What a fingerprint maps to when the ledger has no line for it.
Absent == [state |-> "absent", severity |-> "info", firstSeen |-> Nil,
           lastSeen |-> Nil, notified |-> Nil, agedAt |-> Nil,
           snoozedUntil |-> Nil]

Ledgers == [Fingerprints -> Entry]

EmptyLedger == [fp \in Fingerprints |-> Absent]

-----------------------------------------------------------------------------
(* Reconcile *)

Present(findings, fp) == \E f \in findings : Fingerprint(f) = fp

FindingOf(findings, fp) == CHOOSE f \in findings : Fingerprint(f) = fp

\* Whether seeing the finding starts a new opening of it: there is no record,
\* or the record says it was resolved.
Opens(e) == e.state \in {"absent", "resolved"}

\* The record crosses the aging threshold with this scan, for the first time
\* since it was opened.
Ages(e, now) ==
    /\ ~Opens(e)
    /\ now - e.firstSeen >= AgingAfter
    /\ e.agedAt = Nil

\* Faulty variants of SeenEntry, against which the properties are tried: an
\* opening is recorded in a state called new; a reopened record stays resolved.
SeenEntryNew(e, severity, now) ==
    [e EXCEPT !.state     = IF Opens(e) THEN "new" ELSE "open",
              !.severity  = severity,
              !.lastSeen  = now,
              !.firstSeen = IF Opens(e) THEN now ELSE @]

SeenEntryStaysResolved(e, severity, now) ==
    [e EXCEPT !.state     = IF e.state = "resolved" THEN @ ELSE "open",
              !.severity  = severity,
              !.lastSeen  = now,
              !.firstSeen = IF Opens(e) THEN now ELSE @]

\* The record after a scan that reports the finding. Reopening keeps the time
\* of the last notification and the snooze.
SeenEntry(e, severity, now) ==
    [e EXCEPT !.state     = "open",
              !.severity  = severity,
              !.lastSeen  = now,
              !.firstSeen = IF Opens(e) THEN now ELSE @,
              !.agedAt    = IF Opens(e) THEN Nil
                            ELSE IF Ages(e, now) THEN now ELSE @]

\* Faulty variants: a snoozed record is resolved too; an aged one never is.
UnseenEntrySnoozedToo(e, now) ==
    IF e.state \in {"open", "snoozed"}
    THEN [e EXCEPT !.state = "resolved", !.lastSeen = now]
    ELSE e

UnseenEntryNotAged(e, now) ==
    IF e.state = "open" /\ e.agedAt = Nil
    THEN [e EXCEPT !.state = "resolved", !.lastSeen = now]
    ELSE e

\* The record after a scan that does not. Only an open record is resolved: a
\* snoozed one stays as it is.
UnseenEntry(e, now) ==
    IF e.state = "open"
    THEN [e EXCEPT !.state = "resolved", !.lastSeen = now]
    ELSE e

Reconcile(ledger, findings, now) ==
    [fp \in Fingerprints |->
        IF Present(findings, fp)
        THEN SeenEntry(ledger[fp], FindingOf(findings, fp).severity, now)
        ELSE UnseenEntry(ledger[fp], now)]

\* The kind of event the scan raises about a record, "none" when nothing about
\* it changed.
EventKind(e, present, now) ==
    CASE present /\ Opens(e)            -> "new"
      [] present /\ Ages(e, now)        -> "aging"
      [] ~present /\ e.state = "open"   -> "resolved"
      [] OTHER                          -> "none"

-----------------------------------------------------------------------------
(* Router *)

\* The default policy: a new critical security finding pages, any other new
\* critical or high one notifies, and the digest rule matches everything.
Tier(kind, severity, dimension) ==
    LET pages == severity = "critical" /\ dimension = "security"
    IN  CASE kind = "new" /\ pages -> "page"
          [] kind = "new" /\ ~pages /\ severity \in {"critical", "high"} -> "notify"
          [] OTHER -> "digest"

\* Faulty variants: the re-notify window holds back new events; it holds back
\* resolved events; it is one unit too long.
SuppressedNewToo(kind, e, now) ==
    /\ kind # "resolved"
    /\ e.notified # Nil
    /\ now - e.notified < RenotifyAfter

SuppressedResolvedToo(kind, e, now) ==
    /\ kind # "new"
    /\ e.notified # Nil
    /\ now - e.notified < RenotifyAfter

SuppressedTooLong(kind, e, now) ==
    /\ kind # "resolved"
    /\ \/ now < e.snoozedUntil
       \/ /\ kind # "new"
          /\ e.notified # Nil
          /\ now - e.notified <= RenotifyAfter

\* Why an event is held back. e is the record as Reconcile left it. Nothing
\* holds back a resolved event, and the re-notify window never holds back a
\* new one.
Suppressed(kind, e, now) ==
    /\ kind # "resolved"
    /\ \/ now < e.snoozedUntil
       \/ e.state = "suppressed"
       \/ /\ kind # "new"
          /\ e.notified # Nil
          /\ now - e.notified < RenotifyAfter

\* The tier of the event about fp, routed with the finding's severity and
\* dimension. A finding that is gone is rebuilt from its record e, which has
\* the severity and no dimension.
TierOf(e, findings, fp, kind) ==
    IF Present(findings, fp)
    THEN Tier(kind, FindingOf(findings, fp).severity, FindingOf(findings, fp).dimension)
    ELSE Tier(kind, e.severity, "")

\* The deliverable decisions of a scan: before is the ledger that was loaded.
Decisions(before, findings, now) ==
    LET after    == Reconcile(before, findings, now)
        kind(fp) == EventKind(before[fp], Present(findings, fp), now)
    IN  {[fp |-> fp, kind |-> kind(fp), tier |-> TierOf(before[fp], findings, fp, kind(fp))] :
            fp \in {x \in Fingerprints :
                        /\ kind(x) # "none"
                        /\ ~Suppressed(kind(x), after[x], now)}}

\* Decisions are delivered in groups that share a tier, an event kind and a
\* finding kind.
GroupKey(d) == <<d.tier, d.kind, d.fp.kind>>

\* The order groups are delivered in: loudest tier first, then by the key's
\* text, which sorts the event kinds and then the finding kinds by name.
GroupRank(k) ==
    LET tier    == [page |-> 0, notify |-> 1, digest |-> 2]
        event   == [aging |-> 0, new |-> 1, resolved |-> 2]
        finding == [missing_in_live |-> 0, modified |-> 1, unmanaged |-> 2]
    IN  9 * tier[k[1]] + 3 * event[k[2]] + finding[k[3]]

\* MarkNotified for every member of a delivered group.
MarkNotified(ledger, fps, at) ==
    [fp \in Fingerprints |->
        IF fp \in fps THEN [ledger[fp] EXCEPT !.notified = at] ELSE ledger[fp]]

=============================================================================
