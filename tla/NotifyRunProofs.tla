--------------------------- MODULE NotifyRunProofs ---------------------------
(***************************************************************************)
(* Proofs about NotifyRun, for every set of findings, every threshold and  *)
(* every pattern of failures.                                              *)
(***************************************************************************)
EXTENDS NotifyRun, TLAPS

USE FindingAssumption, ThresholdAssumption, InvocationAssumption, ClockAssumption

-----------------------------------------------------------------------------
(* What the operators of Ledger return *)

LEMMA EmptyLedgerType == EmptyLedger \in Ledgers
  BY DEF EmptyLedger, Ledgers, Absent, Entry, Severities, States, Time, Nil

LEMMA FindingOfPresent ==
  ASSUME NEW findings \in SUBSET Finding, NEW fp, Present(findings, fp)
  PROVE  /\ FindingOf(findings, fp) \in findings
         /\ Fingerprint(FindingOf(findings, fp)) = fp
         /\ FindingOf(findings, fp).severity \in Severities
  <1>1. /\ FindingOf(findings, fp) \in findings
        /\ Fingerprint(FindingOf(findings, fp)) = fp
    BY DEF Present, FindingOf
  <1>2. QED
    BY <1>1

LEMMA SeenEntryType ==
  ASSUME NEW e \in Entry, NEW severity \in Severities, NEW t \in Time
  PROVE  SeenEntry(e, severity, t) \in Entry
  <1> DEFINE first == IF Opens(e) THEN t ELSE e.firstSeen
             aged == IF Opens(e) THEN Nil ELSE IF Ages(e, t) THEN t ELSE e.agedAt
  <1>1. /\ e.firstSeen \in Time \cup {Nil}
        /\ e.agedAt \in Time \cup {Nil}
    BY DEF Entry
  <1>2. first \in Time \cup {Nil} /\ aged \in Time \cup {Nil}
    BY <1>1
  <1>3. SeenEntry(e, severity, t) =
          [e EXCEPT !.state = "open", !.severity = severity, !.lastSeen = t,
                    !.firstSeen = first, !.agedAt = aged]
    BY <1>1 DEF SeenEntry, Entry
  <1>4. "open" \in States
    BY DEF States
  <1> HIDE DEF first, aged
  <1>5. QED
    BY <1>2, <1>3, <1>4 DEF Entry

LEMMA UnseenEntryType ==
  ASSUME NEW e \in Entry, NEW t \in Time
  PROVE  UnseenEntry(e, t) \in Entry
  BY DEF UnseenEntry, Entry, States

LEMMA NotifiedOnly ==
  ASSUME NEW e \in Entry, NEW v, NEW w, NEW d,
         d = [e EXCEPT !.notified = v]
  PROVE  [d EXCEPT !.notified = w] = [e EXCEPT !.notified = w]
  BY DEF Entry

LEMMA ReconcileType ==
  ASSUME NEW l \in Ledgers, NEW findings \in SUBSET Finding, NEW t \in Time
  PROVE  Reconcile(l, findings, t) \in Ledgers
  <1>1. ASSUME NEW fp \in Fingerprints
        PROVE  Reconcile(l, findings, t)[fp] \in Entry
    <2>1. l[fp] \in Entry
      BY DEF Ledgers
    <2>2. QED
      BY <2>1, FindingOfPresent, SeenEntryType, UnseenEntryType DEF Reconcile
  <1>2. QED
    BY <1>1 DEF Reconcile, Ledgers

LEMMA MarkNotifiedType ==
  ASSUME NEW l \in Ledgers, NEW fps, NEW t \in Time
  PROVE  MarkNotified(l, fps, t) \in Ledgers
  BY DEF MarkNotified, Ledgers, Entry

LEMMA EventKindRange ==
  ASSUME NEW e, NEW present \in BOOLEAN, NEW t
  PROVE  EventKind(e, present, t) \in {"new", "aging", "resolved", "none"}
  BY DEF EventKind, Opens, Ages

LEMMA TierRange ==
  ASSUME NEW kind, NEW severity, NEW dimension
  PROVE  Tier(kind, severity, dimension) \in {"page", "notify", "digest"}
  BY DEF Tier

LEMMA DecisionsType ==
  ASSUME NEW l, NEW findings \in SUBSET Finding, NEW t
  PROVE  Decisions(l, findings, t) \subseteq DecisionSet
  <1>1. ASSUME NEW fp
        PROVE  /\ EventKind(l[fp], Present(findings, fp), t)
                    \in {"new", "aging", "resolved", "none"}
               /\ \A e, k : TierOf(e, findings, fp, k) \in {"page", "notify", "digest"}
    <2>1. Present(findings, fp) \in BOOLEAN
      BY DEF Present
    <2>2. QED
      BY <2>1, EventKindRange, TierRange DEF TierOf
  <1>2. QED
    BY <1>1 DEF Decisions, DecisionSet

-----------------------------------------------------------------------------
(* What one scan does to one record *)

LEMMA WellFormedLater ==
  ASSUME NEW e \in Entry, NEW t \in Time, NEW u \in Time, t <= u, WellFormed(e, t)
  PROVE  WellFormed(e, u)
  BY DEF WellFormed, Entry, Time, Nil

\* Each kind of event goes with one move of the record, and a scan that raises
\* no event at most wakes a snoozed record. n is the notification mark, which
\* only a delivered event moves.
LEMMA RecordMoves ==
  ASSUME NEW e \in Entry, NEW t \in Time, WellFormed(e, t),
         NEW severity \in Severities, NEW present \in BOOLEAN,
         NEW r, r = IF present THEN SeenEntry(e, severity, t) ELSE UnseenEntry(e, t),
         NEW kind, kind = EventKind(e, present, t),
         NEW n \in {e.notified, t}, n = e.notified \/ kind # "none",
         NEW q, q = [r EXCEPT !.notified = n]
  PROVE  /\ WellFormed(q, t)
         /\ q.snoozedUntil = e.snoozedUntil
         /\ kind = "new" =>
              /\ e.state \in {"absent", "resolved"}
              /\ q.state = "open" /\ q.firstSeen = t /\ q.agedAt = Nil
              /\ Suppressed(kind, r, t) => t < e.snoozedUntil
         /\ kind = "aging" =>
              /\ e.state \in {"open", "snoozed"} /\ e.agedAt = Nil /\ t > e.firstSeen
              /\ q.state = "open" /\ q.firstSeen = e.firstSeen /\ q.agedAt = t
              /\ Suppressed(kind, r, t) /\ AgingOutlastsWindow => t < e.snoozedUntil
         /\ kind = "resolved" =>
              /\ e.state = "open" /\ q.state = "resolved"
              /\ q.firstSeen = e.firstSeen /\ q.agedAt = e.agedAt
              /\ ~Suppressed(kind, r, t)
         /\ kind = "none" =>
              /\ q.state = e.state \/ (e.state = "snoozed" /\ q.state = "open")
              /\ q.firstSeen = e.firstSeen /\ q.agedAt = e.agedAt
  <1> USE DEF Entry, States, Time, Nil
  <1>1. CASE present /\ Opens(e)
    <2>1. kind = "new" BY <1>1 DEF EventKind, Ages
    <2>2. r = SeenEntry(e, severity, t) BY <1>1
    <2>3. /\ r.state = "open" /\ r.firstSeen = t /\ r.agedAt = Nil
          /\ r.notified = e.notified /\ r.snoozedUntil = e.snoozedUntil
      BY <1>1, <2>2 DEF SeenEntry
    <2>4. /\ q.state = "open" /\ q.firstSeen = t /\ q.agedAt = Nil
          /\ q.notified = n /\ q.snoozedUntil = e.snoozedUntil
      BY <2>2, <2>3 DEF SeenEntry
    <2>5. WellFormed(q, t)
      BY <2>4 DEF WellFormed
    <2>6. QED
      BY <1>1, <2>1, <2>3, <2>4, <2>5 DEF Opens, Suppressed
  <1>2. CASE present /\ Ages(e, t)
    <2>1. kind = "aging" BY <1>2 DEF EventKind, Ages
    <2>2. r = SeenEntry(e, severity, t) BY <1>2
    <2>3. /\ e.state \in {"open", "snoozed"} /\ e.agedAt = Nil /\ t > e.firstSeen
          /\ e.firstSeen \in Time /\ t - e.firstSeen >= AgingAfter
      BY <1>2 DEF Ages, Opens, WellFormed
    <2>4. r.notified = e.notified /\ r.snoozedUntil = e.snoozedUntil /\ r.state = "open"
      BY <2>2 DEF SeenEntry
    <2>5. Suppressed(kind, r, t) /\ AgingOutlastsWindow => t < e.snoozedUntil
      BY <2>1, <2>3, <2>4 DEF Suppressed, AgingOutlastsWindow, WellFormed
    <2>6. /\ WellFormed(q, t) /\ q.snoozedUntil = e.snoozedUntil
          /\ q.state = "open" /\ q.firstSeen = e.firstSeen /\ q.agedAt = t
      BY <1>2, <2>2, <2>3 DEF SeenEntry, Ages, WellFormed
    <2>7. QED BY <2>1, <2>3, <2>5, <2>6
  <1>3. CASE present /\ ~Opens(e) /\ ~Ages(e, t)
    <2>1. kind = "none" BY <1>3 DEF EventKind
    <2>2. r = SeenEntry(e, severity, t) BY <1>3
    <2>3. QED
      BY <1>3, <2>1, <2>2 DEF Opens, SeenEntry, WellFormed
  <1>4. CASE ~present /\ e.state = "open"
    <2>1. kind = "resolved" BY <1>4 DEF EventKind
    <2>2. r = UnseenEntry(e, t) BY <1>4
    <2>3. QED
      BY <1>4, <2>1, <2>2 DEF UnseenEntry, WellFormed, Suppressed
  <1>5. CASE ~present /\ e.state # "open"
    <2>1. kind = "none" BY <1>5 DEF EventKind
    <2>2. r = e BY <1>5 DEF UnseenEntry
    <2>3. QED
      BY <1>5, <2>1, <2>2 DEF WellFormed
  <1>6. QED
    BY <1>1, <1>2, <1>3, <1>4, <1>5

-----------------------------------------------------------------------------
(* The run in flight *)

\* What the fold in flight does to the record of fp, and says about it.
Folded(fp) == Reconcile(disk, scan, at)[fp]

KindAt(fp) == EventKind(disk[fp], Present(scan, fp), at)

LEMMA DecisionsInFlight ==
  /\ \A d \in Decisions(disk, scan, at) :
        /\ d.fp \in Fingerprints
        /\ d.kind = KindAt(d.fp)
        /\ d.kind # "none"
        /\ ~Suppressed(d.kind, Folded(d.fp), at)
  /\ \A fp \in Fingerprints :
        KindAt(fp) # "none" /\ ~Suppressed(KindAt(fp), Folded(fp), at) =>
            \E d \in Decisions(disk, scan, at) : d.fp = fp /\ d.kind = KindAt(fp)
  <1> DEFINE Raised == {x \in Fingerprints :
                          KindAt(x) # "none" /\ ~Suppressed(KindAt(x), Folded(x), at)}
             D(x) == [fp |-> x, kind |-> KindAt(x), tier |-> TierOf(disk[x], scan, x, KindAt(x))]
  <1>1. Decisions(disk, scan, at) = {D(x) : x \in Raised}
    BY DEF Decisions, KindAt, Folded
  <1>2. \A x : D(x).fp = x /\ D(x).kind = KindAt(x)
    OBVIOUS
  <1> HIDE DEF D
  <1>3. ASSUME NEW d \in Decisions(disk, scan, at)
        PROVE  /\ d.fp \in Fingerprints
               /\ d.kind = KindAt(d.fp)
               /\ d.kind # "none"
               /\ ~Suppressed(d.kind, Folded(d.fp), at)
    <2>1. PICK x \in Raised : d = D(x)
      BY <1>1
    <2>2. QED
      BY <2>1, <1>2
  <1>4. ASSUME NEW fp \in Raised
        PROVE  \E d \in Decisions(disk, scan, at) : d.fp = fp /\ d.kind = KindAt(fp)
    BY <1>1, <1>2
  <1>5. QED
    BY <1>3, <1>4

\* The record a run is about to write, against the one on disk.
LEMMA FlightMoves ==
  ASSUME RunInv, pc = "delivering", NEW fp \in Fingerprints
  PROVE  LET e    == disk[fp]
             q    == ledger[fp]
             kind == KindAt(fp)
         IN  /\ e \in Entry /\ q \in Entry /\ at \in Time
             /\ WellFormed(e, at) /\ WellFormed(q, at)
             /\ q.snoozedUntil = e.snoozedUntil
             /\ kind \in {"new", "aging", "resolved", "none"}
             /\ kind = "new" =>
                  /\ e.state \in {"absent", "resolved"}
                  /\ q.state = "open" /\ q.firstSeen = at /\ q.agedAt = Nil
                  /\ Suppressed(kind, Folded(fp), at) => at < e.snoozedUntil
             /\ kind = "aging" =>
                  /\ e.state \in {"open", "snoozed"} /\ e.agedAt = Nil /\ at > e.firstSeen
                  /\ q.state = "open" /\ q.firstSeen = e.firstSeen /\ q.agedAt = at
                  /\ Suppressed(kind, Folded(fp), at) /\ AgingOutlastsWindow
                        => at < e.snoozedUntil
             /\ kind = "resolved" =>
                  /\ e.state = "open" /\ q.state = "resolved"
                  /\ q.firstSeen = e.firstSeen /\ q.agedAt = e.agedAt
                  /\ ~Suppressed(kind, Folded(fp), at)
             /\ kind = "none" =>
                  /\ q.state = e.state \/ (e.state = "snoozed" /\ q.state = "open")
                  /\ q.firstSeen = e.firstSeen /\ q.agedAt = e.agedAt
  <1> DEFINE e == disk[fp]
             q == ledger[fp]
             present == Present(scan, fp)
             severity == IF present THEN FindingOf(scan, fp).severity ELSE "info"
  <1>1. /\ e \in Entry /\ q \in Entry /\ at \in Time
        /\ scan \in SUBSET Finding /\ WellFormed(e, at)
    BY DEF RunInv, InFlight, TypeOK, Ledgers
  <1>2. severity \in Severities
    BY <1>1, FindingOfPresent DEF Severities
  <1>3. Folded(fp) = IF present THEN SeenEntry(e, severity, at) ELSE UnseenEntry(e, at)
    BY DEF Folded, Reconcile
  <1>4. q = [Folded(fp) EXCEPT !.notified = q.notified]
    BY DEF RunInv, InFlight, Folded
  <1>5. /\ q.notified \in {e.notified, at}
        /\ q.notified = e.notified \/ KindAt(fp) # "none"
    <2>1. \/ q.notified = e.notified
          \/ q.notified = at /\ \E d \in Decisions(disk, scan, at) : d.fp = fp
      BY DEF RunInv, InFlight
    <2>2. QED
      BY <2>1, DecisionsInFlight
  <1>6. present \in BOOLEAN
    BY DEF Present
  <1>7. KindAt(fp) \in {"new", "aging", "resolved", "none"}
    BY <1>6, EventKindRange DEF KindAt
  <1>8. KindAt(fp) = EventKind(e, present, at)
    BY DEF KindAt
  <1> HIDE DEF e, q, present, severity
  <1>9. /\ WellFormed(q, at)
        /\ q.snoozedUntil = e.snoozedUntil
        /\ KindAt(fp) = "new" =>
             /\ e.state \in {"absent", "resolved"}
             /\ q.state = "open" /\ q.firstSeen = at /\ q.agedAt = Nil
             /\ Suppressed(KindAt(fp), Folded(fp), at) => at < e.snoozedUntil
        /\ KindAt(fp) = "aging" =>
             /\ e.state \in {"open", "snoozed"} /\ e.agedAt = Nil /\ at > e.firstSeen
             /\ q.state = "open" /\ q.firstSeen = e.firstSeen /\ q.agedAt = at
             /\ Suppressed(KindAt(fp), Folded(fp), at) /\ AgingOutlastsWindow
                   => at < e.snoozedUntil
        /\ KindAt(fp) = "resolved" =>
             /\ e.state = "open" /\ q.state = "resolved"
             /\ q.firstSeen = e.firstSeen /\ q.agedAt = e.agedAt
             /\ ~Suppressed(KindAt(fp), Folded(fp), at)
        /\ KindAt(fp) = "none" =>
             /\ q.state = e.state \/ (e.state = "snoozed" /\ q.state = "open")
             /\ q.firstSeen = e.firstSeen /\ q.agedAt = e.agedAt
    BY <1>1, <1>2, <1>3, <1>4, <1>5, <1>6, <1>8, RecordMoves
  <1>10. QED
    BY <1>1, <1>7, <1>9 DEF e, q

\* What a delivered decision says names a time: the opening it is about.
LEMMA PendingMessages ==
  ASSUME RunInv, pc = "delivering", NEW k
  PROVE  /\ \A d \in pending : ledger[d.fp].firstSeen \in Time
         /\ {Message(d) : d \in Members(k)} \in SUBSET Messages
  <1>1. ASSUME NEW d \in pending
        PROVE  /\ d.fp \in Fingerprints
               /\ ledger[d.fp].firstSeen \in Time
    <2>1. d \in Decisions(disk, scan, at)
      BY DEF RunInv, InFlight
    <2>2. d.fp \in Fingerprints /\ KindAt(d.fp) # "none"
      BY <2>1, DecisionsInFlight
    <2>3. QED
      BY <2>2, FlightMoves DEF WellFormed
  <1>2. \A d \in pending : d.fp \in Fingerprints /\ d.kind \in {"new", "aging", "resolved"}
    BY DEF RunInv, TypeOK, DecisionSet
  <1>3. QED
    BY <1>1, <1>2 DEF Members, Message, Messages

-----------------------------------------------------------------------------
(* RunInv is inductive *)

LEMMA RunInvInit == Init => RunInv
  <1> SUFFICES ASSUME Init PROVE RunInv
    OBVIOUS
  <1>1. TypeOK
    BY EmptyLedgerType DEF Init, TypeOK, NoFlags, Time
  <1>2. \A fp \in Fingerprints : WellFormed(disk[fp], now)
    BY DEF Init, EmptyLedger, Absent, WellFormed, Nil
  <1>3. QED
    BY <1>1, <1>2 DEF Init, RunInv

\* Ending a run leaves only the file to account for.
LEMMA RunInvEnd ==
  ASSUME RunInv, EndRun, UNCHANGED <<now, world>>,
         disk' \in Ledgers, \A fp \in Fingerprints : WellFormed(disk'[fp], now),
         sent' \in SUBSET Messages
  PROVE  RunInv'
  <1>1. TypeOK'
    BY EmptyLedgerType DEF RunInv, TypeOK, EndRun, NoFlags, Time, world
  <1>2. pc' # "delivering"
    BY DEF EndRun
  <1>3. QED
    BY <1>1, <1>2 DEF RunInv

LEMMA RunInvFold ==
  ASSUME RunInv, Fold
  PROVE  RunInv'
  <1>1. TypeOK'
    BY ReconcileType, DecisionsType DEF RunInv, TypeOK, Fold, world
  <1>2. ASSUME NEW fp \in Fingerprints
        PROVE  /\ ledger'[fp] \in Entry
               /\ ledger'[fp].notified = disk[fp].notified
    <2>1. disk[fp] \in Entry /\ ledger'[fp] \in Entry
      BY <1>1 DEF RunInv, TypeOK, Ledgers
    <2>2. \/ ledger'[fp] = SeenEntry(disk[fp], FindingOf(scan, fp).severity, now)
          \/ ledger'[fp] = UnseenEntry(disk[fp], now)
      BY DEF Fold, Reconcile
    <2>3. QED
      <3>1. CASE ledger'[fp] = SeenEntry(disk[fp], FindingOf(scan, fp).severity, now)
        BY <2>1, <3>1 DEF SeenEntry, Entry
      <3>2. CASE ledger'[fp] = UnseenEntry(disk[fp], now)
        BY <2>1, <3>2 DEF UnseenEntry, Entry
      <3>3. QED
        BY <2>2, <3>1, <3>2
  <1>3. InFlight'
    <2>1. /\ at' = now /\ now' = now /\ disk' = disk /\ scan' = scan /\ flags' = flags
          /\ ledger' = Reconcile(disk, scan, now)
          /\ pending' = IF flags.sink THEN Decisions(disk, scan, now) ELSE {}
      BY DEF Fold
    <2>2. now \in Time /\ flags.sink \in BOOLEAN
      BY DEF RunInv, TypeOK
    <2>3. at' <= now'
      BY <2>1, <2>2 DEF Time
    <2>4. ASSUME NEW fp \in Fingerprints
          PROVE  /\ WellFormed(disk'[fp], at')
                 /\ ledger'[fp] = [Reconcile(disk', scan', at')[fp]
                                      EXCEPT !.notified = ledger'[fp].notified]
                 /\ ledger'[fp].notified = disk'[fp].notified
      <3>1. WellFormed(disk'[fp], at')
        BY <2>1 DEF RunInv
      <3>2. ledger'[fp] = [ledger'[fp] EXCEPT !.notified = ledger'[fp].notified]
        BY <1>2 DEF Entry
      <3>3. QED
        BY <2>1, <3>1, <3>2, <1>2
    <2>5. pending' \subseteq Decisions(disk', scan', at')
      BY <2>1
    <2>6. flags'.sink => Decisions(disk', scan', at') \ pending' = {}
      BY <2>1
    <2>7. QED
      BY <2>3, <2>4, <2>5, <2>6 DEF InFlight
  <1>4. \A fp \in Fingerprints : WellFormed(disk'[fp], now')
    BY DEF RunInv, Fold
  <1>5. QED
    BY <1>1, <1>3, <1>4 DEF RunInv

LEMMA RunInvDeliver ==
  ASSUME RunInv, NEW k, Deliver(k)
  PROVE  RunInv'
  <1>0. pc = "delivering"
    BY DEF Deliver
  <1>1. TypeOK'
    <2>1. {Message(d) : d \in Members(k)} \in SUBSET Messages
      BY <1>0, PendingMessages
    <2>2. sent' \in SUBSET Messages
      BY <2>1 DEF RunInv, TypeOK, Deliver
    <2>3. ledger' \in Ledgers
      BY MarkNotifiedType DEF RunInv, TypeOK, Deliver
    <2>4. pending' \in SUBSET DecisionSet
      BY DEF RunInv, TypeOK, Deliver
    <2>5. QED
      BY <2>2, <2>3, <2>4 DEF RunInv, TypeOK, Deliver, world
  <1>2. /\ now' = now /\ at' = at /\ disk' = disk /\ scan' = scan /\ flags' = flags
        /\ pc' = pc /\ pending' = pending \ Members(k)
        /\ ledger' = MarkNotified(ledger, {d.fp : d \in Members(k)}, at)
        /\ sent' = sent \cup {Message(d) : d \in Members(k)}
    BY DEF Deliver
  <1>3. InFlight
    BY <1>0 DEF RunInv
  <1>4. Members(k) \subseteq pending
    BY DEF Members
  <1>5. ASSUME NEW fp \in Fingerprints
        PROVE  /\ ledger'[fp] = [ledger[fp] EXCEPT !.notified = ledger'[fp].notified]
               /\ ledger'[fp].firstSeen = ledger[fp].firstSeen
               /\ \/ ledger'[fp].notified = ledger[fp].notified
                  \/ ledger'[fp].notified = at /\ \E d \in Members(k) : d.fp = fp
    <2>1. ledger[fp] \in Entry
      BY DEF RunInv, TypeOK, Ledgers
    <2>2. CASE \E d \in Members(k) : d.fp = fp
      <3>1. ledger'[fp] = [ledger[fp] EXCEPT !.notified = at]
        BY <1>2, <2>2 DEF MarkNotified
      <3>2. QED
        BY <2>1, <2>2, <3>1 DEF Entry
    <2>3. CASE ~ \E d \in Members(k) : d.fp = fp
      <3>1. ledger'[fp] = ledger[fp]
        BY <1>2, <2>3 DEF MarkNotified
      <3>2. QED
        BY <2>1, <3>1 DEF Entry
    <2>4. QED
      BY <2>2, <2>3
  <1>6. ASSUME NEW fp \in Fingerprints
        PROVE  /\ WellFormed(disk'[fp], at')
               /\ ledger'[fp] = [Reconcile(disk', scan', at')[fp]
                                    EXCEPT !.notified = ledger'[fp].notified]
               /\ \/ ledger'[fp].notified = disk'[fp].notified
                  \/ /\ ledger'[fp].notified = at'
                     /\ \E d \in Decisions(disk', scan', at') : d.fp = fp
    <2>1. /\ WellFormed(disk[fp], at)
          /\ ledger[fp] = [Reconcile(disk, scan, at)[fp]
                              EXCEPT !.notified = ledger[fp].notified]
          /\ \/ ledger[fp].notified = disk[fp].notified
             \/ ledger[fp].notified = at /\ \E d \in Decisions(disk, scan, at) : d.fp = fp
          /\ pending \subseteq Decisions(disk, scan, at)
      BY <1>3 DEF InFlight
    <2>2. Reconcile(disk, scan, at)[fp] \in Entry
      BY ReconcileType DEF RunInv, TypeOK, Ledgers
    <2>3. ledger'[fp] = [Reconcile(disk, scan, at)[fp]
                              EXCEPT !.notified = ledger'[fp].notified]
      BY <1>5, <2>1, <2>2, NotifiedOnly
    <2>4. QED
      BY <1>2, <1>4, <1>5, <2>1, <2>3
  <1>7. pending' \subseteq Decisions(disk', scan', at')
    BY <1>2, <1>3 DEF InFlight
  <1>8. ASSUME flags'.sink, NEW d \in Decisions(disk', scan', at') \ pending'
        PROVE  Told(d.fp, d.kind, ledger[d.fp].firstSeen)'
    <2>1. d.fp \in Fingerprints
      BY <1>2, <1>8, DecisionsInFlight
    <2>2. ledger'[d.fp].firstSeen = ledger[d.fp].firstSeen
      BY <1>5, <2>1
    <2>3. CASE d \in Members(k)
      <3>1. Message(d) \in sent'
        BY <1>2, <2>3
      <3>2. QED
        BY <2>2, <3>1 DEF Told, Message
    <2>4. CASE d \notin Members(k)
      <3>1. Told(d.fp, d.kind, ledger[d.fp].firstSeen)
        BY <1>2, <1>3, <1>8, <2>4 DEF InFlight
      <3>2. QED
        BY <1>2, <2>2, <3>1 DEF Told
    <2>5. QED
      BY <2>3, <2>4
  <1>9. at' <= now'
    BY <1>2, <1>3 DEF InFlight
  <1>10. InFlight'
    BY <1>6, <1>7, <1>8, <1>9 DEF InFlight
  <1>11. \A fp \in Fingerprints : WellFormed(disk'[fp], now')
    BY <1>2 DEF RunInv
  <1>12. QED
    BY <1>1, <1>10, <1>11 DEF RunInv

LEMMA RunInvSurroundings ==
  ASSUME RunInv, Surroundings
  PROVE  RunInv'
  <1>1. CASE Tick
    <2>1. TypeOK'
      BY <1>1 DEF RunInv, TypeOK, Tick, run, world, Time
    <2>2. now \in Time /\ now' \in Time /\ now <= now'
      BY <1>1 DEF RunInv, TypeOK, Tick, Time
    <2>3. \A fp \in Fingerprints : WellFormed(disk'[fp], now')
      <3>1. TAKE fp \in Fingerprints
      <3>2. disk[fp] \in Entry /\ WellFormed(disk[fp], now) /\ disk' = disk
        BY <1>1 DEF RunInv, TypeOK, Ledgers, Tick
      <3>3. QED
        BY <2>2, <3>2, WellFormedLater
    <2>4. pc' = "delivering" => InFlight'
      <3>1. SUFFICES ASSUME pc' = "delivering" PROVE InFlight'
        OBVIOUS
      <3>2. /\ InFlight /\ at \in Time /\ disk' = disk /\ scan' = scan /\ at' = at
            /\ ledger' = ledger /\ pending' = pending /\ flags' = flags /\ sent' = sent
        BY <1>1, <3>1 DEF RunInv, TypeOK, Tick, run
      <3>3. QED
        BY <2>2, <3>2 DEF InFlight, Told, Time
    <2>5. QED
      BY <2>1, <2>3, <2>4 DEF RunInv
  <1>2. ASSUME NEW a, Drift(a) \/ (a \in Coverable /\ ToggleIgnore(a))
        PROVE  RunInv'
    <2>1. UNCHANGED <<now, disk, run, sent>>
      BY <1>2 DEF Drift, ToggleIgnore
    <2>2. drifting' \in SUBSET Finding
      BY <1>2 DEF Drift, ToggleIgnore, RunInv, TypeOK
    <2>3. ignored' \in SUBSET Coverable
      BY <1>2 DEF Drift, ToggleIgnore, RunInv, TypeOK
    <2>4. TypeOK'
      BY <2>1, <2>2, <2>3 DEF RunInv, TypeOK, run
    <2>5. pc' = "delivering" => InFlight'
      BY <2>1 DEF RunInv, InFlight, Told, run
    <2>6. QED
      BY <2>1, <2>4, <2>5 DEF RunInv
  <1>3. ASSUME NEW fp \in Fingerprints, NEW until \in SnoozeUntil, Snooze(fp, until)
        PROVE  RunInv'
    <2>1. disk[fp] \in Entry /\ until \in Time
      BY DEF RunInv, TypeOK, Ledgers, Time
    <2>2. /\ UNCHANGED <<now, world, run, sent>>
          /\ pc = "idle" /\ disk[fp].state = "open" /\ until > now
          /\ disk' = [disk EXCEPT ![fp] = [disk[fp] EXCEPT !.state = "snoozed",
                                                          !.snoozedUntil = until]]
      BY <1>3, <2>1 DEF Snooze, RunInv, TypeOK, Ledgers, Entry
    <2> DEFINE q == [disk[fp] EXCEPT !.state = "snoozed", !.snoozedUntil = until]
    <2>3. q \in Entry
      BY <2>1 DEF Entry, States
    <2>4. WellFormed(q, now)
      <3>1. WellFormed(disk[fp], now) /\ now \in Time
        BY DEF RunInv, TypeOK
      <3>2. /\ q.state = "snoozed" /\ q.snoozedUntil = until /\ q.firstSeen = disk[fp].firstSeen
            /\ q.notified = disk[fp].notified /\ q.agedAt = disk[fp].agedAt
        BY <2>1 DEF Entry
      <3>3. QED
        BY <2>1, <2>2, <3>1, <3>2 DEF WellFormed, Entry, Time, Nil
    <2>5. disk' \in Ledgers /\ \A g \in Fingerprints : WellFormed(disk'[g], now)
      BY <2>2, <2>3, <2>4 DEF RunInv, TypeOK, Ledgers
    <2>6. TypeOK'
      BY <2>2, <2>5 DEF RunInv, TypeOK, run, world
    <2>7. QED
      BY <2>2, <2>5, <2>6 DEF RunInv, run
  <1>4. QED
    BY <1>1, <1>2, <1>3 DEF Surroundings

LEMMA RunInvRun ==
  ASSUME RunInv, Run
  PROVE  RunInv'
  <1>1. ASSUME NEW i \in Invocations, Scan(i)
        PROVE  RunInv'
    <2>1. TypeOK'
      BY <1>1 DEF Scan, RunInv, TypeOK, Visible, world
    <2>2. QED
      BY <1>1, <2>1 DEF Scan, RunInv
  <1>2. CASE Fold
    BY <1>2, RunInvFold
  <1>3. ASSUME NEW k, Deliver(k)
        PROVE  RunInv'
    BY <1>3, RunInvDeliver
  <1>4. ASSUME NEW k, DeliveryFails(k)
        PROVE  RunInv'
    <2>1. {Message(d) : d \in Members(k)} \in SUBSET Messages
      BY <1>4, PendingMessages DEF DeliveryFails
    <2>2. sent' \in SUBSET Messages
      BY <1>4, <2>1 DEF DeliveryFails, RunInv, TypeOK
    <2>3. QED
      BY <1>4, <2>2, RunInvEnd DEF DeliveryFails, RunInv, TypeOK
  <1>5. CASE Save
    <2>1. ASSUME NEW fp \in Fingerprints
          PROVE  WellFormed(ledger[fp], now)
      <3>1. at \in Time /\ now \in Time /\ at <= now
        BY <1>5 DEF Save, RunInv, TypeOK, InFlight
      <3>2. ledger[fp] \in Entry /\ WellFormed(ledger[fp], at)
        BY <1>5, FlightMoves DEF Save
      <3>3. QED
        BY <3>1, <3>2, WellFormedLater
    <2>2. disk' \in Ledgers /\ \A fp \in Fingerprints : WellFormed(disk'[fp], now)
      BY <1>5, <2>1 DEF Save, RunInv, TypeOK
    <2>3. sent' \in SUBSET Messages
      BY <1>5 DEF Save, RunInv, TypeOK
    <2>4. QED
      BY <1>5, <2>2, <2>3, RunInvEnd DEF Save
  <1>6. CASE Abort
    BY <1>6, RunInvEnd DEF Abort, RunInv, TypeOK
  <1>7. QED
    BY <1>1, <1>2, <1>3, <1>4, <1>5, <1>6 DEF Run

\* The fold in memory agrees with the file, and every decision of the scan is
\* pending or delivered, at every step of every run.
THEOREM RunInvariant == Spec => []RunInv
  <1>1. RunInv /\ [Next]_vars => RunInv'
    <2> SUFFICES ASSUME RunInv, [Next]_vars
                 PROVE  RunInv'
      OBVIOUS
    <2>1. CASE UNCHANGED vars
      <3>1. TypeOK'
        BY <2>1 DEF RunInv, TypeOK, vars, run, world
      <3>2. QED
        BY <2>1, <3>1 DEF RunInv, InFlight, Told, vars, run
    <2>2. QED
      BY <2>1, RunInvSurroundings, RunInvRun DEF Next
  <1>2. QED
    BY RunInvInit, <1>1, PTL DEF Spec

\* Every variable keeps its type; in particular every message delivered names
\* a time its finding was opened at.
THEOREM TypeCorrect == Spec => []TypeOK
  <1>1. RunInv => TypeOK
    BY DEF RunInv
  <1>2. QED
    BY <1>1, RunInvariant, PTL

-----------------------------------------------------------------------------
(* Nothing is recorded that was not announced *)

\* Once no decision is pending, an event of the fold was held back or has
\* reached the sink.
LEMMA DrainedMeansTold ==
  ASSUME RunInv, pc = "delivering", pending = {}, flags.sink,
         NEW fp \in Fingerprints, KindAt(fp) # "none",
         ~Suppressed(KindAt(fp), Folded(fp), at)
  PROVE  Told(fp, KindAt(fp), ledger[fp].firstSeen)
  <1>1. PICK d \in Decisions(disk, scan, at) : d.fp = fp /\ d.kind = KindAt(fp)
    BY DecisionsInFlight
  <1>2. QED
    BY <1>1 DEF RunInv, InFlight

\* sent only grows.
LEMMA SentGrows ==
  ASSUME [Next]_vars
  PROVE  sent \subseteq sent'
  BY DEF Next, Surroundings, Run, vars, Tick, Drift, ToggleIgnore, Snooze, Scan, Fold,
         Deliver, DeliveryFails, Save, Abort

LEMMA AnnouncedKept ==
  ASSUME Announced, disk' = disk, sent \subseteq sent', flags'.save => flags'.sink
  PROVE  Announced'
  BY DEF Announced, OpenWasAnnounced, ResolvedWasAnnounced, AgedWasAnnounced, Told

LEMMA AnnouncedSave ==
  ASSUME RunInv, Announced, AgingOutlastsWindow, Save
  PROVE  Announced'
  <1>1. ~flags'.save
    BY DEF Save, EndRun, NoFlags
  <1>2. CASE ~flags.save
    BY <1>1, <1>2, AnnouncedKept DEF Save
  <1>3. CASE flags.save
    <2>1. /\ pc = "delivering" /\ pending = {} /\ flags.sink
          /\ disk' = ledger /\ sent' = sent
      BY <1>3 DEF Save, Announced
    <2>2. ASSUME NEW fp \in Fingerprints
          PROVE  /\ ledger[fp].state = "open" =>
                       \/ Told(fp, "new", ledger[fp].firstSeen)
                       \/ ledger[fp].firstSeen < ledger[fp].snoozedUntil
                 /\ ledger[fp].state = "resolved" =>
                       Told(fp, "resolved", ledger[fp].firstSeen)
                 /\ ledger[fp].agedAt # Nil =>
                       \/ Told(fp, "aging", ledger[fp].firstSeen)
                       \/ ledger[fp].agedAt < ledger[fp].snoozedUntil
      <3>1. /\ disk[fp].state = "open" =>
                  \/ Told(fp, "new", disk[fp].firstSeen)
                  \/ disk[fp].firstSeen < disk[fp].snoozedUntil
            /\ disk[fp].state = "resolved" => Told(fp, "resolved", disk[fp].firstSeen)
            /\ disk[fp].agedAt # Nil =>
                  \/ Told(fp, "aging", disk[fp].firstSeen)
                  \/ disk[fp].agedAt < disk[fp].snoozedUntil
        BY DEF Announced, OpenWasAnnounced, ResolvedWasAnnounced, AgedWasAnnounced
      <3> disk[fp].state = "snoozed" => disk[fp].firstSeen < disk[fp].snoozedUntil
        BY <2>1, FlightMoves DEF WellFormed
      <3>2. KindAt(fp) # "none" =>
               \/ Suppressed(KindAt(fp), Folded(fp), at)
               \/ Told(fp, KindAt(fp), ledger[fp].firstSeen)
        BY <2>1, DrainedMeansTold
      <3>3. CASE KindAt(fp) = "new"
        BY <2>1, <3>1, <3>2, <3>3, FlightMoves
      <3>4. CASE KindAt(fp) = "aging"
        BY <2>1, <3>1, <3>2, <3>4, FlightMoves
      <3>5. CASE KindAt(fp) = "resolved"
        BY <2>1, <3>1, <3>2, <3>5, FlightMoves
      <3>6. CASE KindAt(fp) = "none"
        BY <2>1, <3>1, <3>6, FlightMoves
      <3>7. QED
        BY <2>1, <3>3, <3>4, <3>5, <3>6, FlightMoves
    <2>3. QED
      BY <1>1, <2>1, <2>2
         DEF Announced, OpenWasAnnounced, ResolvedWasAnnounced, AgedWasAnnounced, Told
  <1>4. QED
    BY <1>2, <1>3

LEMMA AnnouncedNext ==
  ASSUME RunInv, Announced, AlwaysDelivers, AgingOutlastsWindow, [Next]_vars
  PROVE  Announced'
  <1>1. CASE Save
    BY <1>1, AnnouncedSave
  <1>2. ASSUME NEW fp \in Fingerprints, NEW until \in SnoozeUntil, Snooze(fp, until)
        PROVE  Announced'
    <2>1. /\ disk' = [disk EXCEPT ![fp].state = "snoozed", ![fp].snoozedUntil = until]
          /\ disk[fp] \in Entry /\ until \in Nat /\ until > now /\ WellFormed(disk[fp], now)
          /\ disk \in Ledgers /\ now \in Time
          /\ disk[fp].state = "open" /\ flags' = flags /\ sent' = sent
      BY <1>2 DEF Snooze, RunInv, TypeOK, Ledgers, run
    <2>2. /\ disk'[fp].state = "snoozed" /\ disk'[fp].firstSeen = disk[fp].firstSeen
          /\ disk'[fp].agedAt = disk[fp].agedAt /\ disk'[fp].snoozedUntil = until
      BY <2>1 DEF Ledgers, Entry
    <2>3. \A g \in Fingerprints : g # fp => disk'[g] = disk[g]
      BY <2>1 DEF Ledgers
    <2>4. disk[fp].agedAt < disk[fp].snoozedUntil => disk[fp].agedAt < until
      BY <2>1 DEF WellFormed, Entry, Time, Nil
    <2>5. ASSUME NEW g \in Fingerprints
          PROVE  /\ disk'[g].state = "open" =>
                       \/ Told(g, "new", disk'[g].firstSeen)
                       \/ disk'[g].firstSeen < disk'[g].snoozedUntil
                 /\ disk'[g].state = "resolved" => Told(g, "resolved", disk'[g].firstSeen)
                 /\ disk'[g].agedAt # Nil =>
                       \/ Told(g, "aging", disk'[g].firstSeen)
                       \/ disk'[g].agedAt < disk'[g].snoozedUntil
      <3>1. /\ disk[g].state = "open" =>
                  \/ Told(g, "new", disk[g].firstSeen)
                  \/ disk[g].firstSeen < disk[g].snoozedUntil
            /\ disk[g].state = "resolved" => Told(g, "resolved", disk[g].firstSeen)
            /\ disk[g].agedAt # Nil =>
                  \/ Told(g, "aging", disk[g].firstSeen)
                  \/ disk[g].agedAt < disk[g].snoozedUntil
        BY DEF Announced, OpenWasAnnounced, ResolvedWasAnnounced, AgedWasAnnounced
      <3>2. CASE g = fp
        BY <2>2, <2>4, <3>1, <3>2
      <3>3. CASE g # fp
        BY <2>3, <3>1, <3>3
      <3>4. QED
        BY <3>2, <3>3
    <2>6. OpenWasAnnounced' /\ ResolvedWasAnnounced' /\ AgedWasAnnounced'
      BY <2>1, <2>5 DEF OpenWasAnnounced, ResolvedWasAnnounced, AgedWasAnnounced, Told
    <2>7. QED
      BY <2>1, <2>6 DEF Announced
  <1>3. CASE disk' = disk /\ (flags'.save => flags'.sink)
    BY <1>3, SentGrows, AnnouncedKept
  <1>4. ASSUME NEW i \in Invocations, Scan(i)
        PROVE  Announced'
    BY <1>3, <1>4 DEF Scan, AlwaysDelivers
  <1>5. CASE EndRun /\ disk' = disk
    BY <1>3, <1>5 DEF EndRun, NoFlags
  <1>6. CASE UNCHANGED <<disk, flags>>
    BY <1>3, <1>6 DEF Announced
  <1>7. CASE Surroundings
    <2>1. CASE Tick \/ \E a : Drift(a) \/ ToggleIgnore(a)
      BY <1>6, <2>1 DEF Tick, Drift, ToggleIgnore, run
    <2>2. QED
      BY <1>2, <1>7, <2>1 DEF Surroundings
  <1>8. CASE Run
    <2>1. CASE Fold \/ \E k : Deliver(k)
      BY <1>6, <2>1 DEF Fold, Deliver
    <2>2. CASE Abort \/ \E k : DeliveryFails(k)
      BY <1>5, <2>2 DEF Abort, DeliveryFails
    <2>3. QED
      BY <1>1, <1>4, <1>8, <2>1, <2>2 DEF Run
  <1>9. CASE UNCHANGED vars
    BY <1>6, <1>9 DEF vars, run
  <1>10. QED
    BY <1>7, <1>8, <1>9 DEF Next

\* Under invocations that deliver what they save and thresholds like the
\* default ones, whatever fails: an open, resolved or aged record was announced
\* as such, a person's snooze excepted.
THEOREM AnnouncedInvariant ==
  ASSUME AlwaysDelivers, AgingOutlastsWindow
  PROVE  Spec => []Announced
  <1>1. Init => Announced
    BY DEF Init, Announced, OpenWasAnnounced, ResolvedWasAnnounced, AgedWasAnnounced,
           EmptyLedger, Absent, NoFlags, Nil
  <1>2. RunInv /\ Announced /\ [Next]_vars => Announced'
    BY AnnouncedNext
  <1>3. QED
    BY <1>1, <1>2, RunInvariant, PTL DEF Spec

\* A finding on record as open was announced as new.
THEOREM OpenIsAnnounced ==
  ASSUME AlwaysDelivers, AgingOutlastsWindow
  PROVE  Spec => []OpenWasAnnounced
  <1>1. Announced => OpenWasAnnounced
    BY DEF Announced
  <1>2. QED
    BY <1>1, AnnouncedInvariant, PTL

\* A finding on record as resolved was announced as resolved.
THEOREM ResolvedIsAnnounced ==
  ASSUME AlwaysDelivers, AgingOutlastsWindow
  PROVE  Spec => []ResolvedWasAnnounced
  <1>1. Announced => ResolvedWasAnnounced
    BY DEF Announced
  <1>2. QED
    BY <1>1, AnnouncedInvariant, PTL

\* A finding on record as aged was announced as aging.
THEOREM AgedIsAnnounced ==
  ASSUME AlwaysDelivers, AgingOutlastsWindow
  PROVE  Spec => []AgedWasAnnounced
  <1>1. Announced => AgedWasAnnounced
    BY DEF Announced
  <1>2. QED
    BY <1>1, AnnouncedInvariant, PTL

-----------------------------------------------------------------------------
(* The promise is kept *)

LEMMA PromiseInit == Init => Promise!Init
  BY DEF Init, EmptyLedger, Absent, OnRecord, Nil, Promise!Init, Promise!Unknown,
         Promise!Nil

\* A delivered message is one the record allows.
LEMMA DeliverySays ==
  ASSUME RunInv, pc = "delivering", NEW k, disk' = disk,
         sent' = sent \/ sent' = sent \cup {Message(d) : d \in Members(k)}
  PROVE  Promise!Say
  <1>1. ASSUME NEW m \in sent' \ sent
        PROVE  Promise!MaySay(OnRecord[m.fp], m.kind, m.since)
    <2>1. PICK d \in pending : m = Message(d)
      BY DEF Members
    <2>2. d \in Decisions(disk, scan, at)
      BY DEF RunInv, InFlight
    <2>3. d.fp \in Fingerprints /\ d.kind = KindAt(d.fp) /\ d.kind # "none"
      BY <2>2, DecisionsInFlight
    <2>4. m.fp = d.fp /\ m.kind = d.kind /\ m.since = ledger[d.fp].firstSeen
      BY <2>1 DEF Message
    <2>5. OnRecord[d.fp] = [state |-> disk[d.fp].state,  since  |-> disk[d.fp].firstSeen,
                            aged  |-> disk[d.fp].agedAt, hushed |-> disk[d.fp].snoozedUntil]
      BY <2>3 DEF OnRecord
    <2>6. /\ d.kind = "new" =>
               /\ disk[d.fp].state \in {"absent", "resolved"}
               /\ m.since = at /\ m.since >= disk[d.fp].firstSeen
          /\ d.kind = "aging" =>
               /\ disk[d.fp].state \in {"open", "snoozed"}
               /\ disk[d.fp].agedAt = Nil /\ m.since = disk[d.fp].firstSeen
          /\ d.kind = "resolved" =>
               disk[d.fp].state = "open" /\ m.since = disk[d.fp].firstSeen
          /\ d.kind \in {"new", "aging", "resolved"}
      BY <2>3, <2>4, FlightMoves DEF WellFormed, Entry, Time, Nil
    <2>7. QED
      BY <2>4, <2>5, <2>6 DEF Promise!MaySay, Promise!Nil, Nil
  <1>2. OnRecord' = OnRecord
    BY DEF OnRecord
  <1>3. QED
    BY <1>1, <1>2 DEF Promise!Say

LEMMA SaveRecords ==
  ASSUME RunInv, Announced, AgingOutlastsWindow, Save, flags.save
  PROVE  Promise!Record
  <1>1. /\ pc = "delivering" /\ pending = {} /\ flags.sink
        /\ disk' = ledger /\ sent' = sent
    BY DEF Save, Announced
  <1>2. ASSUME NEW fp \in Fingerprints
        PROVE  Promise!Moves(fp, OnRecord[fp], OnRecord'[fp])
    <2> DEFINE r == OnRecord[fp]
               q == OnRecord'[fp]
    <2>1. /\ r = [state |-> disk[fp].state,  since  |-> disk[fp].firstSeen,
                  aged  |-> disk[fp].agedAt, hushed |-> disk[fp].snoozedUntil]
          /\ q = [state |-> ledger[fp].state,  since  |-> ledger[fp].firstSeen,
                  aged  |-> ledger[fp].agedAt, hushed |-> ledger[fp].snoozedUntil]
      BY <1>1 DEF OnRecord
    <2> HIDE DEF r, q
    <2>2. KindAt(fp) # "none" =>
             \/ Suppressed(KindAt(fp), Folded(fp), at)
             \/ Told(fp, KindAt(fp), ledger[fp].firstSeen)
      BY <1>1, DrainedMeansTold
    <2>3. \A kind, since : Told(fp, kind, since) => Promise!Said(fp, kind, since)
      BY DEF Told, Promise!Said, RunInv, TypeOK, Messages
    <2>4. CASE KindAt(fp) = "new"
      <3>1. /\ r.state \in {"absent", "resolved"}
            /\ q = [state |-> "open", since |-> q.since, aged |-> Nil, hushed |-> r.hushed]
            /\ q.since >= r.since
        BY <1>1, <2>1, <2>4, FlightMoves DEF WellFormed
      <3>2. Promise!Said(fp, "new", q.since) \/ q.since < r.hushed
        BY <1>1, <2>1, <2>2, <2>3, <2>4, FlightMoves
      <3>3. Promise!Opens(fp, r, q)
        BY <3>1, <3>2 DEF Promise!Opens, Promise!Nil, Nil
      <3>4. QED
        BY <3>3 DEF Promise!Moves, r, q
    <2>5. CASE KindAt(fp) = "aging"
      <3>1. /\ r.state \in {"open", "snoozed"} /\ r.aged = Nil
            /\ q.aged > r.since
            /\ q.state = "open" /\ q.since = r.since /\ q.hushed = r.hushed
        BY <1>1, <2>1, <2>5, FlightMoves
      <3>2. Promise!Said(fp, "aging", r.since) \/ q.aged < r.hushed
        BY <1>1, <2>1, <2>2, <2>3, <2>5, FlightMoves
      <3>3. q = [state |-> "open", since |-> r.since, aged |-> q.aged, hushed |-> r.hushed]
        BY <2>1, <3>1
      <3>4. Promise!Ages(fp, r, q)
        BY <3>1, <3>2, <3>3 DEF Promise!Ages, Promise!Nil, Nil
      <3>5. QED
        BY <3>4 DEF Promise!Moves, r, q
    <2>6. CASE KindAt(fp) = "resolved"
      <3>1. r.state = "open" /\ q = [r EXCEPT !.state = "resolved"]
        BY <1>1, <2>1, <2>6, FlightMoves
      <3>2. Promise!Said(fp, "resolved", r.since)
        BY <1>1, <2>1, <2>2, <2>3, <2>6, FlightMoves
      <3>3. Promise!Closes(fp, r, q)
        BY <3>1, <3>2 DEF Promise!Closes
      <3>4. QED
        BY <3>3 DEF Promise!Moves, r, q
    <2>7. CASE KindAt(fp) = "none"
      <3>1. q = r \/ (r.state = "snoozed" /\ q = [r EXCEPT !.state = "open"])
        BY <1>1, <2>1, <2>7, FlightMoves
      <3>2. QED
        BY <3>1 DEF Promise!Moves, Promise!Wakes, r, q
    <2>8. QED
      BY <1>1, <2>4, <2>5, <2>6, <2>7, FlightMoves
  <1>3. OnRecord' = [fp \in Fingerprints |-> OnRecord'[fp]]
    BY DEF OnRecord
  <1>4. QED
    BY <1>1, <1>2, <1>3 DEF Promise!Record

LEMMA SnoozeHushes ==
  ASSUME RunInv, NEW fp \in Fingerprints, NEW until \in SnoozeUntil, Snooze(fp, until)
  PROVE  Promise!Hush(fp)
  <1>1. /\ disk \in Ledgers /\ disk[fp] \in Entry /\ disk[fp].state = "open"
        /\ disk' = [disk EXCEPT ![fp].state = "snoozed", ![fp].snoozedUntil = until]
        /\ sent' = sent
    BY DEF Snooze, RunInv, TypeOK, Ledgers
  <1>2. OnRecord[fp].state = "open"
    BY <1>1 DEF OnRecord
  <1>3. /\ disk'[fp].state = "snoozed" /\ disk'[fp].firstSeen = disk[fp].firstSeen
        /\ disk'[fp].agedAt = disk[fp].agedAt /\ disk'[fp].snoozedUntil = until
        /\ \A g \in Fingerprints : g # fp => disk'[g] = disk[g]
    BY <1>1 DEF Ledgers, Entry
  <1>4. OnRecord' = [OnRecord EXCEPT ![fp].state = "snoozed",
                                     ![fp].hushed = OnRecord'[fp].hushed]
    BY <1>3 DEF OnRecord
  <1>5. QED
    BY <1>1, <1>2, <1>4 DEF Promise!Hush

\* Every behaviour of notify runs is one the promise allows.
THEOREM PromiseKept ==
  ASSUME AlwaysDelivers, AgingOutlastsWindow
  PROVE  Spec => ImplementsPromise
  <1>1. RunInv /\ Announced /\ [Next]_vars => [Promise!Next]_<<OnRecord, sent>>
    <2> SUFFICES ASSUME RunInv, Announced, [Next]_vars
                 PROVE  Promise!Next \/ UNCHANGED <<OnRecord, sent>>
      OBVIOUS
    <2>1. CASE UNCHANGED <<disk, sent>>
      BY <2>1 DEF OnRecord
    <2>2. ASSUME NEW k, Deliver(k) \/ DeliveryFails(k)
          PROVE  Promise!Next
      BY <2>2, DeliverySays DEF Deliver, DeliveryFails, Promise!Next
    <2>3. CASE Save /\ flags.save
      BY <2>3, SaveRecords DEF Promise!Next
    <2>4. CASE Save /\ ~flags.save
      BY <2>1, <2>4 DEF Save
    <2>5. ASSUME NEW fp \in Fingerprints, NEW until \in SnoozeUntil, Snooze(fp, until)
          PROVE  Promise!Next
      BY <2>5, SnoozeHushes DEF Promise!Next
    <2>6. CASE Surroundings
      <3>1. CASE Tick \/ \E a : Drift(a) \/ ToggleIgnore(a)
        BY <2>1, <3>1 DEF Tick, Drift, ToggleIgnore
      <3>2. QED
        BY <2>5, <2>6, <3>1 DEF Surroundings
    <2>7. CASE Run
      <3>1. CASE Fold \/ Abort \/ \E i : Scan(i)
        BY <2>1, <3>1 DEF Fold, Abort, Scan
      <3>2. QED
        BY <2>2, <2>3, <2>4, <2>7, <3>1 DEF Run
    <2>8. CASE UNCHANGED vars
      BY <2>1, <2>8 DEF vars
    <2>9. QED
      BY <2>6, <2>7, <2>8 DEF Next
  <1>2. QED
    BY <1>1, PromiseInit, RunInvariant, AnnouncedInvariant, PTL
       DEF Spec, ImplementsPromise, Promise!Spec

=============================================================================
