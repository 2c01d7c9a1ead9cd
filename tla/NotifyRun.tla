------------------------------ MODULE NotifyRun ------------------------------
(***************************************************************************)
(* `infractl notify`, run after run: a run scans for drift, folds the      *)
(* findings into the ledger it loads, delivers the groups of events to a   *)
(* sink one by one, and only then replaces the ledger on disk. Sends fail, *)
(* time out after delivering, and the process may die at any point. One    *)
(* run is in flight at a time; LedgerFile models runs that overlap.        *)
(***************************************************************************)
EXTENDS Ledger, FiniteSets

CONSTANTS
    Invocations,    \* the flag combinations used, [sink |-> ?, save |-> ?]
    Coverable,      \* addresses an ignore rule may be written for
    SnoozeUntil,    \* times a person may write into snoozed_until; {} for never
    MaxTime         \* bound on the clock

ASSUME InvocationAssumption == Invocations \subseteq [sink : BOOLEAN, save : BOOLEAN]

ASSUME ClockAssumption == MaxTime \in Nat /\ SnoozeUntil \subseteq Nat

VARIABLES
    now,        \* the clock, in days
    drifting,   \* findings the state-to-live comparison would produce
    ignored,    \* addresses an active ignore rule covers
    disk,       \* the ledger file
    pc,         \* where the run in flight is
    scan,       \* its findings
    at,         \* its time.Now()
    ledger,     \* its ledger in memory
    pending,    \* its decisions that are still to be delivered
    flags,      \* its flags
    sent        \* history: every notification a sink has delivered

world == <<drifting, ignored>>
run   == <<pc, scan, at, ledger, pending, flags>>
vars  == <<now, world, disk, run, sent>>

\* One finding's line in a delivered notification. since names the opening of
\* the finding that the message is about: first_seen on its record.
Messages == [fp : Fingerprints, kind : {"new", "aging", "resolved"},
             since : Time]

DecisionSet == [fp : Fingerprints, kind : {"new", "aging", "resolved"},
                tier : {"page", "notify", "digest"}]

NoFlags == [sink |-> FALSE, save |-> FALSE]

TypeOK ==
    /\ now \in Time
    /\ drifting \in SUBSET Finding
    /\ ignored \in SUBSET Coverable
    /\ disk \in Ledgers
    /\ pc \in {"idle", "scanned", "delivering"}
    /\ scan \in SUBSET Finding
    /\ at \in Time
    /\ ledger \in Ledgers
    /\ pending \in SUBSET DecisionSet
    /\ flags \in [sink : BOOLEAN, save : BOOLEAN]
    /\ sent \in SUBSET Messages

Init ==
    /\ now = 0
    /\ drifting = {}
    /\ ignored = {}
    /\ disk = EmptyLedger
    /\ pc = "idle"
    /\ scan = {}
    /\ at = 0
    /\ ledger = EmptyLedger
    /\ pending = {}
    /\ flags = NoFlags
    /\ sent = {}

-----------------------------------------------------------------------------
(* The surroundings: the clock, the infrastructure, the rules, a person     *)

Tick ==
    /\ now < MaxTime
    /\ now' = now + 1
    /\ UNCHANGED <<world, disk, run, sent>>

\* The comparison reports at most one finding for an address: the
\* infrastructure or the state changes what it reports, if anything.
Drift(a) ==
    /\ \E new \in SUBSET {f \in Finding : f.address = a} :
          /\ \A f, g \in new : f = g
          /\ drifting' = {f \in drifting : f.address # a} \cup new
    /\ drifting' # drifting
    /\ UNCHANGED <<now, ignored, disk, run, sent>>

\* A rule that covers the address is added, or removed, or expires.
ToggleIgnore(a) ==
    /\ ignored' = IF a \in ignored THEN ignored \ {a} ELSE ignored \cup {a}
    /\ UNCHANGED <<now, drifting, disk, run, sent>>

\* Nothing in the program snoozes: a person edits the line of an open finding,
\* between runs.
Snooze(fp, until) ==
    /\ pc = "idle"
    /\ disk[fp].state = "open"
    /\ until > now
    /\ disk' = [disk EXCEPT ![fp].state = "snoozed", ![fp].snoozedUntil = until]
    /\ UNCHANGED <<now, world, run, sent>>

-----------------------------------------------------------------------------
(* A run *)

\* What collectDrift returns: the comparison less what the rules cover.
Visible == {f \in drifting : f.address \notin ignored}

Scan(invocation) ==
    /\ pc = "idle"
    /\ pc' = "scanned"
    /\ scan' = Visible
    /\ flags' = invocation
    /\ UNCHANGED <<now, world, disk, at, ledger, pending, sent>>

\* LoadLedger, Reconcile, Route and GroupDecisions, at one reading of the
\* clock. Without a sink there is nothing to deliver.
Fold ==
    /\ pc = "scanned"
    /\ pc' = "delivering"
    /\ at' = now
    /\ ledger' = Reconcile(disk, scan, now)
    /\ pending' = IF flags.sink THEN Decisions(disk, scan, now) ELSE {}
    /\ UNCHANGED <<now, world, disk, scan, flags, sent>>

EndRun ==
    /\ pc' = "idle"
    /\ scan' = {}
    /\ at' = 0
    /\ ledger' = EmptyLedger
    /\ pending' = {}
    /\ flags' = NoFlags

NextKey(k) ==
    /\ \E d \in pending : GroupKey(d) = k
    /\ \A d \in pending : GroupRank(k) <= GroupRank(GroupKey(d))

Members(k) == {d \in pending : GroupKey(d) = k}

Message(d) == [fp |-> d.fp, kind |-> d.kind, since |-> ledger[d.fp].firstSeen]

\* The sink accepts the next group, and its members are marked.
Deliver(k) ==
    /\ pc = "delivering"
    /\ NextKey(k)
    /\ sent' = sent \cup {Message(d) : d \in Members(k)}
    /\ ledger' = MarkNotified(ledger, {d.fp : d \in Members(k)}, at)
    /\ pending' = pending \ Members(k)
    /\ UNCHANGED <<now, world, disk, pc, scan, at, flags>>

\* A faulty variant: the ledger is saved although a send failed.
DeliveryFailsYetSaves(k) ==
    /\ pc = "delivering"
    /\ NextKey(k)
    /\ sent' = sent
    /\ disk' = ledger
    /\ EndRun
    /\ UNCHANGED <<now, world>>

\* Send returns an error, before or after the message got through: the run
\* ends and the ledger is not written.
DeliveryFails(k) ==
    /\ pc = "delivering"
    /\ NextKey(k)
    /\ \/ sent' = sent
       \/ sent' = sent \cup {Message(d) : d \in Members(k)}
    /\ EndRun
    /\ UNCHANGED <<now, world, disk>>

\* Every group is delivered: the ledger replaces the file, unless --no-save.
Save ==
    /\ pc = "delivering"
    /\ pending = {}
    /\ disk' = IF flags.save THEN ledger ELSE disk
    /\ EndRun
    /\ UNCHANGED <<now, world, sent>>

\* The run ends early: the state, snapshot or rules do not parse, the sink is
\* misconfigured, the write fails, or the process is killed.
Abort ==
    /\ pc # "idle"
    /\ EndRun
    /\ UNCHANGED <<now, world, disk, sent>>

-----------------------------------------------------------------------------

Addresses == {f.address : f \in Finding}

Keys == {"page", "notify", "digest"} \X {"new", "aging", "resolved"} \X Kinds

Surroundings ==
    \/ Tick
    \/ \E a \in Addresses : Drift(a)
    \/ \E a \in Coverable : ToggleIgnore(a)
    \/ \E fp \in Fingerprints, until \in SnoozeUntil : Snooze(fp, until)

Run ==
    \/ \E invocation \in Invocations : Scan(invocation)
    \/ Fold
    \/ \E k \in Keys : Deliver(k) \/ DeliveryFails(k)
    \/ Save
    \/ Abort

Next == Surroundings \/ Run

Spec == Init /\ [][Next]_vars

-----------------------------------------------------------------------------
(* Properties *)

Told(fp, kind, since) ==
    \E m \in sent : m.fp = fp /\ m.kind = kind /\ m.since = since

\* A finding the ledger on disk records as open has been announced as new, for
\* this opening of it, whatever failed on the way: delivery comes before the
\* save (runNotify). The one exception is a finding that came back while a
\* person's snooze was still running.
OpenWasAnnounced ==
    \A fp \in Fingerprints :
        disk[fp].state = "open" =>
            \/ Told(fp, "new", disk[fp].firstSeen)
            \/ disk[fp].firstSeen < disk[fp].snoozedUntil

\* A finding the ledger on disk records as resolved has had that said to the
\* sink, so that the loop someone is waiting on is closed (Route never holds
\* back a resolved event).
ResolvedWasAnnounced ==
    \A fp \in Fingerprints :
        disk[fp].state = "resolved" => Told(fp, "resolved", disk[fp].firstSeen)

\* A record that says it has aged was announced as aging in this opening: the
\* one aging event of an opening is not swallowed by the re-notify window,
\* because the last notification is no younger than the opening
\* (DefaultRenotifyAfter). A snooze may swallow it.
AgedWasAnnounced ==
    \A fp \in Fingerprints :
        disk[fp].agedAt # Nil =>
            \/ Told(fp, "aging", disk[fp].firstSeen)
            \/ disk[fp].agedAt < disk[fp].snoozedUntil

-----------------------------------------------------------------------------
(* Why they hold *)

\* A record as of time t. An opening that has not aged was not notified after
\* it began: its one aging event is clear of the re-notify window.
WellFormed(e, t) ==
    /\ e.state # "suppressed"
    /\ e.state # "absent" => e.firstSeen \in Time
    /\ e.firstSeen <= t
    /\ e.notified <= t
    /\ e.agedAt <= t
    /\ e.state = "snoozed" => e.firstSeen < e.snoozedUntil
    /\ e.state \in {"open", "snoozed"} /\ e.agedAt = Nil => e.notified <= e.firstSeen

\* The ledger in memory, up to the marks on delivered findings, is the fold of
\* the scan into the file, which nobody has touched since; and every decision
\* of the scan is still pending or has reached the sink.
InFlight ==
    LET decisions == Decisions(disk, scan, at)
    IN  /\ at <= now
        /\ \A fp \in Fingerprints :
              /\ WellFormed(disk[fp], at)
              /\ ledger[fp] = [Reconcile(disk, scan, at)[fp]
                                  EXCEPT !.notified = ledger[fp].notified]
              /\ \/ ledger[fp].notified = disk[fp].notified
                 \/ ledger[fp].notified = at /\ \E d \in decisions : d.fp = fp
        /\ pending \subseteq decisions
        /\ flags.sink =>
              \A d \in decisions \ pending : Told(d.fp, d.kind, ledger[d.fp].firstSeen)

RunInv ==
    /\ TypeOK
    /\ \A fp \in Fingerprints : WellFormed(disk[fp], now)
    /\ pc = "delivering" => InFlight

\* What the properties above ask of the invocations and the thresholds: a run
\* that saves has a sink, and the window is no longer than the aging threshold
\* (they are equal by default).
AlwaysDelivers == \A i \in Invocations : i.save => i.sink

AgingOutlastsWindow == RenotifyAfter <= AgingAfter

Announced ==
    /\ OpenWasAnnounced
    /\ ResolvedWasAnnounced
    /\ AgedWasAnnounced
    /\ flags.save => flags.sink

-----------------------------------------------------------------------------
\* The promise in AlertHistory, read off the file and the sink: a run writes
\* only legal moves of a record, each of them announced before it is written,
\* and a message is never sent about an opening whose record already has it.
OnRecord ==
    [fp \in Fingerprints |->
        [state |-> disk[fp].state,  since  |-> disk[fp].firstSeen,
         aged  |-> disk[fp].agedAt, hushed |-> disk[fp].snoozedUntil]]

Promise == INSTANCE AlertHistory WITH
    Subject <- Fingerprints, record <- OnRecord, told <- sent

ImplementsPromise == Promise!Spec

\* docs/notifications.md: a fingerprint is never notified twice inside the
\* re-notify window. No message goes out about a fingerprint whose record was
\* last notified less than RenotifyAfter ago.
RenotifyWindow ==
    [][\A m \in sent' \ sent :
          \/ disk[m.fp].notified = Nil
          \/ at - disk[m.fp].notified >= RenotifyAfter]_vars

\* The text of a resolved message says that the finding no longer differs from
\* the Terraform state (summaryFor). While what the run scanned is still what
\* there is to see, a finding about to be reported resolved is really gone.
ResolvedIsGone ==
    pc = "delivering" /\ scan = Visible =>
        \A d \in pending : d.kind = "resolved" => ~Present(drifting, d.fp)

-----------------------------------------------------------------------------
(* Liveness *)

\* Delivery succeeds with n groups left to deliver.
DeliverWith(n) ==
    /\ Cardinality({GroupKey(d) : d \in pending}) = n
    /\ \E k \in Keys : Deliver(k)

\* A run does not hang (sinks time out), the scheduled job that delivers and
\* saves keeps being started, its runs are not killed for ever, and a sink that
\* is asked again and again accepts in the end. The clock, the infrastructure
\* and people owe nothing.
Fairness ==
    /\ WF_vars(Run)
    /\ SF_vars(\E i \in Invocations : i.sink /\ i.save /\ Scan(i))
    /\ SF_vars(flags.save /\ Fold)
    /\ \A n \in 1..Cardinality(Fingerprints) : SF_vars(DeliverWith(n))
    /\ SF_vars(flags.save /\ Save)

FairSpec == Spec /\ Fairness

\* "the next run will try again" (runNotify): a finding that stays visible is
\* in the end on record as open, and by OpenWasAnnounced it has been announced,
\* however often sends fail.
PersistentDriftIsRecorded ==
    \A f \in Finding :
        <>[](f \in Visible) =>
            <>[](disk[Fingerprint(f)].state \in {"open", "snoozed"})

\* A finding that stays out of sight does not stay open on the ledger.
VanishedDriftIsClosed ==
    \A f \in Finding :
        <>[](f \notin Visible) => <>[](disk[Fingerprint(f)].state # "open")

=============================================================================
