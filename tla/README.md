# infra-control in TLA+

Specifications, model-checking instances and proofs for infra-control (`infractl`),
a command-line tool that compares Terraform or OpenTofu state with what is live,
reports the drift, and tells people about what changed since the last time. Paths
below are relative to `src/`.

1. [The system](#the-system): components, state, interactions, hard behaviours
2. [The modules](#the-modules) and how they correspond to the code
3. [The runs](#the-runs): what each checks, its bounds, why they are enough
4. [Fairness](#fairness)
5. [The proofs](#the-proofs)
6. [Disagreements found](#disagreements-found)
7. [Not modelled](#not-modelled)
8. [Plan](#plan)

## The system

What ships is a single-shot CLI: every command reads files, computes, prints,
sometimes writes a file, and exits. Its concurrency is therefore that of
processes: a scheduled `infractl notify` in CI and one started by a person work on
the same ledger, and any of them can be killed or fail halfway. The repository also
holds the packages of a server that is not wired up yet (engines, stores, an event
bus); they keep state under mutexes, in Postgres, Redis and NATS.

| Component | State it keeps | Operations | What makes it correct |
| --- | --- | --- | --- |
| drift scan (`internal/cli/drift.go`) | none: flags in package variables for one run | compare, apply ignore rules, filter, report, gate | the report is exactly what state, snapshot and rules call for; suppression is never silent; the gate fails when it should |
| state comparison (`internal/terraform/`) | none | CompareAttributes, ManagedResources | only what the state records counts; absence in its two spellings is no drift |
| ignore rules (`internal/ignore/`, `internal/cli/ignorecmd.go`) | `.infractl-ignore.yaml` | Load, Match, appendRule | a rule hides what it speaks for and nothing else; adding a rule loses no other |
| finding ledger (`internal/notify/ledger.go`) | `.infractl/ledger.jsonl`, one line a finding | LoadLedger, Reconcile, MarkNotified, Save | a record's life cycle (open, resolved, snoozed, aged) matches what was announced; the file is never torn |
| router (`internal/notify/router.go`) | thresholds | Route, GroupDecisions | loudest first; nothing is said twice without need and nothing that matters is held back |
| ownership (`internal/notify/ownership.go`) | parsed CODEOWNERS, tags | Resolve | the same finding has the same owner every time |
| notify run (`internal/cli/notify.go`) | the ledger in memory | scan, fold, deliver group by group, save | delivered before recorded; whatever fails, nothing is lost |
| dependency graph (`internal/graph/`) | nodes, edges, adjacency lists behind an RWMutex | FromState, BlastRadius, TopologicalSort, Query | complete, with true distances, in safe order, cycles reported, always returning |
| risk report (`internal/cli/risk.go`, `internal/risk/`) | none | score, rank, cut off, gate | what is worse ranks higher; the gate judges every resource |
| plan analysis (`internal/cli/plan.go`, `internal/terraform/plan.go`) | none | ParsePlan, warnings, gate | no delete hides behind another action |
| snapshots (`internal/cli/snapshot.go`, `internal/terraform/priorstate.go`) | `live.json`, a plan in the temporary directory | capture, write in place, read | what is loaded was captured whole; plans do not stay behind |
| doctor (`internal/cli/doctor.go`) | none | checks of every input of a scan | its verdict predicts the scan |
| drift engine (`internal/drift/`) | `running`, a stop channel | Start, Stop; Detect, Classify | one loop at a time, which ends when told; every difference found once |
| audit log (`internal/audit/`, `internal/store/postgres/audit.go`) | last hash in memory, append-only table | Log, VerifyChain, Append, List | a gap shows; pages miss nothing |
| drift event store (`internal/store/postgres/drift.go`) | rows with a status | Create, Update, Resolve, Ignore, List | a decision is undone by a stale update only |
| migrations (`internal/store/postgres/db.go`, `internal/store/migrations/`) | the schema | Migrate | the schema is never half of a script |
| lock and cache in Redis (`internal/store/redis/`) | keys with an expiry | AcquireLock, Extend, Release; Set, Invalidate | a holder releases only its own lease; what is left after a sweep is fresh |
| provider registry, policy engine (`internal/cloud/`, `internal/policy/`) | maps behind mutexes | Register, DiscoverAll; AddPolicy, EvaluateResources | a long call answers for one moment, in whole |
| event bus (`internal/events/`) | NATS subscriptions | Publish, Subscribe, ProcessWithDLQ | one member of a group takes a message; a failed one is dead-lettered at most once |
| terminal UI (`internal/ui/`) | a spinner goroutine, a progress bar | Spin, Stop, Increment | the animation ends and never writes over a result |
| remediation and recovery engines, servers, API, MCP, agents | none yet | stubs and placeholders | - |

How they interact. `drift scan` and `notify` share the comparison and the ignore
rules through functions and through package variables that `notify` swaps for the
time of a call (`cli/notify.go:190`). `notify` hands findings to the ledger, the
ledger's events to the router, the groups to a sink over HTTP, and the marked ledger
back to the file. The graph commands build the graph from the same state files.
Runs that overlap meet in the file system only: the ledger path, its `.tmp`
neighbour, the ignore file, and `live.json`, which a capture writes and a scan and the
doctor read. None of them is locked.

The behaviours that are hard to test, each with the line where it bites, are the
`hazards` of PROJECT.json. The ones that shaped the models: a run stops at its first
failed send with some groups delivered; a save is a rename of a temporary file whose
name all runs share; a finding reopens with some of its old fields; a suppressed
finding looks like a fixed one; and the traversals of the graph depend on the order
of Go maps and edge lists.

## The modules

### Notifications

**Ledger** has the pure part: `Reconcile` of one record (`SeenEntry`, `UnseenEntry`),
the event a scan raises about it (`EventKind`), the default routing policy (`Tier`,
`TierOf`), what holds an event back (`Suppressed`), and the grouping (`GroupKey`,
`GroupRank`). A ledger is a function from fingerprints to records; a fingerprint
without a line maps to `Absent`. Times are days; the zero time and a nil pointer
are `Nil`.

**NotifyRun** is `runNotify`, run after run. `Scan` is `scanForNotify`; `Fold` is
`LoadLedger`, `Reconcile`, `Route` and `GroupDecisions`; `Deliver` and
`DeliveryFails` are one turn of the delivery loop (a send that fails may have got
through); `Save` ends the run; `Abort` is every other way for it to end. Around it, time passes (`Tick`), infrastructure
drifts and recovers (`Drift`), rules come and go (`ToggleIgnore`), and a person edits
the ledger (`Snooze`; nothing in the program does). `sent` is what sinks have
delivered. The clock may move between any two steps, as may the infrastructure: what
a run delivers can be stale.

**AlertHistory** is the abstract specification: a record per subject that moves
through openings, and a set of things said. No move is recorded that was not said
first, unless a person asked for silence, and nothing is said about an opening that
its record already has. It knows no runs, files or failures. NotifyRun implements it
with `record` read off the ledger file and `told` off the sink.

**LedgerFile** opens up what NotifyRun takes as one step: loading and saving, for any
number of runs on one path, down to inodes and lines. `OpenTmp`, `WriteLine` and
`Rename` are `Save`; `Die` leaves a file cut short inside a line; a rename takes
whatever the temporary name names at that moment. Lines are taken to have one length,
so two writers of one inode overwrite whole lines of each other.

### Scanning

**IgnoreRules** is `internal/ignore`: patterns, expiry, which rule covers a finding.
**DriftScan** is `runDriftScan` and, for notify, `collectDrift`, in the order of the
code: `Compare`, `ApplyRules`, `Filter`, `Gate`; `Fail` is every error return between them.
`Report` is what the report says of what the rules hide, in each of its forms: a count in
the whole report (JSON), a count below the findings for people, and, when no finding is
left, the sentence that nothing drifted. Attribute values are null, scalars or
objects; paths are sequences of keys; an address is a sequence, so that a wildcard is
a prefix. `Differences` is a recursive function over pairs of objects, which calls what
one key gives (`Under`) as `compareInto` does; weights and severities are the code's.
Lists compare as wholes in the code and are scalars here. **Documents** is what scan and
drift engine have in common: decoded JSON, with the objects a behaviour may meet and how
deep each is nested as constants (`Objects`, `Nesting`), and what an object holds along a
path (`At`), which the properties compare path by path, without the recursion.

### The graph

**DependencyGraph** is `FromState`: addresses `<<module, block, key>>`, nodes for
modules, and block-level references resolved to instances. It also holds the
reference definitions the properties use, which speak of the state file and not of
the graph (`Affects`, `WithinHops`). A command builds the graph once, so it is fixed
by `Load`.
**BlastRadius**, **TopologicalSort** and **GraphQuery** are the three traversals with
their local variables as state: one action per item taken off a queue and one per edge
looked at, in any order of the edges. `BlastRadius` looks at the context before each
item (`Cancel`); `GraphQuery` has the call stack of `traverseQuery` as a sequence of
frames.

### The other commands

**RiskAssess** is `risk assess`: the four parts of a score (security, reliability,
cost, compliance) in hundredths, which keep the order and the levels of the code's
floats; `ScoreNext` resource by resource, `SortResults`, `ReportRisks` with filter and
cut-off, and `GateRisk`.
**PlanAnalysis** is `plan analyse`: `ClassifyActions` folds Terraform's list of actions
into one, `ParsePlan` keeps what counts as a change, and warnings, table and gate are
read off that.
**LiveSnapshot** is `snapshot from-plan` next to the readers of its file. A file is two
parts, head and tail, so that a reader and a writer can meet in the middle and a write
can be cut short; `Kill` ends a capture anywhere, with its plan left in the temporary
directory. **Doctor** adds the rest of the inputs, the checks in their order
(`RunDoctor`, `CheckLiveSnapshot`, `FinishDoctor`) and the first half of a scan, which
loads the same inputs, the rules unless it has `--no-ignore` (`RunScan`, `LoadInputs`).
**IgnoreFile** is `ignore add` for processes that overlap: read, duplicate check,
truncation, write, and the load that confirms the result (`ReadBack`). `LoadFile` refuses
a rule without an address, a reason or a valid expiry; the add checks only the last two of
its own rule and nothing of those that are in the file, so that an add may write what no
command loads (`NoAddress`), and is then the one to fail.
**Ownership** is one group of findings of one notify run: the state is read for tags,
CODEOWNERS is loaded, owners are resolved in the code's order with Go's map order
left open, the group gets an owner if all agree, and the sink the flags ask for is
built and tried. Whether one name occurs in another is a constant (`Occurs`), since
CODEOWNERS patterns are matched as substrings.

### The services

Nothing calls these packages yet; the models take their exported operations in any
order, from several clients.

**DriftEngine** is `Start`, `Stop` and the scheduler's loop: one goroutine per caller,
contexts that end, and Go's `select`, which takes any ready channel.
**DriftDetection** is the detector and the classifier; maps are ranged in any order, so
the differences are a set. `CompareRecursive` is a recursive function on pairs of objects
(`Expected` for a key that was expected, `Both` for all of a pair), and the score of a
severity is read off the number of differences of each class.
**DriftEvents** is the table of drift events: one atomic statement an action, clients
that read, decide and write back, and a reader that counts and then selects page by
page (`CountEvents`, `SelectEvents`). Who creates an event chooses its time, so that two
may have one and an older one may come later; what `ORDER BY` leaves open is decided anew
by each query. `Update` writes a severity and may close the event; one that takes back a
resolution its client has read is left out.
**Migrations** runs the four up scripts; what a script creates with and without
`IF NOT EXISTS` is told apart, because that decides whether it can be applied twice.
**AuditTrail** has the logger's chain, restarts, rows that are appended late or never,
and the readers of the table, ordered by a time that entries may share and that may go
back. A hash is the history it commits to. Entries are lost or left over here, and never
rewritten: `VerifyChain` compares links and computes no hash, and would not see it.
**RedisStore** has the lock and the cache: commands whose reply is lost, leases that
expire any time, an invalidation that goes batch by batch while keys are set.
**Lease** is the lock it promises, without keys, values or lost messages: free, held by
one user, or given away with nobody knowing; only its holder or time ends a lease, and
who lost it does not get it back. RedisStore implements it (`ImplementsLease`): a user
holds the lock there while the lease of its value is not over, and the lock is stranded
while that is so of a value whose reply was lost. What Redis holds in the key is not in
the mapping, so a script that frees or takes it wrongly shows.
**Registry** has provider discovery (one goroutine per provider) and policy evaluation,
both of which copy a map under a lock and go on without it.
**EventBus** has subscribers and queue groups over a NATS that delivers at most once,
and the dead-letter path.
**Terminal** has the spinner's loop, the callers that halt it with the lock between
them, and the workers of a progress bar.

**Services** puts them side by side: they share nothing, so `ServicesSpec` is the
conjunction of their specifications, and its properties are those of several services
that belong together (`PagesAreSound`, `RecordsHold`, `RedisIsSound`, `LongCallsAreWhole`,
`TerminalIsTidy`). **Traversals** does the same for the three traversals of the graph,
one per command. Small modules they share: **Nothing** declares `Nil`; **Maps** is a Go
map; **Tables** has the listings that `ORDER BY` a time may give (`Listings`; the rows
whose place it settles are `Untied`), sorts numbers, and keeps some places of a sequence,
as a loop with a filter does.

### Instances and proofs

`MCNotifyRun`, `MCLedgerFile`, `MCGraph`, `MCGraphChain`, `MCCommands`
and `MCServices` give the constants values; `MCCommands` also composes the commands over
one working directory, the runs on one ledger file among them, and `MCServices` the services, one command or service per
behaviour: they share no variable, so interleaving them would add states and no
behaviour of either. What the commands do share, the
snapshot between capture, doctor and scan, is one component there (`Prepare`).
`NotifyRunProofs`, `LedgerFileProofs`, `GraphProofs`, `DriftProofs`, `CommandProofs`,
`OutputProofs` and `ServiceProofs` hold the theorems, `Counting` the
lemmas about numbers and finite sets that several of them need.
Operators introduced as "faulty variant" are not part of any specification: each is
the definition after it with a plausible bug, and is there so that the properties can
be tried against it (the `mutants` of PROJECT.json).

## The runs

| Run | Question | Bounds |
| --- | --- | --- |
| `notify_safety` | Is everything on file announced first, with failing sends and aborted runs? Does the file with the sink implement AlertHistory? | two findings of different kind and severity, so two groups; days 0 to 2, thresholds of one day |
| `notify_people` | The same with ignore rules, a hand-made snooze and previews | one finding; days 0 to 4, thresholds of two days, a snooze until day 3 |
| `notify_liveness` | Is drift that stays recorded in the end, and drift that is gone closed? | one resource with two fingerprints; days 0 and 1 |
| `graph` | Are the traversals exact, safe, faithful, and do they return? | every way three blocks (a singleton, one with two instances, one in a module) can depend on each other, cycles included, and a state with ways of different length to one node; blast radius of depth 0 and 2; 12 queries of depth 2 and 5 |
| `commands` | Do the commands of a working directory report, suppress, rank, warn, gate, capture, judge, add rules and address messages as they should? What survives of the ledger when runs overlap and die? | *scan*: two managed resources and an unmanaged one; one with all values of four attributes, two of them nested; 16 rule files; five invocations. *risk*: up to three of seven resources, from nothing wrong to everything. *plan*: up to two changes with any of ten action lists. *snapshot, doctor*: two captures, or one capture in any of 16 worlds, on six files to begin with. *ignore*: three adds, one of a rule without an address, on ten files. *notify*: groups of up to two findings from four addresses and six sets of tags; CODEOWNERS with three lines, fallback patterns that tie, seven sinks. *ledger*: two runs, two lines |
| `services` | Do the packages behind the commands keep their promises under the interleavings, restarts, lost replies and failures they can meet? | two callers of the engine; 33 configurations two levels deep; three events of two times and two writes after their creation, one once there are three (`FewAtOnce`); three migrations; three audit entries of two times over two lives, which a reader reads in the first (`ReadsOneLife`); three users, four tokens, two cache buckets; two providers, two policies; two publishes to a queue group of two and a single subscriber; two halters, three workers on a bar of two |
| `notify_renotify`, `notify_ignored`, `notify_dry_run`, `ledger_torn`, `graph_no_limit`, `suppression_silent` | Does what a comment, a document or a help text says hold? (It does not.) | as above; a chain of twelve for `graph_no_limit` |

Why the bounds are enough. *Notify*: a record is folded on its own and meets the
others only in the groups, so two findings in two groups show a partly delivered run;
with thresholds of one or two days the clock passes each threshold before, at and
after it and leaves time to resolve and reopen. The theorems hold for any number of
findings, days and thresholds. *Ledger file*: a tear needs one writer to truncate
under another, and a lost line two runs that loaded the same file; two runs and two
lines make a half-written file. *Graph*: three blocks allow every shape of cycle, a
diamond through the instances and containment; the detour has a node that is first
met at the wrong distance if the queue is not first in first out, and one that a query of
two hops may meet two hops from its start and follow no further; depth 2 has nodes at
and beyond it, 5 cuts nothing, and 0 is the default. *Scan*: each attribute is equal, different and
absent, and the nested object is also replaced by a scalar and by null; rules overlap
on one resource and one expires. *The other commands*: an overlap needs two processes
and one file; a ranking error needs two resources and a cut-off a third; the action
lists are those Terraform writes, and two that only a newer one does; every input of
the doctor is wrong in every way its code tells apart, one at a time. *Services*: a
stale write needs a reader and a writer of one row, a page that slips three rows, a
lease that is taken over two users and a third who looks on, a double milestone two
workers that render what they saw out of order.

`CHECK_DEADLOCK FALSE` is set in every cfg: with the clock at its bound, no
drift to come and the runs ended the notify models may stop; a traversal and a scan
end with their result.

What the runs show beyond their pass: `notify_safety` and `notify_people` show that no
sequence of failures loses an announcement; `commands` shows for the ledger
the exact conditions under which the atomic rename does its job (no two saves overlap) and the file is not
missing lines (no two runs overlap), and that without them the damage is limited to
repeated messages and torn lines, never to a line nobody was told about. `RulesSurvive`
and `SnapshotsAreSafe` do the same for the two files that are written in place: they
hold with their exceptions spelt out (adds that overlap, writes cut short, an add of a
rule without an address, readers a write came in the way of), and the exceptions are
what can be lost. `OneLoopUntilStopped`, `DecisionsStick`, `RecordsHold`, `PagesAreSound` and `LongCallsAreWhole` likewise say
exactly when the promise of a doc comment stops: `PagesAreSound` is about rows whose time
no other row has, because a tie has no order (`internal/store/postgres/drift.go:117`) and
a reader that pages may miss one of two tied rows with nothing changed at all.
`QueryIsFaithful` says when a query may miss a node within its depth: when a node that is
nearer than the depth is also at the end of a way exactly as long as it. Met there first,
that node is marked as visited with nothing followed from it. Without such a detour the
answer is exact, and the run has states with and without one.

## Fairness

The safety runs use none. `notify_liveness` uses `Fairness` of NotifyRun: a run does
not hang (sinks have timeouts), the scheduled job that delivers and saves keeps being
started and is not killed for ever before it has folded or saved, and a sink that is
asked again and again with the same number of groups left accepts in the end. These
are strong fairness conditions because any of the steps can be prevented time and
again by the failures before it; they are assumptions about CI and the sink, not about
the code. Nothing is assumed of the clock, the infrastructure or people. `graph` uses
weak fairness of the steps of the call in progress, which is a single thread: it says
only that the CPU goes on. No fairness is assumed for cancelling or asking. `services`
has two: `EngineFairness` (weak for the end of a scan, strong for a loop that finds a
stop channel or an ended context ready whenever it waits: Go's `select` picks among
ready channels at random, so a ticker cannot win for ever) and `TerminalFairness` (weak
for the steps of a goroutine that runs and for a call that holds or waits for a lock,
strong for the `select` of the spinner's loop, for the same reason). Nobody is made to
call Start, Stop or Halt. `CallsReturn` there is about both.

## The proofs

All theorems hold for every value of the constants that satisfies the named
assumptions of the modules; no other assumption is made. PROJECT.json lists the
theorems. Each safety property is proved the same way: an inductive invariant that
says more than the property, a lemma per action that keeps it, and a lemma that it
implies the property. What each invariant adds, and why it is needed:

**NotifyRunProofs.** `RunInvariant` is the strengthening: `WellFormed` records (an
opening that has not aged was not notified after it began; a snooze outlasts its
opening) and `InFlight`, which says that the ledger in memory is the fold of the scan
into the file but for the marks of delivered findings, and that each decision of the
scan is pending or was sent. Without `InFlight` nothing connects what `Save` writes
with what was said. From it: `TypeCorrect`; `OpenIsAnnounced` and `ResolvedIsAnnounced`,
which assume that invocations that save have a sink (`AlwaysDelivers`; the run
`notify_dry_run` shows why); `AgedIsAnnounced`, which also assumes that the re-notify
window is no longer than the aging threshold (`AgingOutlastsWindow`, true of the
defaults; with --renotify-days greater the window swallows the aging event); and
`PromiseKept`, the refinement of AlertHistory, by showing initial states and each step
to map to one of its steps or a stutter.

**LedgerFileProofs.** `FileInvariant` has three parts. `OnlyTold` needs no condition:
what is in memory is announced or still to be delivered, and every line of every inode
came from a memory. `SoleWriter` holds until two saves overlap: one writer at most,
it owns the temporary file, which holds the part of its buffer it has written; deaths
leave a stale temporary file that the next save truncates. `SoleRun` holds until two
runs overlap. From these: `FileTypeCorrect`, `RecordedIsSent`, `FileIsWhole`,
`FileRemembers`.

**GraphProofs**, the blast radius. `RadiusInvariant` holds for every state file, cyclic or not:
no node is known twice (`Once`), each has a parent one hop closer (`Grounded`), the
queue is sorted and spans two depths at most (`Ordered`), and the edges of reached
nodes lead to known ones unless they are still to be looked at (`Closed`); `Undropped`
covers the items beyond the limit, which are dropped only when nothing within it is
left. From it `RadiusTypeCorrect` and the lemma `RadiusLayered`: a finished traversal has
its nodes in layers (`RadiusIsLayered`), each listed once and one hop beyond a node that
is one closer.

**GraphProofs**, distances, sort and query. `WithinHops`, the reference the properties measure distance with, is a
recursive function; it is unfolded once (`HopsExist`, `HopsUnique`, `HopsStep`) and
what is needed of it is proved by `NaturalInduction`: it grows, stays in the graph, and
is saturated after as many hops as there are nodes (`HopsSaturate`).
`RadiusAlwaysExact`: layered nodes are at their shortest distance, by induction on the
distance. `SortAlwaysSafe`: `SortInv` says what an in-degree counts (`Uncounted`: the
dependencies that are not placed, and the last one placed for nodes it has not been
counted down for yet), that nothing is queued or placed twice or before what it depends
on, and that nothing without uncounted dependencies is forgotten. `SortTellsCycles`: of
what is left when the queue runs dry each node depends on another that is left, and the
one of them that reaches most nodes lies on a cycle (`EndlessIsCyclic`).
`QueryAlwaysFaithful`: `QueryInv` has the stack as a chain of hops from the start that
visits no node twice (`StackIsAWay`, `NoneIsOpenTwice`), with frames that have edges left
above the bound only, and each hop from a seen node as seen, still in a frame, or lost
because that node is at the end of a way as long as the bound (`NoHopIsLost`, `Detoured`).
A node is met with the stack as long as the bound exactly then: the stack and the node are
the way (`StackDetours`). `EachIsItself` carries
all of it over to the composition that the run checks.

**DriftProofs.** Scan and drift engine walk two nested objects at once, and the
properties say path by path what the walk must find. Between the two stands a closed
form: the paths at which the objects part (`Contradicting` for the scan, `Apart` and
`Reported` for the detector). It satisfies the equation of the recursive function
(`ClosedStep`, `SettledStep`, from what an object holds below its first key: `AtBelow`,
`PartsBelow`), and nothing else does, by `NaturalInduction` on how deep an object is
nested (`ComparesUnique`, `DetectsUnique`): so `DifferencesExact` and `DetectsExact` hold
at any depth. With them `ScanInv`, which has the findings of each phase as a function of
the inputs, gives `ScanReportsExactly`, `ScanSuppressesHonestly` and
`ScanGatesHonestly`; `RulesExact` (a finding is suppressed if and only if a rule of the
file that is in force covers it) is what ties the rules in force and the first
that matches to the rules of the file. `DetectionSound`: two objects part exactly once on
the way to a scalar that is not the same (`PartSomewhere`, `PartOnce`), so one difference
speaks for it (`ReportedOnce`); there are finitely many (`ReportedFinite`); the score is a
sum over how many differences are of a class or a graver one (`ScoreByGravity`), and one
key more before every path takes none out of these (`DeeperCount`), so that the severity
does not fall.

**CommandProofs.** `PlanHidesNothing`: phases keep what the ones before found
(`PlanInv`), and a count of changes is not zero when there is one (`CountsChanges`).
`RulesAlwaysSurvive`: `NothingInvented` holds whatever happens (a file holds remnants of
rules somebody meant; the memory of an add as well), `NothingLost` until adds overlap or
a write is cut short; it says what the file will be once the write in progress is done,
without which emptying the file would already be a loss, and that it loads unless a rule
without an address was written, in which case no add is done with success.
`SnapshotsAlwaysSafe`: while
some reader is undisturbed, one capture writes at most, on a file that is empty, and a
reader in the middle of the file has the head of the file that is there (`Calm`).
`VerdictAlwaysHolds`: as long as the verdict stands, what doctor and scan have seen of
the snapshot is what is there (`SawTheFile`), so that the two judge one file.
`RisksAreRanked`: the parts of a score are the points of the concerns, so that a
resource with every concern of another scores as much (`MoreConcernsScoreMore`); scores
of different addresses are totally ordered, so that `Ranked` is a sorted enumeration of
them (`RankedFacts`); `RiskInv` says of each phase what it has of that.
`RightPeopleAlwaysHear`: the module path is twice as long as the module is deep unless a
key has a dot (`PathIsOwn`); two owners of one finding come of two spellings or of a tie
(`ResolveDiffers`); `OwnerInv` has each owner as one that `Resolve` can give, and that a
run that is over was honest about it (`RepliesAreHonest`).

**Counting** has what the library lacks: `NaturalInduction` and `SetInduction` without
an operator parameter, cardinalities, and that to put things in their places is to sort
them (`PlacesSort`, and for ranks and filters `AscendingIsSorted`, `KeptFacts`). A listing has
each row once and none before a later one (`ListingFacts`), so that its first `k` are as
many rows (`FirstsOfListing`), whatever the ties among them.

**OutputProofs.** `TerminalStaysTidy`: the caller that set `stopped` is the only one
chosen and erases after the loop has ended (`SpinInv`); a decile is given to one worker,
and a bar that is full has given out the last one or has a worker that saw it full
(`BarInv`). `BusTakesOnce`: what a subscriber took and what is on its way to it follow
the order of publication, what is given to two members of a group is disjoint, and
letters and failures are equally many (`BusInv`).

**ServiceProofs.** `EngineIsAlone`: until the first Stop the flag says whether somebody
holds the engine. `RedisIsAlwaysSound`: every value is given out once and the key's has
not ended (`LockInv`); what a sweep has passed is fresh (`SweepInv`).
`RedisImplementsLease` maps each step: an acquire with a reply to `Grant`, without one to
`Strand`, one that finds the key set to a stutter; a release to `GiveBack`, `Learn`, or,
when its answer is lost, `RunOut`; an extend that is refused to `Learn`; an expiry to
`RunOut` of the holder, `Recover`, or a stutter. It needs that a value nobody was told
of is in no user's Lock (`StrandInv`).
`LongCallsStayWhole`: who was asked has still to answer, found something or failed
(`DiscoveryInv`, `EvaluationInv`), and the database has the first so many scripts, which
one migrator at most has applied (`SchemaInv`, from what each script creates without
asking). `DecisionsAlwaysStick` is an action property, proved of each step under
`StoreInv` (rows and copies keep their diff; a row is open exactly when it has no
resolution). `RecordsAlwaysHold`: the same invariant; that the total of a summary is the
number of open events, by `SetInduction` over the severities (`SummaryAddsUp`); and
`ChainInv` for the audit trail, from which entries verify exactly when they are
consecutive in one life (`ChainOfTimes`): a hash ends with the number of its entry, so
equal hashes are one entry's (`LinkedIsNext`). `PagesAreAlwaysSound`: an untied row of the audit
trail that the reader has not seen is as far down as the rows it has (`ReaderInv`); for
events, which also leave the list, that is true of counts only. `PagingInv` says it of
every top of the list (the open events down to some time, with all that share it): the
reader has passed what it no longer seeks in it, or misses no more of it than were closed
(`Covered`).
`ORDER BY` is `Tables`.
`ServicesTypeCorrect` and `ServicesKeepPromises` are about all services together.

What the attempts to prove showed of the model. `PagesMissWhatLeaves` used to compare
what is missed with the events that were closed; the induction failed on an event that
opens again by a stale update and is closed a second time, which moves the rows after it
up twice: TLC confirmed it with five events and three writes, beyond the bounds of the
run, and the property now counts the times. `DecisionsStick` needs a reason not to be
`Nil` (`ClientsAssumption`). `RiskIsRanked` was false: its list of concerns left out the
backup retention that the score counts, so that a database with every concern on the list
could come after one with fewer; the run missed it for want of a resource that has one,
which `MCResources` now has. The proofs also replaced `SortSeq`, `SelectSeq` and
`FlattenSeq`, of which the provers know nothing, by what they compute, and recursive
operators over nested values by recursive functions. `GateIsHonest` needs that a run of
notify has no `--fail-on`, and `ReportIsExact` that `Nil` is no date, which the model had
left to the configuration of the run.

Assumptions and why the code justifies them:

| Assumption | Why |
| --- | --- |
| `FindingAssumption`, `ThresholdAssumption`, `InvocationAssumption`, `ClockAssumption`, `RunsAssumption`, `OpeningsAssumption` | what a finding, a threshold, a command line and a clock are; finitely many runs and lines |
| `StateFileAssumption`, `BlockAssumption`, `MaxDepthAssumption`, `QueryAssumption` | a state file is finite and its addresses are unique, a block has one resource without a key or instances that have keys; a query's direction is one of three and its depth a natural |
| `PlansAssumption`, `RulesAssumption`, `NoFileAssumption`, `AddsAssumption`, `FilesAssumption`, `NoSnapshotAssumption`, `DoctorAssumption`, `WorldsAssumption` | what may be read at first is a plan, a rule file, a whole snapshot or nothing; "no file" is none of these; the reason and the expiry of a new rule are checked before the file is touched, its address is not |
| `IdsAssumption`, `SeveritiesAssumption`, `TimesAssumption`, `StampsAssumption`, `ClientsAssumption`, `LinkAssumption`, `LimitsAssumption`, `AuditBounds` | events and times are numbered, in no relation to each other; finitely many severities; a reason is given by somebody; a hash is none of the empty values |
| `RiskStatesAssumption`, `RiskFlagsAssumption` | addresses are unique in a state file; levels are the five, and `--top` is any number |
| `ObjectsAssumption` | JSON is finite: an object has finitely many keys and is nested deeper than each object it holds |
| `ResourcesAssumption`, `InvocationsAssumption`, `ConfigurationsAssumption` | attributes and configurations are objects; a rule file is a sequence of rules, each with an expiry or none; severities and days are numbers, and notify has no `--fail-on` |
| `GroupsAssumption`, `SetupsAssumption`, `NobodyAssumption` | a group has a finding, whose tags are of the three attributes that are read; the fallback map is finite and the sink one of those with a name; nothing is no owner |
| `TokenAssumption`, `TokenBoundAssumption`, `BucketAssumption`, `SubscribersAssumption`, `TotalAssumption` | values of a lock are not the empty one; a key is in one bucket that SCAN visits; finitely many subscribers; a bar of nothing is not drawn |

`Nil \notin Nat` and the like are there because TLA+ does not say that two values of
different kinds differ. The bounds that keep TLC finite (`MaxWrites`, `MaxTokens`,
`MaxLogged`, `MaxTime`, `MaxClock`) are any naturals in the proofs.

Every safety property of a passing run is proved. Only model-checked: liveness
(`CallsReturn` of the graph and of the services, `PersistentDriftIsRecorded`,
`VanishedDriftIsClosed`), because fairness and ENABLED are out of the prover's reach.

## Disagreements found

| Where | What is said | What the code does | Run |
| --- | --- | --- | --- |
| `docs/notifications.md:155` | a fingerprint is never notified twice inside the re-notify window | new and resolved events bypass the window | `notify_renotify` |
| `internal/notify/sink.go:184` | resolved findings "no longer differ from Terraform state" | an ignore rule makes a finding look resolved; `StateSuppressed` is never assigned | `notify_ignored` |
| `internal/cli/notify.go:253` | without a sink the run reports what it would send, a safe dry run | it saves the ledger, which uses up the announcement | `notify_dry_run` |
| `internal/notify/ledger.go:385` | an interrupted write cannot leave a truncated ledger | it can when two saves overlap: they share one temporary name | `ledger_torn` |
| `internal/cli/graph.go:352` | `--max-depth 0` means no limit | it means ten hops | `graph_no_limit` |
| `internal/cli/drift.go:683`, `:132` | suppression is never silent: if rules hid something, the count is stated | with no finding left the report for people ends before the count and says that all resources match | `suppression_silent` |

Seen while modelling, with no run of their own:

- The comments on `Roots` and `Leaves` (`internal/graph/fromstate.go:150-166`) and the
  labels of `graph stats` are the wrong way round for the edges' direction.
- `docs/ci-integration.md` has `--fail-on` fail when a finding exists, and the gate does
  not see those below `--min-severity` (`GateIsHonest` states what it does).
- `ignore add` says that "a malformed result is impossible" because existing rules are
  validated on the way (`internal/cli/ignorecmd.go:183`). Nothing is validated before the
  write: a write cut short, two adds that overlap, or an empty address
  (`internal/cli/ignorecmd.go:74`) make one (`RulesSurvive`), and an add to a file that
  does not validate writes its rule and then fails.
- "No drift found. N managed resources match the live snapshot" is also said when every
  finding is below `--min-severity` (`internal/cli/drift.go:562`).
- CODEOWNERS patterns are documented as module source paths and matched, as substrings,
  against the names in a module address; a `for_each` key with a dot is taken for part
  of the module path.
- "Regardless of map ordering" does not hold for a fallback pattern next to the same
  with a star, nor for two spellings of one tag key (`TheRightPeopleHear`).
- The doctor fails for a snapshot that is only old, although a scan accepts it; a config
  file that does not parse ends it before its own check of that file; a config value
  that misfits a flag is not seen (`VerdictHolds` excludes these).
- `risk assess` takes a retention of integer zero as a value that is not there: a state
  file cannot reach `high`, so `--fail-on high` never fires. `plan analyse --max-deletes`
  does not count replacements, and lists of actions with `forget` count as nothing.
- A second `Stop` of the drift engine panics; a context that ended leaves it running.
- Rows of the audit trail read back never verify: the table does not keep the link. And
  `VerifyChain` computes no hash, so that an entry whose content was changed verifies
  (`internal/audit/logger.go:62`).
- A page of drift events or of the audit trail may miss one of two rows with the same
  time: the order of a page is by time alone.
- `Migrate` fails on a database it has migrated, in whole or in part, every time.
- A stale `Update` reopens or relabels a drift event that was resolved or ignored.
- `pathContains` does not see a pattern at the front of a path with more after it
  (`encryption.enabled` scores as nothing), and a null against an absent key is a
  difference of nil and nil.

## Not modelled

PROJECT.json lists every component with its status and the reason. In short: parsing,
rendering and wording; HTTP and payloads of the sinks (what of a reply counts as success
is modelled); the width of numbers (`compare.go` compares them as float64) and the text
of addresses; coverage figures and remediation hints; the `state` commands, which print
what they read; configuration of the servers and telemetry. The remediation engine's
Execute and Rollback always fail, its Verify always succeeds, and nothing gates one on
another; recovery, API, MCP and AI packages are stubs or wrap one call: there is no
behaviour to check yet. Preview commands answer that they are not implemented. Writes to
the graph while it is read are left out because no command does that: it is built once,
by one goroutine. Of the stores, those of resources, graph and policies are single
statements; that deleting a resource deletes its drift events is the schema's work.

## Plan

The core, the commands and the services are modelled, and their safety is proved. What
is left waits for the code: the remediation engine, once its steps do something; the
stores of resources with the cascade to DriftEvents, once something deletes resources.
