------------------------------ MODULE DriftScan -------------------------------
(***************************************************************************)
(* `infractl drift scan`, and collectDrift, the scan `infractl notify`     *)
(* runs: compare the state with a live snapshot, drop what the ignore      *)
(* rules cover, filter by severity, and gate. A snapshot maps the          *)
(* addresses it holds to objects. The order of the report is left out, and *)
(* so is notify's use of it; --no-ignore is a file without rules.          *)
(***************************************************************************)
EXTENDS IgnoreRules, Documents, FiniteSets

CONSTANTS
    IgnoredKeys,    \* ignoredAttributes
    WeightOf,       \* key |-> critical, high, medium or other
    States,         \* state files: functions from addresses to objects
    Snapshots,      \* live snapshots, likewise
    RuleFiles,      \* ignore files: sequences of rules
    Invocations     \* [command, minSeverity, failAt, unmanaged, today, output];
                    \* severities are ranks, and failAt is Nil without --fail-on

\* What is compared is what was read; rules come in the order of their file.
ASSUME ResourcesAssumption ==
    /\ \A s \in States \cup Snapshots :
          IsFiniteSet(DOMAIN s) /\ \A a \in DOMAIN s : s[a] \in Objects
    /\ \A file \in RuleFiles :
          /\ file \in Seq({file[i] : i \in DOMAIN file})
          /\ \A i \in DOMAIN file : file[i].expires \in {Nil} \cup Nat

\* Severities are ranks, and days are counted; notify has no --fail-on. The report
\* is for people (table, wide), whole (json, yaml), or its findings and no more
\* (csv, tsv, name, sarif).
ASSUME InvocationsAssumption ==
    /\ Nil \notin Nat
    /\ \A f \in Invocations :
          /\ f.command \in {"scan", "notify"} /\ f.unmanaged \in BOOLEAN
          /\ f.minSeverity \in 1..5 /\ f.failAt \in {Nil} \cup 1..5 /\ f.today \in Nat
          /\ f.command = "notify" => f.failAt = Nil
          /\ f.output \in {"people", "whole", "findings"}

VARIABLES
    state, live, rules, flags,  \* what the command was given
    phase,      \* started, compared, ruled, filtered, done, failed
    findings,   \* the findings that are left
    suppressed, \* those a rule covered, [finding, rule]
    said,       \* what the report says besides the findings: [hidden, allMatch]
    exit        \* the exit code, or Nil

inputs   == <<state, live, rules, flags>>
scanVars == <<inputs, phase, findings, suppressed, said, exit>>

\* Faulty variant: what the snapshot leaves out is always a change.
UnderStrictly(below, s, l, key) ==
    IF key \notin DOMAIN l THEN {<<key>>}
    ELSE IF IsMap(s[key]) /\ IsMap(l[key])
         THEN {<<key>> \o path : path \in below[<<s[key].value, l[key].value>>]}
         ELSE IF s[key] = l[key] THEN {} ELSE {<<key>>}

\* Where live disagrees with what the state records under a key. Recorded as null
\* and left out of the snapshot is the same absence.
Under(below, s, l, key) ==
    IF key \notin DOMAIN l THEN (IF s[key] = Null THEN {} ELSE {<<key>>})
    ELSE IF IsMap(s[key]) /\ IsMap(l[key])
         THEN {<<key>> \o path : path \in below[<<s[key].value, l[key].value>>]}
         ELSE IF s[key] = l[key] THEN {} ELSE {<<key>>}

\* compareInto: only what the state records is compared.
Differences[pair \in Objects \X Objects] ==
    UNION {Under(Differences, pair[1], pair[2], key) : key \in DOMAIN pair[1] \ IgnoredKeys}

\* A pattern counts wherever it occurs in a path, so the heaviest key does.
Weight(path) ==
    LET classes == {WeightOf[path[i]] : i \in DOMAIN path}
    IN  IF "critical" \in classes THEN 40
        ELSE IF "high" \in classes THEN 25
        ELSE IF "medium" \in classes THEN 10
        ELSE 2

ScoreChanges(paths) ==
    LET total == FoldSet(LAMBDA path, sum : sum + Weight(path), 0, paths)
    IN  IF total > 100 THEN 100 ELSE total

\* severityForScore and severityRank: 5 for critical down to 1 for info.
SeverityForScore(score) ==
    IF score >= 80 THEN 5
    ELSE IF score >= 50 THEN 4
    ELSE IF score >= 25 THEN 3
    ELSE IF score >= 10 THEN 2
    ELSE 1

Finding(address, kind, severity, score, changes) ==
    [address |-> address, kind |-> kind, severity |-> severity,
     score |-> score, changes |-> changes]

Modified(address, paths) ==
    Finding(address, "modified", SeverityForScore(ScoreChanges(paths)),
            ScoreChanges(paths), paths)

CompareForDrift(s, l, unmanaged) ==
    LET shared == DOMAIN s \cap DOMAIN l IN
    {Finding(a, "missing_in_live", 4, 60, {}) : a \in DOMAIN s \ DOMAIN l}
    \cup {Modified(a, Differences[<<s[a], l[a]>>]) :
             a \in {b \in shared : Differences[<<s[b], l[b]>>] # {}}}
    \cup {Finding(a, "unmanaged", 3, 35, {}) :
             a \in IF unmanaged THEN DOMAIN l \ DOMAIN s ELSE {}}

-----------------------------------------------------------------------------

\* hidden is how many findings it says the rules hide, zero when it is silent on
\* it; allMatch is "No drift found. N managed resources match the live snapshot."
Silence == [hidden |-> 0, allMatch |-> FALSE]

ScanInit ==
    /\ state \in States /\ live \in Snapshots /\ rules \in RuleFiles
    /\ flags \in Invocations
    /\ phase = "started"
    /\ findings = {} /\ suppressed = {}
    /\ said = Silence
    /\ exit = Nil

Compare ==
    /\ phase = "started"
    /\ phase' = "compared"
    /\ findings' = CompareForDrift(state, live, flags.unmanaged)
    /\ UNCHANGED <<inputs, suppressed, said, exit>>

\* Load and applyIgnoreRules. Expired rules suppress nothing.
ApplyRules ==
    /\ phase = "compared"
    /\ phase' = "ruled"
    /\ LET active == ActiveRules(rules, flags.today)
           rule(f) == Match(active, f.address, f.changes)
       IN  /\ findings' = {f \in findings : rule(f) = 0}
           /\ suppressed' = {[finding |-> f, rule |-> active[rule(f)]] :
                                f \in {g \in findings : rule(g) # 0}}
    /\ UNCHANGED <<inputs, said, exit>>

\* Faulty variant: the gate's threshold is taken for the filter's.
FilterAtGate ==
    /\ phase = "ruled"
    /\ phase' = "filtered"
    /\ findings' = {f \in findings :
                       flags.failAt # Nil => f.severity >= flags.failAt}
    /\ UNCHANGED <<inputs, suppressed, said, exit>>

\* --min-severity. collectDrift has no such filter: notify sees every finding.
Filter ==
    /\ phase = "ruled"
    /\ phase' = "filtered"
    /\ findings' = IF flags.command = "scan"
                   THEN {f \in findings : f.severity >= flags.minSeverity}
                   ELSE findings
    /\ UNCHANGED <<inputs, suppressed, said, exit>>

\* Faulty variant: the count is printed and not a field of the report.
ReportForPeople ==
    LET people == flags.command = "scan" /\ flags.output = "people"
    IN  [hidden   |-> IF people /\ findings # {} THEN Cardinality(suppressed) ELSE 0,
         allMatch |-> people /\ findings = {}]

\* What a scan reports: the count of what is suppressed is a field of the whole
\* report. For people printDriftSummary prints it, and returns before that when
\* no finding is left, where the report is the sentence that all resources match.
\* What notify reports does not have it: collectDrift drops it.
Report ==
    LET people == flags.command = "scan" /\ flags.output = "people"
        whole  == flags.command = "scan" /\ flags.output = "whole"
    IN  [hidden   |-> IF whole \/ (people /\ findings # {}) THEN Cardinality(suppressed) ELSE 0,
         allMatch |-> people /\ findings = {}]

\* The report is written, worst first, and --fail-on is judged on it: exit
\* code 3 for a finding at or above the threshold.
Gate ==
    /\ phase = "filtered"
    /\ phase' = "done"
    /\ said' = Report
    /\ exit' = IF flags.failAt # Nil /\ \E f \in findings : f.severity >= flags.failAt
               THEN 3 ELSE 0
    /\ UNCHANGED <<inputs, findings, suppressed>>

\* The state or the snapshot is missing or does not parse, the ignore file is not
\* valid, or the report of a scan or its import blocks cannot be written: the
\* command ends there, and is never taken for one that found drift.
Fail ==
    /\ \/ phase = "started" /\ exit' \in {1, 2}
       \/ phase = "compared" /\ exit' = 2
       \/ phase = "filtered" /\ flags.command = "scan" /\ exit' = 1
    /\ phase' = "failed"
    /\ UNCHANGED <<inputs, findings, suppressed, said>>

ScanNext == Compare \/ ApplyRules \/ Filter \/ Gate \/ Fail

ScanSpec == ScanInit /\ [][ScanNext]_scanVars

-----------------------------------------------------------------------------
(* Properties *)

\* Path by path: the state records something that the snapshot contradicts.
\* Nothing below an ignored key counts, and an object is compared key by key
\* when it is one on both sides.
Contradicted(s, l, path) ==
    /\ \A i \in DOMAIN path : path[i] \notin IgnoredKeys
    /\ Parts(s, l, path)
    /\ At(s, path) # Absent /\ At(s, path) # At(l, path)
    /\ ~(At(s, path) = Null /\ At(l, path) = Absent)

Contradictions(a) == {path \in Paths : Contradicted(state[a], live[a], path)}

\* Whether a resource calls for a finding, and how bad it is.
Calls(a) ==
    CASE a \in DOMAIN state /\ a \notin DOMAIN live -> TRUE
      [] a \in DOMAIN live /\ a \notin DOMAIN state -> flags.unmanaged
      [] OTHER -> Contradictions(a) # {}

Gravity(a) ==
    IF a \notin DOMAIN live THEN 4
    ELSE IF a \notin DOMAIN state THEN 3
    ELSE SeverityForScore(ScoreChanges(Contradictions(a)))

\* A rule of the file speaks for all that is wrong with a resource.
Excused(a) ==
    \E i \in DOMAIN rules :
        /\ rules[i].expires = Nil \/ flags.today <= rules[i].expires
        /\ MatchPattern(rules[i].address, a)
        /\ \/ rules[i].attributes = {}
           \/ /\ a \in DOMAIN state \cap DOMAIN live
              /\ \A path \in Contradictions(a) :
                    \E p \in rules[i].attributes : MatchPattern(p, path)

\* `notify` reports on exactly what `drift scan` would find (cli/drift.go:820),
\* and both on every resource that calls for it, unless a rule excuses it or,
\* for a scan, it is below the severity asked for.
ReportIsExact ==
    phase = "done" =>
        {f.address : f \in findings} =
            {a \in DOMAIN state \cup DOMAIN live :
                /\ Calls(a) /\ ~Excused(a)
                /\ flags.command = "scan" => Gravity(a) >= flags.minSeverity}

\* What the rules take out of a report.
Withheld == {a \in DOMAIN state \cup DOMAIN live : Calls(a) /\ Excused(a)}

\* What a scan leaves out was suppressed by a rule that is in force and speaks for
\* each attribute that changed, or is below the severity asked for, and what the
\* report says of it is right: the count, where it has one, is of the resources
\* that call for a finding and have a rule that excuses them, the whole report
\* always has it, and the one for people does while it has a finding. "No drift
\* found" means that nothing is left; where no rule hides anything, that nothing
\* called for a finding at the severity asked for.
SuppressionIsHonest ==
    phase = "done" =>
        /\ \A a \in DOMAIN state \cup DOMAIN live :
              Calls(a) => \/ \E f \in findings : f.address = a
                          \/ \E s \in suppressed : s.finding.address = a
                          \/ flags.command = "scan" /\ Gravity(a) < flags.minSeverity
        /\ \A s \in suppressed :
              /\ ~Expired(s.rule, flags.today)
              /\ s.rule.attributes # {} =>
                    /\ s.finding.kind = "modified"
                    /\ \A path \in Contradictions(s.finding.address) :
                          \E p \in s.rule.attributes : MatchPattern(p, path)
        /\ said.hidden \in {0, Cardinality(Withheld)}
        /\ flags.command = "scan" =>
              \/ said.hidden = Cardinality(Withheld)
              \/ flags.output = "findings"
              \/ flags.output = "people" /\ findings = {}
        /\ said.allMatch /\ Withheld = {} =>
              \A a \in DOMAIN state \cup DOMAIN live : Calls(a) => Gravity(a) < flags.minSeverity

\* "Suppression is never silent. If rules hid something, the count is stated"
\* (cli/drift.go:683), in the report for people, which has no field for it.
SuppressionIsNeverSilent ==
    phase = "done" /\ flags.command = "scan" /\ flags.output = "people" =>
        said.hidden = Cardinality(suppressed)

\* --fail-on exits 3 when "a finding at or above that severity exists"
\* (docs/ci-integration.md:22): a gate that passes has let through only what a rule
\* excuses, what is below its threshold, or what --min-severity hid from it.
GateIsHonest ==
    phase = "done" /\ flags.failAt # Nil =>
        (exit = 3 <=> \E a \in DOMAIN state \cup DOMAIN live :
                          /\ Calls(a) /\ ~Excused(a)
                          /\ Gravity(a) >= flags.failAt
                          /\ Gravity(a) >= flags.minSeverity)
=============================================================================
