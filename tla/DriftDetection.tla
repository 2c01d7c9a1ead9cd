---------------------------- MODULE DriftDetection ----------------------------
(***************************************************************************)
(* The detector and the classifier of the drift engine: what differs       *)
(* between two configurations, and how serious it is. Go ranges over its   *)
(* maps in any order, and so the differences, which are a set here, come   *)
(* in any order. A difference has null for a value that is not there.      *)
(***************************************************************************)
EXTENDS Nothing, Documents, SequencesExt

CONSTANTS
    Configurations,     \* what may be expected and found
    Sources,            \* who may have made the change, or Nil
    EndsIn,             \* key |-> the class of the patterns it ends in, or other:
    StartsWith          \* critical, high or medium; and of those it starts with

\* A configuration is an object.
ASSUME ConfigurationsAssumption == Configurations \subseteq Objects

VARIABLES
    drift       \* [phase, expected, actual, source, diff, classification, severity]

driftVars == <<drift>>

Diff(path, expected, actual) == [path |-> path, expected |-> expected, actual |-> actual]

\* What there is under an expected key. A difference inside of two maps is given
\* by its path.
Expected(below, expected, actual, key) ==
    IF key \notin DOMAIN actual THEN {Diff(<<key>>, expected[key], Null)}
    ELSE IF IsMap(expected[key]) /\ IsMap(actual[key])
         THEN {Diff(<<key>> \o d.path, d.expected, d.actual) :
                  d \in below[<<expected[key].value, actual[key].value>>]}
         ELSE IF expected[key] = actual[key] THEN {}
         ELSE {Diff(<<key>>, expected[key], actual[key])}

\* Faulty variant: a key that nobody expected is no drift.
ExpectedOnly(below, expected, actual) ==
    UNION {Expected(below, expected, actual, key) : key \in DOMAIN expected}

\* What is expected key by key, and then what is only found.
Both(below, expected, actual) ==
    (UNION {Expected(below, expected, actual, key) : key \in DOMAIN expected})
    \cup {Diff(<<key>>, Null, actual[key]) : key \in DOMAIN actual \ DOMAIN expected}

CompareRecursive[pair \in Objects \X Objects] == Both(CompareRecursive, pair[1], pair[2])

\* pathContains: the path ends in the pattern, or has it after a dot. The first
\* key of a path has no dot before it.
Classes(path) ==
    {EndsIn[path[Len(path)]]} \cup {StartsWith[path[i]] : i \in 2..Len(path)}

\* The first class that matches.
Class(path) ==
    IF "critical" \in Classes(path) THEN "critical"
    ELSE IF "high" \in Classes(path) THEN "high"
    ELSE IF "medium" \in Classes(path) THEN "medium"
    ELSE "other"

Count(diff, class) == Cardinality({d \in diff : Class(d.path) = class})

\* 40 for each difference of the class critical, and so on: 5 for critical down
\* to 1 for info.
ScoreSeverity(diff) ==
    LET score == 40 * Count(diff, "critical") + 25 * Count(diff, "high")
                 + 10 * Count(diff, "medium") + 2 * Count(diff, "other")
    IN  IF score >= 80 THEN 5
        ELSE IF score >= 50 THEN 4
        ELSE IF score >= 25 THEN 3
        ELSE IF score >= 10 THEN 2
        ELSE 1

\* What was done by hand was meant; nothing else is known.
ClassifyType(source) ==
    IF source \in {"console", "sdk", "cli"} THEN "intentional" ELSE "unknown"

DetectionInit ==
    drift = [phase |-> "idle", expected |-> Nil, actual |-> Nil, source |-> Nil,
             diff |-> {}, classification |-> Nil, severity |-> 0]

Detect(expected, actual, source) ==
    /\ drift.phase = "idle"
    /\ drift' = [drift EXCEPT !.phase = "detected", !.expected = expected, !.actual = actual,
                              !.source = source, !.diff = CompareRecursive[<<expected, actual>>]]

Classify ==
    /\ drift.phase = "detected"
    /\ drift' = [drift EXCEPT !.phase = "classified",
                              !.classification = ClassifyType(drift.source),
                              !.severity = ScoreSeverity(drift.diff)]

DetectionNext ==
    \/ \E e, a \in Configurations, s \in Sources : Detect(e, a, s)
    \/ Classify

-----------------------------------------------------------------------------
(* Properties *)

\* The value at a path, null where there is none.
ValueAt(config, path) == IF At(config, path) = Absent THEN Null ELSE At(config, path)

\* Where the scalars of a configuration are.
ScalarPaths(config) ==
    {path \in Paths : At(config, path).kind \in {"null", "scalar"}}

\* "Returns property differences" (drift/engine.go:103), all of them: each scalar
\* that is not the same on both sides is at or below exactly one difference; what
\* that one says is what is there on either side, the same only when a null is
\* not there on the other; and the other way round the same ones are found. Each
\* counts: one whose own key is critical, wherever it is, is never of low
\* severity, and the same changes one level further down are no milder. They may
\* be graver: "encryption.enabled" has no dot before a pattern, and is nothing.
DetectionIsSound ==
    drift.phase # "idle" =>
        LET changed == {p \in ScalarPaths(drift.expected) \cup ScalarPaths(drift.actual) :
                           ValueAt(drift.expected, p) # ValueAt(drift.actual, p)}
        IN  /\ \A p \in changed : Cardinality({d \in drift.diff : IsPrefix(d.path, p)}) = 1
            /\ \A d \in drift.diff :
                  /\ d.expected = ValueAt(drift.expected, d.path)
                  /\ d.actual = ValueAt(drift.actual, d.path)
                  /\ d.expected = d.actual => d.expected = Null
            /\ drift.diff = {Diff(d.path, d.actual, d.expected) :
                                d \in CompareRecursive[<<drift.actual, drift.expected>>]}
            /\ drift.phase = "classified" =>
                  /\ (\E d \in drift.diff : EndsIn[d.path[Len(d.path)]] = "critical") =>
                        drift.severity >= 3
                  /\ \A k \in DOMAIN EndsIn :
                        ScoreSeverity({Diff(<<k>> \o d.path, d.expected, d.actual) : d \in drift.diff})
                            >= drift.severity
                  /\ drift.diff = {} => drift.severity = 1
=============================================================================
