------------------------------ MODULE IgnoreFile ------------------------------
(***************************************************************************)
(* `infractl ignore add` rewrites .infractl-ignore.yaml, and every command *)
(* that applies the rules loads it: cli/ignorecmd.go and ignore.Load. The  *)
(* file is Nil when absent, else [parses, version, rules]; a rule is [key, *)
(* reason, expires], where key is its address and attributes and expires   *)
(* is never, a day, or bad. Nothing locks the file.                        *)
(***************************************************************************)
EXTENDS Naturals, Sequences, SequencesExt, FiniteSets, Nothing

CONSTANTS
    RuleKeys,   \* what a rule is for
    NoAddress,  \* those of them whose address is blank
    Adds,       \* runs of ignore add
    NewRule,    \* add |-> the rule it adds
    RulesBefore \* files that may be there at first

IgnoreEntries == [key : RuleKeys, reason : BOOLEAN, expires : {"never", "dated", "bad"}]

IgnoreFiles == [parses : BOOLEAN, version : Nat, rules : Seq(IgnoreEntries)]

ASSUME RulesAssumption == RulesBefore \subseteq {Nil} \cup IgnoreFiles

ASSUME NoFileAssumption == Nil \notin IgnoreFiles

\* An add without a reason, or with an expiry that is no day, ends early. Its
\* address is whatever argument it was given: nothing looks at it.
ASSUME AddsAssumption ==
    \A a \in Adds : NewRule[a] \in IgnoreEntries /\ NewRule[a].reason /\ NewRule[a].expires # "bad"

VARIABLES
    rulesFile,  \* .infractl-ignore.yaml
    add,        \* add |-> [phase, copy, exit]; done is read back, well or not
    load,       \* the last load: [done, ok, rules]
    first,      \* history: the file there was at first
    muddled     \* history: two adds overlapped, or a write was cut short

ignoreVars == <<rulesFile, add, load, first, muddled>>

Blank == [parses |-> TRUE, version |-> 0, rules |-> <<>>]

Garbled == [parses |-> FALSE, version |-> 0, rules |-> <<>>]

Loaded(ok, rules) == [done |-> TRUE, ok |-> ok, rules |-> rules]

IgnoreInit ==
    /\ rulesFile \in RulesBefore /\ first = rulesFile
    /\ add = [a \in Adds |-> [phase |-> "idle", copy |-> Nil, exit |-> Nil]]
    /\ load = [done |-> FALSE, ok |-> TRUE, rules |-> <<>>]
    /\ muddled = FALSE

Ends(a, phase, code) == add' = [add EXCEPT ![a].phase = phase, ![a].exit = code]

\* No reason, which only a terminal is asked for, or an expiry that is no day;
\* and --dry-run only shows the rule.
EndEarly(a) ==
    /\ add[a].phase = "idle"
    /\ \E code \in {0, 2} : Ends(a, "ended early", code)
    /\ UNCHANGED <<rulesFile, load, first, muddled>>

\* Faulty variant: a file without a version is taken for a new one.
StartOver(file, rule) ==
    IF file.version = 0 THEN [file EXCEPT !.version = 1, !.rules = <<rule>>]
    ELSE [file EXCEPT !.rules = Append(@, rule)]

\* A version that is missing becomes the one that is supported.
AppendRule(file, rule) ==
    [file EXCEPT !.version = IF @ = 0 THEN 1 ELSE @, !.rules = Append(@, rule)]

Has(file, rule) == \E i \in DOMAIN file.rules : file.rules[i].key = rule.key

\* The file is decoded, which does not validate its rules; one for the same
\* attributes of the same address is refused.
ReadRules(a) ==
    /\ add[a].phase = "idle"
    /\ LET file == IF rulesFile = Nil THEN Blank ELSE rulesFile
       IN  IF ~file.parses THEN Ends(a, "failed", 1)
           ELSE IF Has(file, NewRule[a]) THEN Ends(a, "failed", 2)
           ELSE add' = [add EXCEPT ![a].phase = "read", ![a].copy = AppendRule(file, NewRule[a])]
    /\ muddled' = (muddled \/ \E b \in Adds : add[b].phase \in {"read", "writing"})
    /\ UNCHANGED <<rulesFile, load, first>>

\* os.WriteFile empties the file first, or cannot open it.
OpenRules(a) ==
    /\ add[a].phase = "read"
    /\ \/ /\ add' = [add EXCEPT ![a].phase = "writing"]
          /\ rulesFile' = Blank
       \/ /\ Ends(a, "failed", 1)
          /\ UNCHANGED rulesFile
    /\ UNCHANGED <<load, first, muddled>>

WriteRules(a) ==
    /\ add[a].phase = "writing"
    /\ add' = [add EXCEPT ![a].phase = "written"]
    /\ rulesFile' = add[a].copy
    /\ UNCHANGED <<load, first, muddled>>

\* What a write that is cut short can leave: nothing that counts, no YAML, the
\* first rules, or these and a part of the next one, in which the reason comes
\* before the expiry.
TornFile(file) ==
    LET upTo(n) == [file EXCEPT !.rules = SubSeq(@, 1, n)]
        parts(rule) == {[rule EXCEPT !.reason = FALSE, !.expires = "never"]}
                       \cup {[rule EXCEPT !.expires = e] : e \in {"never", "bad"}}
        partOf(n) == {[file EXCEPT !.rules = Append(SubSeq(@, 1, n - 1), part)] :
                         part \in parts(file.rules[n])}
    IN  {Blank, Garbled}
        \cup {upTo(n) : n \in 0..Len(file.rules)}
        \cup UNION {partOf(n) : n \in DOMAIN file.rules}

\* The disk is full or the command is killed.
CutShort(a) ==
    /\ add[a].phase = "writing"
    /\ rulesFile' \in TornFile(add[a].copy)
    /\ muddled' = TRUE
    /\ \/ Ends(a, "failed", 1)
       \/ add' = [add EXCEPT ![a].phase = "killed"]
    /\ UNCHANGED <<load, first>>

Valid(rule) == rule.key \notin NoAddress /\ rule.reason /\ rule.expires # "bad"

\* ignore.Load: the version must be the one supported, and every rule needs an
\* address, a reason and an expiry that is a day, or none. No file is no rules,
\* unless its path was given.
LoadFile(file) ==
    IF file = Nil THEN Loaded(TRUE, <<>>)
    ELSE IF file.parses /\ file.version = 1 /\ \A i \in DOMAIN file.rules : Valid(file.rules[i])
         THEN Loaded(TRUE, file.rules)
         ELSE Loaded(FALSE, <<>>)

\* A scan, or ignore list, loads the rules; an add loads them to see that they
\* still load, and fails, with its rule in the file, when they do not.
LoadRules ==
    /\ load' = LoadFile(rulesFile)
    /\ muddled' = (muddled \/ \E a \in Adds : add[a].phase = "writing")
    /\ UNCHANGED <<rulesFile, add, first>>

ReadBack(a) ==
    /\ add[a].phase = "written"
    /\ Ends(a, "done", IF LoadFile(rulesFile).ok THEN 0 ELSE 1)
    /\ UNCHANGED <<rulesFile, load, first, muddled>>

IgnoreNext ==
    \/ \E a \in Adds : \/ EndEarly(a) \/ ReadRules(a) \/ OpenRules(a) \/ WriteRules(a)
                       \/ CutShort(a) \/ ReadBack(a)
    \/ LoadRules

IgnoreSpec == IgnoreInit /\ [][IgnoreNext]_ignoreVars

IgnoreTypeOK ==
    /\ {rulesFile, first} \subseteq {Nil} \cup IgnoreFiles
    /\ \A a \in Adds :
          /\ add[a].phase \in {"idle", "read", "writing", "written", "done", "failed", "ended early", "killed"}
          /\ add[a].copy \in {Nil} \cup IgnoreFiles
    /\ ToSet(load.rules) \subseteq IgnoreEntries

-----------------------------------------------------------------------------
(* Properties *)

RulesOf(file) == IF file = Nil THEN <<>> ELSE file.rules

\* An add has written a rule without an address.
Spoilt == \E a \in Adds : add[a].phase \in {"written", "done"} /\ NewRule[a].key \in NoAddress

\* "a malformed result is impossible" (cli/ignorecmd.go:183), as far as it goes:
\* when no two adds overlap and no write is cut short, the file holds every rule
\* it had and every rule that was written, once and as it was given, and it loads
\* if it loaded before, unless an add wrote a rule without an address. Then it is
\* for that add to say so: it does not succeed.
AddsKeepRules ==
    ~muddled /\ (\A a \in Adds : add[a].phase # "writing") =>
        /\ IsPrefix(RulesOf(first), RulesOf(rulesFile))
        /\ \A a \in Adds : add[a].phase = "done" =>
              /\ Cardinality({i \in DOMAIN rulesFile.rules : rulesFile.rules[i] = NewRule[a]}) = 1
              /\ add[a].exit = 0 => NewRule[a].key \notin NoAddress
        /\ LoadFile(first).ok => LoadFile(rulesFile).ok \/ Spoilt
        /\ load.done /\ LoadFile(first).ok => load.ok \/ Spoilt

\* Whatever was interrupted or overlapped, a load that succeeds has rules that
\* were written by someone, with a reason, each at most once unless it was there
\* twice at first; one may have lost its expiry in a write cut short, and nothing
\* else of it changes.
LoadedRulesWereMeant ==
    load.ok =>
        LET meant == ToSet(RulesOf(first)) \cup {NewRule[a] : a \in Adds} IN
        /\ \A i \in DOMAIN load.rules :
              \/ load.rules[i] \in meant
              \/ /\ muddled
                 /\ \E r \in meant : load.rules[i] = [r EXCEPT !.expires = "never"]
        /\ \A i, j \in DOMAIN load.rules :
              load.rules[i].key = load.rules[j].key =>
                  i = j \/ muddled \/ {i, j} \subseteq DOMAIN RulesOf(first)

\* The rules survive the adds, and a load has no others.
RulesSurvive == AddsKeepRules /\ LoadedRulesWereMeant
=============================================================================
