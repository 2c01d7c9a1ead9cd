----------------------------- MODULE IgnoreRules ------------------------------
(***************************************************************************)
(* The rules of .infractl-ignore.yaml and what they cover: ignore.go.      *)
(* Addresses and attribute paths are sequences of names; a pattern is      *)
(* [stem, wild], where wild stands for a trailing asterisk.                *)
(***************************************************************************)
EXTENDS Tables, Sequences, SequencesExt, Nothing

\* "*" alone is the empty stem.
MatchPattern(pattern, value) ==
    IF pattern.wild THEN IsPrefix(pattern.stem, value) ELSE pattern.stem = value

\* A rule is [address, attributes, expires]. A rule that expires on a day still
\* holds on that day.
Expired(rule, day) == rule.expires # Nil /\ day > rule.expires

\* Load: the rules that are still active, in the order of the file.
ActiveRules(rules, day) == Kept(rules, {i \in DOMAIN rules : ~Expired(rules[i], day)})

\* Faulty variant: one expected attribute excuses the others.
CoversAny(rule, address, paths) ==
    /\ MatchPattern(rule.address, address)
    /\ \/ rule.attributes = {}
       \/ \E path \in paths : \E a \in rule.attributes : MatchPattern(a, path)

\* A rule for some attributes covers a finding whose every changed attribute is
\* among them, and no finding that is not a change of attributes.
Covers(rule, address, paths) ==
    /\ MatchPattern(rule.address, address)
    /\ \/ rule.attributes = {}
       \/ /\ paths # {}
          /\ \A path \in paths : \E a \in rule.attributes : MatchPattern(a, path)

\* Match: the position of the first rule that covers the finding, or zero.
Match(rules, address, paths) ==
    LET hits == {i \in DOMAIN rules : Covers(rules[i], address, paths)}
    IN  IF hits = {} THEN 0 ELSE CHOOSE i \in hits : \A j \in hits : i <= j
=============================================================================
