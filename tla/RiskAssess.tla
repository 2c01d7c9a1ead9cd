------------------------------ MODULE RiskAssess ------------------------------
(***************************************************************************)
(* `infractl risk assess`: score what a state file records of each managed *)
(* resource, report the worst first, and gate: risk/engine.go and          *)
(* cli/risk.go. A resource is [address, supports, attrs, tags]: what its   *)
(* type supports, what its attributes say, and its tags as                 *)
(* <<attribute, key>>. Addresses are numbers, scores are hundredths.       *)
(***************************************************************************)
EXTENDS Tables, Sequences, SequencesExt, Nothing

CONSTANTS
    RiskStates, \* state files: sequences of resources
    RiskFlags   \* [minLevel, failLevel, top]; failLevel may be Nil

\* "tags_all" and the three that extractTags reads.
TagAttributes == {"tags", "tags_all", "labels", "resource_tags"}

\* Addresses are unique in a state file.
ASSUME RiskStatesAssumption ==
    \A s \in RiskStates :
        /\ s \in Seq([address : Nat, supports : SUBSET STRING, attrs : SUBSET STRING,
                      tags : SUBSET (TagAttributes \X STRING)])
        /\ \A i, j \in DOMAIN s : s[i].address = s[j].address => i = j

\* A flag is a level; --top may be any number.
ASSUME RiskFlagsAssumption ==
    \A f \in RiskFlags : f.minLevel \in 1..5 /\ f.failLevel \in {Nil} \cup 1..5 /\ f.top \in Int

VARIABLES
    riskPhase,  \* idle, scoring, scored, reported, done
    riskState,  \* the managed resources
    riskFlags,
    results,    \* what has been scored, [address, overall, level]
    byLevel,    \* how many there are of each level
    shownRisks, \* the rows of the report
    riskExit

riskVars == <<riskPhase, riskState, riskFlags, results, byLevel, shownRisks, riskExit>>

Points(condition, n) == IF condition THEN n ELSE 0

\* inferPublic: a flag, a canned ACL, or a rule open to the world.
Public(r) == r.attrs \cap {"public", "public_acl", "open_cidr"} # {}

\* A type with no encryption at rest counts as encrypted.
Encrypted(r) == "encrypts" \notin r.supports \/ r.attrs \cap {"encrypt", "kms_key"} # {}

\* Everything in a state is managed, so the third check never fires.
AssessSecurity(r) == Points(Public(r), 30) + Points(~Encrypted(r), 25)

\* reliabilityConfig drops what does not apply to the type.
Applying(r) ==
    {attr \in r.attrs : /\ attr = "zone" => "zones" \in r.supports
                        /\ attr = "retention_0.0" => "backs_up" \in r.supports}

\* A retention of 0 is read as an integer, and the check asks for a float: only
\* 0.0 is no backup.
AssessReliability(r) ==
    Points("zone" \in Applying(r) /\ "multi_az" \notin r.attrs, 20)
    + Points("retention_0.0" \in Applying(r), 25)

AssessCost(r) == Points("large" \in r.attrs, 20)

\* extractTags reads three attributes; tags_all is not one of them.
ExtractTags(r) ==
    {tag[2] : tag \in {t \in r.tags : t[1] \in {"tags", "labels", "resource_tags"}}}

AssessCompliance(r) ==
    10 * Cardinality({"environment", "owner", "cost_center"} \ ExtractTags(r))

Overall(r) ==
    35 * AssessSecurity(r) + 30 * AssessReliability(r)
    + 15 * AssessCost(r) + 20 * AssessCompliance(r)

\* scoreToLevel and riskRank: 5 for critical down to 1 for negligible.
RiskLevel(overall) ==
    1 + Cardinality({floor \in {2000, 4000, 6000, 8000} : overall >= floor})

RiskInit ==
    /\ riskPhase = "idle" /\ riskState = <<>> /\ riskFlags = Nil
    /\ results = <<>> /\ byLevel = [l \in 1..5 |-> 0] /\ shownRisks = <<>>
    /\ riskExit = Nil

RunRisk ==
    /\ riskPhase = "idle"
    /\ riskPhase' = "scoring"
    /\ riskState' \in RiskStates
    /\ riskFlags' \in RiskFlags
    /\ UNCHANGED <<results, byLevel, shownRisks, riskExit>>

\* The file is missing, a flag is not a level, or the state does not parse; or,
\* later, the report cannot be written, and then nothing gates.
RiskFails ==
    /\ \/ riskPhase = "idle" /\ riskExit' \in {1, 2}
       \/ riskPhase = "reported" /\ riskExit' = 1
    /\ riskPhase' = "failed"
    /\ UNCHANGED <<riskState, riskFlags, results, byLevel, shownRisks>>

ScoreNext ==
    /\ riskPhase = "scoring"
    /\ Len(results) < Len(riskState)
    /\ LET r == riskState[Len(results) + 1]
       IN  results' = Append(results, [address |-> r.address, overall |-> Overall(r),
                                       level |-> RiskLevel(Overall(r))])
    /\ UNCHANGED <<riskPhase, riskState, riskFlags, byLevel, shownRisks, riskExit>>

Before(a, b) ==
    a.overall > b.overall \/ (a.overall = b.overall /\ a.address < b.address)

\* Worst first.
Ranked(found) ==
    [i \in 1..Cardinality(found) |->
        CHOOSE r \in found : Cardinality({q \in found : Before(q, r)}) = i - 1]

\* Counted before anything is left out.
SortResults ==
    /\ riskPhase = "scoring"
    /\ Len(results) = Len(riskState)
    /\ riskPhase' = "scored"
    /\ results' = Ranked(ToSet(results))
    /\ byLevel' = [l \in 1..5 |-> Cardinality({i \in DOMAIN results : results[i].level = l})]
    /\ UNCHANGED <<riskState, riskFlags, shownRisks, riskExit>>

\* --min-level, then --top.
ReportRisks ==
    /\ riskPhase = "scored"
    /\ riskPhase' = "reported"
    /\ LET filtered == Kept(results, {i \in DOMAIN results : results[i].level >= riskFlags.minLevel})
           cut == riskFlags.top > 0 /\ Len(filtered) > riskFlags.top
       IN  shownRisks' = IF cut THEN SubSeq(filtered, 1, riskFlags.top) ELSE filtered
    /\ UNCHANGED <<riskState, riskFlags, results, byLevel, riskExit>>

\* Faulty variant: the gate is judged on the rows that are shown.
GateOnShown ==
    /\ riskPhase = "reported"
    /\ riskPhase' = "done"
    /\ riskExit' = IF /\ riskFlags.failLevel # Nil
                      /\ \E i \in DOMAIN shownRisks : shownRisks[i].level >= riskFlags.failLevel
                   THEN 3 ELSE 0
    /\ UNCHANGED <<riskState, riskFlags, results, byLevel, shownRisks>>

\* --fail-on is judged on every resource of the state.
GateRisk ==
    /\ riskPhase = "reported"
    /\ riskPhase' = "done"
    /\ riskExit' = IF /\ riskFlags.failLevel # Nil
                      /\ \E i \in DOMAIN results : results[i].level >= riskFlags.failLevel
                   THEN 3 ELSE 0
    /\ UNCHANGED <<riskState, riskFlags, results, byLevel, shownRisks>>

RiskNext == RunRisk \/ RiskFails \/ ScoreNext \/ SortResults \/ ReportRisks \/ GateRisk

RiskSpec == RiskInit /\ [][RiskNext]_riskVars

-----------------------------------------------------------------------------
(* Properties *)

\* What is wrong with a resource, as the documentation of the command lists it
\* (cli/risk.go:36-39); of the backups only what no state says, a retention of 0.0.
Concerns(r) ==
    {c \in {"public"} : r.attrs \cap {"public", "public_acl", "open_cidr"} # {}}
    \cup {c \in {"plain"} : "encrypts" \in r.supports /\ r.attrs \cap {"encrypt", "kms_key"} = {}}
    \cup {c \in {"one_zone"} : /\ "zones" \in r.supports
                               /\ "zone" \in r.attrs /\ "multi_az" \notin r.attrs}
    \cup {c \in {"no_backup"} : "backs_up" \in r.supports /\ "retention_0.0" \in r.attrs}
    \cup {c \in {"large"} : "large" \in r.attrs}
    \cup {key \in {"environment", "owner", "cost_center"} :
             \A tag \in r.tags : tag[2] = key => tag[1] = "tags_all"}

\* The report is about the whole state and ranks by what is wrong: a resource
\* with every concern of another comes before it or ties with it; the rows left
\* out are no worse than those shown, or below the level asked for; and the gate
\* fails exactly when some resource is at its level, shown or not.
RiskIsRanked ==
    riskPhase \in {"reported", "done"} =>
        LET byAddress(a) == CHOOSE r \in ToSet(riskState) : r.address = a IN
        /\ \A i, j \in DOMAIN results :
              Concerns(byAddress(results[j].address)) \subseteq Concerns(byAddress(results[i].address))
                  => results[i].overall >= results[j].overall
        /\ \A i \in DOMAIN results :
              \/ results[i] \in ToSet(shownRisks)
              \/ results[i].level < riskFlags.minLevel
              \/ /\ riskFlags.top = Len(shownRisks)
                 /\ \A s \in ToSet(shownRisks) : s.overall >= results[i].overall
        /\ riskPhase = "done" /\ riskFlags.failLevel # Nil =>
              (riskExit = 3 <=> \E l \in riskFlags.failLevel..5 : byLevel[l] > 0)
=============================================================================
