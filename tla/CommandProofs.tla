----------------------------- MODULE CommandProofs -----------------------------
(***************************************************************************)
(* Proofs about the commands over the files of a working directory: what   *)
(* the plan gate says, what becomes of the ignore rules, and who may see a *)
(* live snapshot that is not whole.                                        *)
(***************************************************************************)
EXTENDS PlanAnalysis, Doctor, IgnoreFile, RiskAssess, Ownership, SequenceTheorems, Counting

-----------------------------------------------------------------------------
(* The plan gate *)

\* What each of the lists means, and which of them delete something.
LEMMA ListMeaning ==
  ASSUME NEW actions \in ActionLists
  PROVE  /\ "delete" \in ToSet(actions) <=> IsDestructive(ClassifyActions(actions))
         /\ "delete" \in ToSet(actions) => ClassifyActions(actions) # "no-op"
         /\ ToSet(actions) \cap {"create", "update"} # {} =>
               \/ ClassifyActions(actions) \in {"create", "update", "replace"}
               \/ "forget" \in ToSet(actions)
         /\ ClassifyActions(actions) = "no-op" =>
               \/ actions \in {<<>>, <<"no-op">>}
               \/ "forget" \in ToSet(actions)
  <1>1. CASE actions = <<>>
    <2>1. ToSet(actions) = {} /\ ClassifyActions(actions) = "no-op"
      BY <1>1 DEF ToSet, ClassifyActions
    <2> QED BY <2>1, <1>1 DEF IsDestructive
  <1>2. ASSUME NEW a \in {"no-op", "create", "read", "update", "delete", "forget"}, actions = <<a>>
        PROVE  /\ ToSet(actions) = {a}
               /\ ClassifyActions(actions) = IF a \in {"no-op", "forget"} THEN "no-op" ELSE a
    BY <1>2 DEF ToSet, ClassifyActions
  <1>3. ASSUME NEW a \in {"create", "delete"}, NEW b \in {"create", "delete", "forget"},
               a # b, actions = <<a, b>>
        PROVE  /\ ToSet(actions) = {a, b}
               /\ ClassifyActions(actions) = IF b = "forget" THEN "no-op" ELSE "replace"
    BY <1>3 DEF ToSet, ClassifyActions
  <1> QED BY <1>1, <1>2, <1>3 DEF ActionLists, IsDestructive

\* The changes of a plan, and what a gate makes of those that are known.
Changing == {i \in DOMAIN plan : /\ plan[i].mode = "managed"
                                 /\ ClassifyActions(plan[i].actions) # "no-op"}

Classified == [i \in Changing |-> ClassifyActions(plan[i].actions)]

Shown == {i \in DOMAIN planned : planFlags.details \/ IsDestructive(planned[i])}

Tripped ==
    \/ planFlags.maxDeletes # Nil /\ CountOf({"delete"}) > planFlags.maxDeletes
    \/ planFlags.failOn = "any" /\ TotalChanges > 0
    \/ planFlags.failOn = "destructive" /\ CountOf({"delete", "replace"}) > 0
    \/ planFlags.failOn = "delete" /\ CountOf({"delete"}) > 0

\* Each phase keeps what the phases before it found out.
PlanInv ==
    /\ plan \in Seq(ResourceChanges)
    /\ planPhase \in {"parsed", "reported", "done"} =>
          planned = Classified
    /\ planPhase \in {"reported", "done"} => planRows = Shown /\ warnings = PlanWarnings
    /\ planPhase = "done" => planExit = IF Tripped THEN 3 ELSE 0

\* What is made of a plan depends on the plan alone, and a report on the plan, what
\* was made of it, and the flags.
LEMMA ClassifiedStays ==
  ASSUME plan' = plan
  PROVE  Classified' = Classified
  <1>1. Changing' = Changing
    BY DEF Changing, ClassifyActions
  <1> QED BY <1>1 DEF Classified, ClassifyActions

LEMMA ReportStays ==
  ASSUME plan' = plan, planned' = planned, planFlags' = planFlags
  PROVE  Shown' = Shown /\ PlanWarnings' = PlanWarnings /\ (Tripped' <=> Tripped)
  BY DEF Shown, PlanWarnings, IsDestructive, CountOf, Tripped, TotalChanges

LEMMA PlanInvStep ==
  ASSUME PlanInv, [PlanNext]_planVars
  PROVE  PlanInv'
  <1>1. CASE RunPlan
    <2>1. plan' \in Seq(ResourceChanges) /\ planPhase' = "reading"
      BY <1>1, PlansAssumption DEF RunPlan
    <2> QED BY <2>1 DEF PlanInv
  <1>2. CASE PlanFails
    BY <1>2 DEF PlanFails, PlanInv
  <1>3. CASE ParsePlan
    <2>1. planPhase' = "parsed" /\ plan' = plan /\ planned' = Classified
      BY <1>3 DEF ParsePlan, Classified, Changing
    <2>2. Classified' = Classified
      BY <2>1, ClassifiedStays
    <2> QED BY <2>1, <2>2 DEF PlanInv
  <1>4. CASE ReportPlan
    <2>1. /\ planPhase' = "reported" /\ plan' = plan /\ planned' = planned /\ planFlags' = planFlags
          /\ planRows' = Shown /\ warnings' = PlanWarnings /\ planPhase = "parsed"
      BY <1>4 DEF ReportPlan, Shown
    <2> QED BY <2>1, ClassifiedStays, ReportStays DEF PlanInv
  <1>5. CASE GatePlan
    <2>1. /\ planPhase' = "done" /\ plan' = plan /\ planned' = planned /\ planFlags' = planFlags
          /\ planRows' = planRows /\ warnings' = warnings /\ planPhase = "reported"
          /\ planExit' = IF Tripped THEN 3 ELSE 0
      BY <1>5 DEF GatePlan, Tripped
    <2> QED BY <2>1, ClassifiedStays, ReportStays DEF PlanInv
  <1>6. CASE UNCHANGED planVars
    <2>1. /\ planPhase' = planPhase /\ plan' = plan /\ planned' = planned
          /\ planFlags' = planFlags /\ planRows' = planRows /\ warnings' = warnings
          /\ planExit' = planExit
      BY <1>6 DEF planVars
    <2> QED BY <2>1, ClassifiedStays, ReportStays DEF PlanInv
  <1> QED BY <1>1, <1>2, <1>3, <1>4, <1>5, <1>6 DEF PlanNext

\* A count over the changes is zero when there are none.
LEMMA CountsChanges ==
  ASSUME PlanInv, planPhase = "done"
  PROVE  /\ \A actions : CountOf(actions) \in Nat
         /\ \A actions : CountOf(actions) = 0 <=> \A i \in Changing : planned[i] \notin actions
         /\ TotalChanges \in Nat
         /\ TotalChanges = 0 <=> Changing = {}
  <1>1. IsFiniteSet(DOMAIN plan) /\ Changing \subseteq DOMAIN plan /\ DOMAIN planned = Changing
    <2>1. Len(plan) \in Nat /\ DOMAIN plan = 1..Len(plan)
      BY DEF PlanInv
    <2>2. IsFiniteSet(1..Len(plan))
      BY <2>1, FS_Interval
    <2> QED BY <2>1, <2>2 DEF Changing, Classified, PlanInv
  <1>2. IsFiniteSet(Changing)
    BY <1>1, FS_Subset
  <1>3. ASSUME NEW actions
        PROVE  /\ CountOf(actions) \in Nat
               /\ CountOf(actions) = 0 <=> \A i \in Changing : planned[i] \notin actions
    <2> DEFINE counted == {i \in DOMAIN planned : planned[i] \in actions}
    <2>1. IsFiniteSet(counted)
      BY <1>1, <1>2, FS_Subset
    <2>2. Cardinality(counted) \in Nat /\ (Cardinality(counted) = 0 <=> counted = {})
      BY <2>1, FS_CardinalityType, FS_EmptySet
    <2> QED BY <2>2, <1>1 DEF CountOf
  <1>4. TotalChanges \in Nat /\ (TotalChanges = 0 <=> Changing = {})
    BY <1>1, <1>2, FS_CardinalityType, FS_EmptySet DEF TotalChanges
  <1> QED BY <1>3, <1>4

LEMMA PlanInvImplies ==
  ASSUME PlanInv
  PROVE  NothingGoesUnseen
  <1> SUFFICES ASSUME planPhase = "done" PROVE NothingGoesUnseen
    BY DEF NothingGoesUnseen
  <1>1. /\ DOMAIN plan \subseteq Nat \ {0}
        /\ \A i \in DOMAIN plan : plan[i] \in ResourceChanges
    BY DEF PlanInv
  <1>2. \A i \in DOMAIN plan : plan[i].actions \in ActionLists
    BY <1>1 DEF ResourceChanges
  <1>3. /\ DOMAIN planned = Changing /\ Changing \subseteq DOMAIN plan
        /\ \A i \in Changing : planned[i] = ClassifyActions(plan[i].actions)
        /\ planRows = {i \in Changing : planFlags.details \/ IsDestructive(planned[i])}
        /\ warnings = PlanWarnings
        /\ planExit = IF Tripped THEN 3 ELSE 0
    BY DEF PlanInv, Changing, Classified, Shown
  <1>4. \A i \in DOMAIN plan :
           i \in Doomed <=> (i \in Changing /\ IsDestructive(planned[i]))
    <2> SUFFICES ASSUME NEW i \in DOMAIN plan
                 PROVE  i \in Doomed <=> (i \in Changing /\ IsDestructive(planned[i]))
      OBVIOUS
    <2>1. /\ "delete" \in ToSet(plan[i].actions) <=> IsDestructive(ClassifyActions(plan[i].actions))
          /\ "delete" \in ToSet(plan[i].actions) => ClassifyActions(plan[i].actions) # "no-op"
      BY <1>2, ListMeaning
    <2> QED BY <2>1, <1>3 DEF Doomed, Changing
  <1>5. Doomed = {i \in Changing : IsDestructive(planned[i])}
    BY <1>3, <1>4 DEF Doomed
  <1>6. Doomed \subseteq planRows
    BY <1>3, <1>5
  <1>7. {i \in Doomed : plan[i].stateful} = warnings \ {0}
    <2>1. warnings \ {0} = {i \in Changing : IsDestructive(planned[i]) /\ plan[i].stateful}
      BY <1>1, <1>3 DEF PlanWarnings
    <2> QED BY <2>1, <1>5
  <1>8. ASSUME 0 \in warnings, NEW i \in DOMAIN plan, plan[i].mode = "managed"
        PROVE  ToSet(plan[i].actions) \cap {"create", "update"} = {} \/ "forget" \in ToSet(plan[i].actions)
    <2>1. CountOf({"create", "update", "replace"}) = 0
      BY <1>1, <1>3, <1>8 DEF PlanWarnings
    <2>2. \A j \in Changing : planned[j] \notin {"create", "update", "replace"}
      BY <2>1, CountsChanges
    <2>3. i \in Changing => ClassifyActions(plan[i].actions) \notin {"create", "update", "replace"}
      BY <2>2, <1>3
    <2>4. i \notin Changing => ClassifyActions(plan[i].actions) = "no-op"
      BY <1>8 DEF Changing
    <2> QED BY <2>3, <2>4, <1>2, ListMeaning
  <1>9. ASSUME planFlags.failOn = "destructive", Doomed # {}
        PROVE  planExit = 3
    <2>1. \E i \in Changing : planned[i] \in {"delete", "replace"}
      BY <1>5, <1>9 DEF IsDestructive
    <2>2. CountOf({"delete", "replace"}) \in Nat /\ CountOf({"delete", "replace"}) # 0
      BY <2>1, CountsChanges
    <2> QED BY <2>2, <1>3, <1>9 DEF Tripped
  <1>10. ASSUME planFlags.failOn = "any", planExit = 0, NEW i \in DOMAIN plan
         PROVE  \/ plan[i].mode # "managed"
                \/ plan[i].actions \in {<<>>, <<"no-op">>}
                \/ "forget" \in ToSet(plan[i].actions)
    <2>1. ~(TotalChanges > 0)
      BY <1>3, <1>10 DEF Tripped
    <2>2. Changing = {}
      BY <2>1, CountsChanges
    <2>3. plan[i].mode = "managed" => ClassifyActions(plan[i].actions) = "no-op"
      BY <2>2 DEF Changing
    <2> QED BY <2>3, <1>2, ListMeaning
  <1> QED BY <1>6, <1>7, <1>8, <1>9, <1>10 DEF NothingGoesUnseen

\* Of any plan, under any flags: what it deletes is in the table, is warned about
\* and trips the gate (terraform/plan.go:159, cli/plan.go).
THEOREM PlanHidesNothing == PlanSpec => []NothingGoesUnseen
  <1>1. PlanInit => PlanInv
    BY DEF PlanInit, PlanInv
  <1>2. PlanInv /\ [PlanNext]_planVars => PlanInv'
    BY PlanInvStep
  <1>3. PlanInv => NothingGoesUnseen
    BY PlanInvImplies
  <1> QED BY <1>1, <1>2, <1>3, PTL DEF PlanSpec

-----------------------------------------------------------------------------
(* The ignore rules *)

\* What there was at first, and what is added.
Meant(base) == ToSet(RulesOf(base)) \cup {NewRule[a] : a \in Adds}

\* What may be left of a rule: nothing that loads, the rule, or the rule without a
\* whole expiry.
Remnant(q, base) ==
    \/ ~q.reason
    \/ q \in Meant(base)
    \/ \E r \in Meant(base), e \in {"never", "bad"} : q = [r EXCEPT !.expires = e]

AllRemnants(rules, base) == \A i \in DOMAIN rules : Remnant(rules[i], base)

Busy(a) == add[a].phase \in {"read", "writing"}

\* An add whose rule was written.
Holder(a) == add[a].phase \in {"written", "done"}

Holders == {a \in Adds : Holder(a)}

Continues(rules, base) ==
    /\ Len(RulesOf(base)) <= Len(rules)
    /\ \A i \in 1..Len(RulesOf(base)) : RulesOf(base)[i] = rules[i]

Unrepeated(rules, base) ==
    \A i, j \in DOMAIN rules :
        rules[i].key = rules[j].key => i = j \/ {i, j} \subseteq DOMAIN RulesOf(base)

Holds(rules, rule) ==
    \E i \in DOMAIN rules :
        rules[i] = rule /\ \A j \in DOMAIN rules : rules[j].key = rule.key => j = i

\* One of them has no address.
Blanks(holders) == \E a \in holders : NewRule[a].key \in NoAddress

\* A file in which nothing is lost of what there was at first, and of what the
\* holders added.
Good(file, base, holders) ==
    /\ Continues(RulesOf(file), base) /\ Unrepeated(RulesOf(file), base)
    /\ \A i \in DOMAIN RulesOf(file) : RulesOf(file)[i] \in Meant(base)
    /\ \A a \in holders : Holds(RulesOf(file), NewRule[a])
    /\ LoadFile(base).ok => LoadFile(file).ok \/ Blanks(holders)

AddPhases == {"idle", "read", "writing", "written", "done", "failed", "ended early", "killed"}

AddStates == [phase : AddPhases, copy : {Nil} \cup IgnoreFiles, exit : {Nil, 0, 1, 2}]

FilesTypeOK ==
    /\ rulesFile \in {Nil} \cup IgnoreFiles /\ first \in {Nil} \cup IgnoreFiles
    /\ add \in [Adds -> AddStates]
    /\ load \in [done : BOOLEAN, ok : BOOLEAN, rules : Seq(IgnoreEntries)]
    /\ muddled \in BOOLEAN
    /\ \A a \in Adds : Busy(a) => add[a].copy \in IgnoreFiles

\* Whatever happens, what is in a file is what is left of something meant.
NothingInvented ==
    /\ AllRemnants(RulesOf(rulesFile), first)
    /\ \A a \in Adds : Busy(a) => AllRemnants(add[a].copy.rules, first)
    /\ load.ok =>
          \A i \in DOMAIN load.rules :
              \/ load.rules[i] \in Meant(first)
              \/ muddled /\ \E r \in Meant(first) : load.rules[i] = [r EXCEPT !.expires = "never"]

\* While nothing overlapped, the file is good, except when it is being written; then
\* its next contents are, and have the new rule as well.
NothingLost ==
    /\ \A a, b \in Adds : Busy(a) /\ Busy(b) => a = b
    /\ (\A a \in Adds : add[a].phase # "writing") => Good(rulesFile, first, Holders)
    /\ \A a \in Adds : add[a].phase = "writing" => rulesFile = Blank
    /\ \A a \in Adds : Busy(a) =>
          Good(add[a].copy, first, Holders \cup {a}) /\ Holds(add[a].copy.rules, NewRule[a])
    /\ \A a \in Adds : add[a].phase = "done" /\ add[a].exit = 0 => NewRule[a].key \notin NoAddress
    /\ load.ok => Unrepeated(load.rules, first)
    /\ load.done /\ LoadFile(first).ok => load.ok \/ Blanks(Holders)

IgnoreInv ==
    /\ FilesTypeOK
    /\ NothingInvented
    /\ ~muddled => NothingLost

LEMMA EntryFacts ==
  ASSUME NEW r \in IgnoreEntries, NEW e \in {"never", "bad"}
  PROVE  /\ [r EXCEPT !.expires = e] \in IgnoreEntries
         /\ [r EXCEPT !.expires = e].key = r.key
         /\ [r EXCEPT !.expires = e].reason = r.reason
         /\ [r EXCEPT !.expires = e].expires = e
         /\ [[r EXCEPT !.expires = "bad"] EXCEPT !.expires = e] = [r EXCEPT !.expires = e]
         /\ [[r EXCEPT !.expires = "never"] EXCEPT !.expires = e] = [r EXCEPT !.expires = e]
  BY DEF IgnoreEntries

LEMMA FileFacts ==
  /\ RulesOf(Nil) = <<>>
  /\ \A f \in IgnoreFiles : /\ f # Nil /\ RulesOf(f) = f.rules /\ f.rules \in Seq(IgnoreEntries)
                            /\ f.parses \in BOOLEAN /\ f.version \in Nat
  /\ Blank \in IgnoreFiles /\ Blank.rules = <<>> /\ Blank.version = 0
  /\ Garbled \in IgnoreFiles /\ Garbled.rules = <<>>
  /\ <<>> \in Seq(IgnoreEntries)
  BY NoFileAssumption DEF RulesOf, IgnoreFiles, Blank, Garbled

LEMMA MeantFacts ==
  ASSUME NEW base \in {Nil} \cup IgnoreFiles
  PROVE  /\ Meant(base) \subseteq IgnoreEntries
         /\ \A a \in Adds : NewRule[a] \in Meant(base)
         /\ \A q \in Meant(base) : Remnant(q, base)
  <1>1. RulesOf(base) \in Seq(IgnoreEntries)
    BY FileFacts
  <1>2. ToSet(RulesOf(base)) \subseteq IgnoreEntries
    BY <1>1 DEF ToSet
  <1> QED BY <1>2, AddsAssumption DEF Meant, Remnant

\* A prefix, item by item.
LEMMA PrefixByItems ==
  ASSUME NEW S, NEW s \in Seq(S), NEW t \in Seq(S), Len(s) <= Len(t),
         \A i \in 1..Len(s) : s[i] = t[i]
  PROVE  IsPrefix(s, t)
  <1>1. SubSeq(s, 1, Len(s)) = SubSeq(t, 1, Len(s))
    OBVIOUS
  <1> QED BY <1>1 DEF IsPrefix

\* A write that is cut short leaves what is left of something meant.
LEMMA TornFacts ==
  ASSUME NEW base \in {Nil} \cup IgnoreFiles,
         NEW file \in IgnoreFiles, AllRemnants(file.rules, base), NEW torn \in TornFile(file)
  PROVE  torn \in IgnoreFiles /\ AllRemnants(torn.rules, base)
  <1>1. file.rules \in Seq(IgnoreEntries)
    BY FileFacts
  <1>2. CASE torn \in {Blank, Garbled}
    <2>1. torn \in IgnoreFiles /\ torn.rules = <<>>
      BY <1>2, FileFacts
    <2> QED BY <2>1 DEF AllRemnants
  <1>3. ASSUME NEW n \in 0..Len(file.rules), torn = [file EXCEPT !.rules = SubSeq(@, 1, n)]
        PROVE  torn \in IgnoreFiles /\ AllRemnants(torn.rules, base)
    <2> DEFINE part == SubSeq(file.rules, 1, n)
    <2>1. /\ part \in Seq(IgnoreEntries) /\ DOMAIN part = 1..n /\ 1..n \subseteq DOMAIN file.rules
          /\ \A i \in 1..n : part[i] = file.rules[i]
      BY <1>1
    <2> HIDE DEF part
    <2>2. torn \in IgnoreFiles /\ torn.rules = part
      BY <1>3, <2>1 DEF IgnoreFiles, part
    <2> QED BY <2>1, <2>2 DEF AllRemnants
  <1>4. ASSUME NEW n \in DOMAIN file.rules, NEW last \in IgnoreEntries, Remnant(last, base),
               torn = [file EXCEPT !.rules = Append(SubSeq(@, 1, n - 1), last)]
        PROVE  torn \in IgnoreFiles /\ AllRemnants(torn.rules, base)
    <2> DEFINE front == SubSeq(file.rules, 1, n - 1)
               part == Append(front, last)
    <2>1. n \in 1..Len(file.rules) /\ Len(file.rules) \in Nat
      BY <1>1
    <2>2. /\ front \in Seq(IgnoreEntries) /\ Len(front) = n - 1
          /\ \A i \in 1..(n - 1) : i \in DOMAIN file.rules /\ front[i] = file.rules[i]
      BY <1>1, <2>1
    <2> HIDE DEF front
    <2>3. /\ part \in Seq(IgnoreEntries) /\ DOMAIN part = 1..n /\ part[n] = last
          /\ \A i \in 1..(n - 1) : part[i] = file.rules[i]
      BY <2>1, <2>2
    <2> HIDE DEF part
    <2>4. torn \in IgnoreFiles /\ torn.rules = part
      BY <1>4, <2>3 DEF IgnoreFiles, part, front
    <2>5. \A i \in 1..n : i \in 1..(n - 1) \/ i = n
      BY <2>1
    <2> QED BY <1>4, <2>2, <2>3, <2>4, <2>5 DEF AllRemnants
  <1>5. ASSUME NEW n \in DOMAIN file.rules
        PROVE  /\ [file.rules[n] EXCEPT !.reason = FALSE, !.expires = "never"] \in IgnoreEntries
               /\ Remnant([file.rules[n] EXCEPT !.reason = FALSE, !.expires = "never"], base)
               /\ \A e \in {"never", "bad"} :
                     /\ [file.rules[n] EXCEPT !.expires = e] \in IgnoreEntries
                     /\ Remnant([file.rules[n] EXCEPT !.expires = e], base)
    <2> DEFINE q == file.rules[n]
    <2>1. q \in IgnoreEntries /\ Remnant(q, base)
      BY <1>1 DEF AllRemnants
    <2> HIDE DEF q
    <2>2. /\ [q EXCEPT !.reason = FALSE, !.expires = "never"] \in IgnoreEntries
          /\ [q EXCEPT !.reason = FALSE, !.expires = "never"].reason = FALSE
      BY <2>1 DEF IgnoreEntries
    <2>3. ASSUME NEW e \in {"never", "bad"}
          PROVE  [q EXCEPT !.expires = e] \in IgnoreEntries /\ Remnant([q EXCEPT !.expires = e], base)
      <3> DEFINE changed == [q EXCEPT !.expires = e]
      <3>1. changed \in IgnoreEntries /\ changed.reason = q.reason
        BY <2>1, EntryFacts
      <3> SUFFICES Remnant(changed, base)
        BY <3>1
      <3>2. CASE ~q.reason
        <4> HIDE DEF changed
        <4> QED BY <3>1, <3>2 DEF Remnant
      <3>3. CASE q \in Meant(base)
        BY <3>3 DEF Remnant
      <3>4. ASSUME NEW r \in Meant(base), NEW d \in {"never", "bad"}, q = [r EXCEPT !.expires = d]
            PROVE  Remnant([q EXCEPT !.expires = e], base)
        <4>1. [q EXCEPT !.expires = e] = [r EXCEPT !.expires = e]
          BY <3>4, MeantFacts, EntryFacts
        <4> QED BY <4>1 DEF Remnant
      <3> QED BY <2>1, <3>2, <3>3, <3>4 DEF Remnant
    <2> QED BY <2>2, <2>3 DEF q, Remnant
  <1>6. \/ torn \in {Blank, Garbled}
        \/ \E n \in 0..Len(file.rules) : torn = [file EXCEPT !.rules = SubSeq(@, 1, n)]
        \/ \E n \in DOMAIN file.rules :
              \E last \in {[file.rules[n] EXCEPT !.reason = FALSE, !.expires = "never"]}
                          \cup {[file.rules[n] EXCEPT !.expires = e] : e \in {"never", "bad"}} :
                 torn = [file EXCEPT !.rules = Append(SubSeq(@, 1, n - 1), last)]
    BY DEF TornFile
  <1>7. ASSUME NEW n \in DOMAIN file.rules,
               NEW last \in {[file.rules[n] EXCEPT !.reason = FALSE, !.expires = "never"]}
                            \cup {[file.rules[n] EXCEPT !.expires = e] : e \in {"never", "bad"}}
        PROVE  last \in IgnoreEntries /\ Remnant(last, base)
    BY <1>5
  <1> QED BY <1>2, <1>3, <1>4, <1>6, <1>7

LEMMA LoadFacts ==
  ASSUME NEW file \in {Nil} \cup IgnoreFiles
  PROVE  /\ LoadFile(file).ok <=>
               \/ file = Nil
               \/ /\ file # Nil /\ file.parses /\ file.version = 1
                  /\ \A i \in DOMAIN file.rules : Valid(file.rules[i])
         /\ LoadFile(file).ok => LoadFile(file).rules = RulesOf(file)
         /\ LoadFile(file) \in [done : BOOLEAN, ok : BOOLEAN, rules : Seq(IgnoreEntries)]
         /\ LoadFile(file).ok \in BOOLEAN
  BY FileFacts DEF LoadFile, Loaded, RulesOf

LEMMA AppendFacts ==
  ASSUME NEW file \in IgnoreFiles, NEW rule \in IgnoreEntries
  PROVE  /\ AppendRule(file, rule) \in IgnoreFiles
         /\ AppendRule(file, rule).rules = Append(file.rules, rule)
         /\ AppendRule(file, rule).parses = file.parses
         /\ AppendRule(file, rule).version = IF file.version = 0 THEN 1 ELSE file.version
         /\ Len(file.rules) \in Nat /\ DOMAIN file.rules = 1..Len(file.rules)
         /\ DOMAIN AppendRule(file, rule).rules = 1..(Len(file.rules) + 1)
         /\ Len(AppendRule(file, rule).rules) = Len(file.rules) + 1
         /\ AppendRule(file, rule).rules[Len(file.rules) + 1] = rule
         /\ \A i \in 1..Len(file.rules) : AppendRule(file, rule).rules[i] = file.rules[i]
         /\ \A i \in 1..(Len(file.rules) + 1) : i \in 1..Len(file.rules) \/ i = Len(file.rules) + 1
  <1>1. file.rules \in Seq(IgnoreEntries) /\ file.version \in Nat
    BY FileFacts
  <1>2. Append(file.rules, rule) \in Seq(IgnoreEntries)
    BY <1>1
  <1>3. /\ AppendRule(file, rule) \in IgnoreFiles
        /\ AppendRule(file, rule).rules = Append(file.rules, rule)
        /\ AppendRule(file, rule).parses = file.parses
        /\ AppendRule(file, rule).version = IF file.version = 0 THEN 1 ELSE file.version
    <2> DEFINE rules == Append(file.rules, rule)
    <2>1. rules \in Seq(IgnoreEntries)
      BY <1>2
    <2>2. AppendRule(file, rule) = [file EXCEPT !.version = IF @ = 0 THEN 1 ELSE @, !.rules = rules]
      BY DEF AppendRule
    <2> HIDE DEF rules
    <2>3. AppendRule(file, rule) =
             [parses |-> file.parses, version |-> IF file.version = 0 THEN 1 ELSE file.version,
              rules |-> rules]
      BY <2>2 DEF IgnoreFiles
    <2>4. /\ AppendRule(file, rule) \in IgnoreFiles /\ AppendRule(file, rule).rules = rules
          /\ AppendRule(file, rule).parses = file.parses
          /\ AppendRule(file, rule).version = IF file.version = 0 THEN 1 ELSE file.version
      BY <2>1, <2>3, <1>1 DEF IgnoreFiles
    <2> QED BY <2>4 DEF rules
  <1>4. /\ Len(file.rules) \in Nat /\ DOMAIN file.rules = 1..Len(file.rules)
        /\ DOMAIN Append(file.rules, rule) = 1..(Len(file.rules) + 1)
        /\ Len(Append(file.rules, rule)) = Len(file.rules) + 1
        /\ Append(file.rules, rule)[Len(file.rules) + 1] = rule
        /\ \A i \in 1..Len(file.rules) : Append(file.rules, rule)[i] = file.rules[i]
        /\ \A i \in 1..(Len(file.rules) + 1) : i \in 1..Len(file.rules) \/ i = Len(file.rules) + 1
    BY <1>1
  <1> QED BY <1>3, <1>4

\* A rule that a good file does not have can be appended to it.
LEMMA AppendKeepsGood ==
  ASSUME NEW base \in {Nil} \cup IgnoreFiles, NEW now \in {Nil} \cup IgnoreFiles,
         NEW file, file = IF now = Nil THEN Blank ELSE now,
         NEW a \in Adds, NEW holders, file.parses, ~Has(file, NewRule[a]),
         Good(now, base, holders)
  PROVE  /\ Good(AppendRule(file, NewRule[a]), base, holders \cup {a})
         /\ Holds(AppendRule(file, NewRule[a]).rules, NewRule[a])
  <1> DEFINE rule == NewRule[a]
             copy == AppendRule(file, rule)
             count == Len(file.rules)
             rules == copy.rules
  <1>1. /\ file \in IgnoreFiles /\ rule \in IgnoreEntries /\ rule.reason /\ rule.expires # "bad"
        /\ RulesOf(now) = file.rules
    BY FileFacts, AddsAssumption
  <1>2. /\ copy \in IgnoreFiles /\ RulesOf(copy) = rules /\ copy.parses = file.parses
        /\ copy.version = IF file.version = 0 THEN 1 ELSE file.version
        /\ count \in Nat /\ DOMAIN file.rules = 1..count /\ DOMAIN rules = 1..(count + 1)
        /\ Len(rules) = count + 1 /\ rules[count + 1] = rule
        /\ \A i \in 1..count : rules[i] = file.rules[i]
        /\ \A i \in 1..(count + 1) : i \in 1..count \/ i = count + 1
    <2>1. copy \in IgnoreFiles
      BY <1>1, AppendFacts
    <2>2. RulesOf(copy) = rules
      BY <2>1, FileFacts
    <2> QED BY <2>1, <2>2, <1>1, AppendFacts
  <1>3. \A i \in 1..count : file.rules[i].key # rule.key
    BY <1>2 DEF Has
  <1>4. /\ Continues(file.rules, base) /\ Unrepeated(file.rules, base)
        /\ \A i \in 1..count : file.rules[i] \in Meant(base)
        /\ \A b \in holders : Holds(file.rules, NewRule[b])
        /\ LoadFile(base).ok => LoadFile(now).ok \/ Blanks(holders)
    BY <1>1, <1>2 DEF Good
  <1>5. rule \in Meant(base)
    BY MeantFacts
  <1>6. LoadFile(now).ok => LoadFile(copy).ok \/ rule.key \in NoAddress
    <2> SUFFICES ASSUME LoadFile(now).ok, rule.key \notin NoAddress PROVE LoadFile(copy).ok
      OBVIOUS
    <2>1. (\A i \in 1..count : Valid(file.rules[i])) /\ Valid(rule)
      <3>1. CASE now = Nil
        <4>1. DOMAIN file.rules = {}
          BY <3>1, FileFacts
        <4> QED BY <4>1, <1>1, <1>2 DEF Valid
      <3>2. CASE now # Nil
        BY <3>2, <1>1, <1>2, LoadFacts DEF Valid
      <3> QED BY <3>1, <3>2
    <2>2. copy.version = 1
      BY <1>2, LoadFacts, FileFacts
    <2> HIDE DEF copy, rule, count
    <2>3. \A i \in DOMAIN copy.rules : Valid(copy.rules[i])
      BY <2>1, <1>1, <1>2
    <2> QED BY <2>2, <2>3, <1>2, LoadFacts, FileFacts
  <1> HIDE DEF copy, rule, count, rules
  <1>7. Continues(rules, base)
    <2>1. Len(RulesOf(base)) <= count /\ \A i \in 1..Len(RulesOf(base)) : RulesOf(base)[i] = file.rules[i]
      BY <1>4 DEF Continues, count
    <2>2. Len(RulesOf(base)) \in Nat
      BY FileFacts
    <2>3. \A i \in 1..Len(RulesOf(base)) : i \in 1..count
      BY <2>1, <2>2, <1>2
    <2> QED BY <2>1, <2>2, <2>3, <1>2 DEF Continues
  <1>8. Unrepeated(rules, base)
    BY <1>2, <1>3, <1>4 DEF Unrepeated
  <1>9. \A b \in holders : Holds(rules, NewRule[b])
    <2> SUFFICES ASSUME NEW b \in holders PROVE Holds(rules, NewRule[b])
      OBVIOUS
    <2>1. PICK i \in 1..count :
             file.rules[i] = NewRule[b] /\ \A j \in 1..count : file.rules[j].key = NewRule[b].key => j = i
      BY <1>2, <1>4 DEF Holds
    <2>2. rules[i] = NewRule[b] /\ i \in 1..(count + 1)
      BY <2>1, <1>2
    <2>3. \A j \in 1..(count + 1) : rules[j].key = NewRule[b].key => j = i
      BY <2>1, <1>2, <1>3
    <2> QED BY <2>2, <2>3, <1>2 DEF Holds
  <1>10. Holds(rules, rule)
    <2>1. count + 1 \in 1..(count + 1)
      BY <1>2
    <2> QED BY <2>1, <1>2, <1>3 DEF Holds
  <1>11. Good(copy, base, holders \cup {a})
    <2>1. \A b \in holders \cup {a} : Holds(rules, NewRule[b])
      BY <1>9, <1>10 DEF rule
    <2>2. LoadFile(base).ok => LoadFile(copy).ok \/ Blanks(holders \cup {a})
      BY <1>4, <1>6 DEF Blanks, rule
    <2>3. \A i \in DOMAIN rules : rules[i] \in Meant(base)
      BY <1>2, <1>4, <1>5
    <2> QED BY <1>2, <1>7, <1>8, <2>1, <2>2, <2>3 DEF Good
  <1> QED BY <1>10, <1>11 DEF rule, copy, rules

\* What a change of phase leaves, with an exit code and without.
LEMMA PhaseFacts ==
  ASSUME add \in [Adds -> AddStates], NEW a \in Adds, NEW phase \in AddPhases,
         add' = [add EXCEPT ![a].phase = phase]
  PROVE  /\ add' \in [Adds -> AddStates] /\ \A b \in Adds \ {a} : add'[b] = add[b]
         /\ add'[a].phase = phase /\ add'[a].copy = add[a].copy /\ add'[a].exit = add[a].exit
  BY DEF AddStates

LEMMA EndsFacts ==
  ASSUME add \in [Adds -> AddStates], NEW a \in Adds, NEW phase \in AddPhases,
         NEW code \in {0, 1, 2}, add' = [add EXCEPT ![a].phase = phase, ![a].exit = code]
  PROVE  /\ add' \in [Adds -> AddStates] /\ \A b \in Adds \ {a} : add'[b] = add[b]
         /\ add'[a].phase = phase /\ add'[a].exit = code
  BY DEF AddStates

\* A step of an add that leaves it with nothing to write, and the file as it is.
LEMMA QuietKeepsRules ==
  ASSUME IgnoreInv, NEW a \in Adds, rulesFile' = rulesFile, load' = load, first' = first,
         muddled' \in BOOLEAN, muddled => muddled', add[a].phase # "writing",
         add' \in [Adds -> AddStates], \A b \in Adds \ {a} : add'[b] = add[b],
         add'[a].phase \notin {"read", "writing"},
         add'[a].phase \in {"written", "done"} <=> Holder(a),
         ~muddled' /\ add'[a].phase = "done" /\ add'[a].exit = 0 => NewRule[a].key \notin NoAddress
  PROVE  IgnoreInv'
  <1>1. /\ \A b \in Adds : Busy(b)' => Busy(b) /\ add'[b] = add[b]
        /\ \A b \in Adds : Holder(b)' <=> Holder(b)
    BY DEF Busy, Holder
  <1>2. Holders' = Holders /\ Blanks(Holders)' = Blanks(Holders)
    BY <1>1 DEF Holders, Blanks
  <1>3. FilesTypeOK'
    BY <1>1 DEF IgnoreInv, FilesTypeOK
  <1>4. NothingInvented'
    BY <1>1 DEF IgnoreInv, NothingInvented
  <1>5. ASSUME ~muddled' PROVE NothingLost'
    <2>1. NothingLost
      BY <1>5 DEF IgnoreInv
    <2>2. \A b, c \in Adds : Busy(b)' /\ Busy(c)' => b = c
      BY <2>1, <1>1 DEF NothingLost
    <2>3. (\A b \in Adds : add'[b].phase # "writing") => Good(rulesFile, first, Holders')
      BY <2>1, <1>2 DEF NothingLost
    <2>4. \A b \in Adds : Busy(b)' =>
             Good(add'[b].copy, first, Holders' \cup {b}) /\ Holds(add'[b].copy.rules, NewRule[b])
      BY <2>1, <1>1, <1>2 DEF NothingLost
    <2>5. \A b \in Adds : add'[b].phase = "writing" => rulesFile = Blank
      BY <2>1 DEF NothingLost
    <2>6. \A b \in Adds : add'[b].phase = "done" /\ add'[b].exit = 0 => NewRule[b].key \notin NoAddress
      BY <2>1, <1>5 DEF NothingLost
    <2> QED BY <2>1, <2>2, <2>3, <2>4, <2>5, <2>6, <1>2 DEF NothingLost
  <1> QED BY <1>3, <1>4, <1>5 DEF IgnoreInv

LEMMA ReadKeepsRules ==
  ASSUME IgnoreInv, NEW a \in Adds, ReadRules(a)
  PROVE  IgnoreInv'
  <1> DEFINE file == IF rulesFile = Nil THEN Blank ELSE rulesFile
             copy == AppendRule(file, NewRule[a])
  <1>1. /\ rulesFile' = rulesFile /\ load' = load /\ first' = first
        /\ muddled' = (muddled \/ \E b \in Adds : Busy(b))
        /\ add[a].phase = "idle" /\ add \in [Adds -> AddStates] /\ muddled \in BOOLEAN
        /\ rulesFile \in {Nil} \cup IgnoreFiles /\ first \in {Nil} \cup IgnoreFiles
        /\ RulesOf(rulesFile) = file.rules
    BY FileFacts DEF ReadRules, Busy, IgnoreInv, FilesTypeOK
  <1>2. ASSUME NEW code \in {1, 2}, Ends(a, "failed", code) PROVE IgnoreInv'
    <2>1. /\ add' \in [Adds -> AddStates] /\ \A b \in Adds \ {a} : add'[b] = add[b]
          /\ add'[a].phase = "failed" /\ add'[a].exit = code
      BY <1>1, <1>2 DEF Ends, AddStates, AddPhases
    <2>2. ~Holder(a)
      BY <1>1 DEF Holder
    <2> QED BY <1>1, <2>1, <2>2, QuietKeepsRules
  <1>3. CASE /\ file.parses /\ ~Has(file, NewRule[a])
             /\ add' = [add EXCEPT ![a].phase = "read", ![a].copy = copy]
    <2>1. file \in IgnoreFiles /\ NewRule[a] \in IgnoreEntries
      BY <1>1, FileFacts, AddsAssumption
    <2>2. copy \in IgnoreFiles /\ AllRemnants(copy.rules, first)
      <3>1. AllRemnants(file.rules, first)
        BY <1>1 DEF IgnoreInv, NothingInvented
      <3>2. Remnant(NewRule[a], first)
        BY <1>1, MeantFacts
      <3> HIDE DEF file
      <3>3. copy \in IgnoreFiles
        BY <2>1, AppendFacts
      <3>4. AllRemnants(copy.rules, first)
        <4> DEFINE count == Len(file.rules)
        <4>1. /\ DOMAIN file.rules = 1..count /\ DOMAIN copy.rules = 1..(count + 1)
              /\ copy.rules[count + 1] = NewRule[a]
              /\ \A i \in 1..count : copy.rules[i] = file.rules[i]
              /\ \A i \in 1..(count + 1) : i \in 1..count \/ i = count + 1
          BY <2>1, AppendFacts
        <4> HIDE DEF copy, count
        <4> QED BY <4>1, <3>1, <3>2 DEF AllRemnants
      <3> QED BY <3>3, <3>4
    <2> HIDE DEF file, copy
    <2>3. /\ add' \in [Adds -> AddStates] /\ \A b \in Adds \ {a} : add'[b] = add[b]
          /\ add'[a].phase = "read" /\ add'[a].copy = copy
      BY <1>1, <1>3, <2>2 DEF AddStates, AddPhases
    <2>4. /\ \A b \in Adds : Busy(b)' <=> Busy(b) \/ b = a
          /\ \A b \in Adds : Holder(b)' <=> Holder(b)
      BY <1>1, <2>3 DEF Busy, Holder
    <2>5. Holders' = Holders
      BY <2>4 DEF Holders
    <2>6. FilesTypeOK'
      BY <1>1, <2>2, <2>3, <2>4 DEF IgnoreInv, FilesTypeOK
    <2>7. NothingInvented'
      BY <1>1, <2>2, <2>3, <2>4 DEF IgnoreInv, NothingInvented
    <2>8. ASSUME ~muddled' PROVE NothingLost'
      <3>1. ~muddled /\ NothingLost /\ \A b \in Adds : ~Busy(b)
        BY <1>1, <2>8 DEF IgnoreInv
      <3>2. Good(rulesFile, first, Holders)
        BY <3>1 DEF NothingLost, Busy
      <3>3. Good(copy, first, Holders \cup {a}) /\ Holds(copy.rules, NewRule[a])
        BY <3>2, <1>1, <1>3, AppendKeepsGood DEF file, copy
      <3>4. Blanks(Holders)' = Blanks(Holders)
        BY <2>5 DEF Blanks
      <3>5. \A b \in Adds : add'[b].phase # "writing"
        BY <3>1, <2>3 DEF Busy
      <3>6. \A b \in Adds : add'[b].phase = "done" => add'[b] = add[b]
        BY <2>3
      <3> QED BY <1>1, <2>3, <2>4, <2>5, <3>1, <3>2, <3>3, <3>4, <3>5, <3>6 DEF NothingLost
    <2> QED BY <2>6, <2>7, <2>8 DEF IgnoreInv
  <1>4. \/ Ends(a, "failed", 1) \/ Ends(a, "failed", 2)
        \/ /\ file.parses /\ ~Has(file, NewRule[a])
           /\ add' = [add EXCEPT ![a].phase = "read", ![a].copy = copy]
    BY DEF ReadRules
  <1> QED BY <1>2, <1>3, <1>4

LEMMA OpenKeepsRules ==
  ASSUME IgnoreInv, NEW a \in Adds, OpenRules(a)
  PROVE  IgnoreInv'
  <1>1. /\ load' = load /\ first' = first /\ muddled' = muddled
        /\ add[a].phase = "read" /\ add \in [Adds -> AddStates] /\ muddled \in BOOLEAN
    BY DEF OpenRules, IgnoreInv, FilesTypeOK
  <1>2. CASE Ends(a, "failed", 1) /\ rulesFile' = rulesFile
    <2>1. /\ add' \in [Adds -> AddStates] /\ \A b \in Adds \ {a} : add'[b] = add[b]
          /\ add'[a].phase = "failed" /\ add'[a].exit = 1
      BY <1>1, <1>2 DEF Ends, AddStates, AddPhases
    <2>2. ~Holder(a)
      BY <1>1 DEF Holder
    <2> QED BY <1>1, <1>2, <2>1, <2>2, QuietKeepsRules
  <1>3. CASE add' = [add EXCEPT ![a].phase = "writing"] /\ rulesFile' = Blank
    <2>1. /\ add' \in [Adds -> AddStates] /\ \A b \in Adds \ {a} : add'[b] = add[b]
          /\ add'[a].phase = "writing" /\ add'[a].copy = add[a].copy
      BY <1>1, <1>3 DEF AddStates, AddPhases
    <2>2. /\ \A b \in Adds : Busy(b)' <=> Busy(b)
          /\ \A b \in Adds : Holder(b)' <=> Holder(b)
          /\ \A b \in Adds : add'[b].copy = add[b].copy
      BY <1>1, <2>1 DEF Busy, Holder
    <2>3. Holders' = Holders
      BY <2>2 DEF Holders
    <2>4. FilesTypeOK'
      BY <1>1, <1>3, <2>1, <2>2, FileFacts DEF IgnoreInv, FilesTypeOK
    <2>5. AllRemnants(RulesOf(rulesFile'), first)
      BY <1>3, FileFacts DEF AllRemnants
    <2>6. NothingInvented'
      BY <1>1, <2>2, <2>5 DEF IgnoreInv, NothingInvented
    <2>7. ASSUME NothingLost PROVE NothingLost'
      <3>1. Blanks(Holders)' = Blanks(Holders)
        BY <2>3 DEF Blanks
      <3>2. \A b \in Adds : add'[b].phase = "done" => add'[b] = add[b]
        BY <2>1
      <3> QED BY <1>1, <1>3, <2>1, <2>2, <2>3, <2>7, <3>1, <3>2 DEF NothingLost
    <2> QED BY <1>1, <2>4, <2>6, <2>7 DEF IgnoreInv
  <1> QED BY <1>2, <1>3 DEF OpenRules

LEMMA WriteKeepsRules ==
  ASSUME IgnoreInv, NEW a \in Adds, WriteRules(a)
  PROVE  IgnoreInv'
  <1>1. /\ load' = load /\ first' = first /\ muddled' = muddled /\ rulesFile' = add[a].copy
        /\ add' = [add EXCEPT ![a].phase = "written"] /\ add[a].phase = "writing"
        /\ add \in [Adds -> AddStates] /\ muddled \in BOOLEAN
        /\ Busy(a) /\ add[a].copy \in IgnoreFiles
    BY DEF WriteRules, IgnoreInv, FilesTypeOK, Busy
  <1>2. /\ add' \in [Adds -> AddStates] /\ \A b \in Adds \ {a} : add'[b] = add[b]
        /\ add'[a].phase = "written"
    BY <1>1 DEF AddStates, AddPhases
  <1>3. /\ \A b \in Adds : Busy(b)' <=> Busy(b) /\ b # a
        /\ \A b \in Adds : Holder(b)' <=> Holder(b) \/ b = a
    BY <1>1, <1>2 DEF Busy, Holder
  <1>4. Holders' = Holders \cup {a}
    BY <1>3 DEF Holders
  <1>5. FilesTypeOK'
    BY <1>1, <1>2, <1>3 DEF IgnoreInv, FilesTypeOK
  <1>6. AllRemnants(RulesOf(rulesFile'), first)
    BY <1>1, FileFacts DEF IgnoreInv, NothingInvented
  <1>7. NothingInvented'
    BY <1>1, <1>2, <1>3, <1>6 DEF IgnoreInv, NothingInvented
  <1>8. ASSUME NothingLost PROVE NothingLost'
    <2>1. \A b \in Adds : ~Busy(b)'
      BY <1>8, <1>1, <1>3 DEF NothingLost
    <2>2. Good(rulesFile', first, Holders')
      BY <1>8, <1>1, <1>4 DEF NothingLost
    <2>3. Blanks(Holders) => Blanks(Holders)'
      BY <1>4 DEF Blanks
    <2>4. \A b \in Adds : add'[b].phase = "done" => add'[b] = add[b]
      BY <1>2
    <2>5. \A b \in Adds : add'[b].phase # "writing"
      BY <2>1 DEF Busy
    <2> QED BY <2>1, <2>2, <2>3, <2>4, <2>5, <1>1, <1>8 DEF NothingLost
  <1> QED BY <1>1, <1>5, <1>7, <1>8 DEF IgnoreInv

LEMMA CutKeepsRules ==
  ASSUME IgnoreInv, NEW a \in Adds, CutShort(a)
  PROVE  IgnoreInv'
  <1>1. /\ load' = load /\ first' = first /\ muddled' = TRUE /\ rulesFile' \in TornFile(add[a].copy)
        /\ add \in [Adds -> AddStates] /\ Busy(a) /\ add[a].copy \in IgnoreFiles
        /\ first \in {Nil} \cup IgnoreFiles /\ AllRemnants(add[a].copy.rules, first)
    BY DEF CutShort, IgnoreInv, FilesTypeOK, NothingInvented, Busy
  <1>2. /\ add' \in [Adds -> AddStates] /\ \A b \in Adds \ {a} : add'[b] = add[b]
        /\ add'[a].phase \in {"failed", "killed"}
    <2>1. CASE Ends(a, "failed", 1)
      BY <1>1, <2>1, EndsFacts DEF Ends, AddPhases
    <2>2. CASE add' = [add EXCEPT ![a].phase = "killed"]
      BY <1>1, <2>2, PhaseFacts DEF AddPhases
    <2> QED BY <2>1, <2>2 DEF CutShort
  <1>3. \A b \in Adds : Busy(b)' => Busy(b) /\ add'[b] = add[b]
    BY <1>2 DEF Busy
  <1>4. rulesFile' \in IgnoreFiles /\ AllRemnants(RulesOf(rulesFile'), first)
    BY <1>1, TornFacts, FileFacts
  <1>5. FilesTypeOK'
    BY <1>1, <1>2, <1>3, <1>4 DEF IgnoreInv, FilesTypeOK
  <1>6. NothingInvented'
    BY <1>1, <1>3, <1>4 DEF IgnoreInv, NothingInvented
  <1> QED BY <1>1, <1>5, <1>6 DEF IgnoreInv

LEMMA LoadKeepsRules ==
  ASSUME IgnoreInv, LoadRules
  PROVE  IgnoreInv'
  <1>1. /\ rulesFile' = rulesFile /\ add' = add /\ first' = first
        /\ load' = LoadFile(rulesFile)
        /\ muddled' = (muddled \/ \E a \in Adds : add[a].phase = "writing")
        /\ rulesFile \in {Nil} \cup IgnoreFiles /\ first \in {Nil} \cup IgnoreFiles
        /\ AllRemnants(RulesOf(rulesFile), first) /\ muddled \in BOOLEAN
    BY DEF LoadRules, IgnoreInv, FilesTypeOK, NothingInvented
  <1>2. /\ \A a \in Adds : (Busy(a)' <=> Busy(a)) /\ (Holder(a)' <=> Holder(a))
        /\ Holders' = Holders
    BY <1>1 DEF Busy, Holder, Holders
  <1>3. FilesTypeOK'
    <2>1. load' \in [done : BOOLEAN, ok : BOOLEAN, rules : Seq(IgnoreEntries)]
      BY <1>1, LoadFacts
    <2>2. muddled' \in BOOLEAN
      BY <1>1
    <2> QED BY <1>1, <1>2, <2>1, <2>2 DEF IgnoreInv, FilesTypeOK
  <1>4. ~muddled' => NothingLost /\ Good(rulesFile, first, Holders)
    BY <1>1 DEF IgnoreInv, NothingLost
  <1>5. ASSUME load'.ok, NEW i \in DOMAIN load'.rules
        PROVE  \/ load'.rules[i] \in Meant(first)
               \/ muddled' /\ \E r \in Meant(first) : load'.rules[i] = [r EXCEPT !.expires = "never"]
    <2>1. load'.rules = RulesOf(rulesFile)
      BY <1>1, <1>5, LoadFacts
    <2> DEFINE q == RulesOf(rulesFile)[i]
    <2>2. Valid(q)
      <3>1. rulesFile # Nil
        BY <1>5, <2>1, FileFacts
      <3> QED BY <3>1, <1>1, <1>5, <2>1, LoadFacts, FileFacts
    <2>3. Remnant(q, first)
      BY <1>1, <1>5, <2>1 DEF AllRemnants
    <2>4. ~muddled' => q \in Meant(first)
      BY <1>4, <1>5, <2>1 DEF Good
    <2> HIDE DEF q
    <2>5. ASSUME NEW r \in Meant(first), NEW e \in {"never", "bad"}, q = [r EXCEPT !.expires = e]
          PROVE  e = "never"
      BY <2>2, <2>5, <1>1, MeantFacts, EntryFacts DEF Valid
    <2>6. q \in Meant(first) \/ \E r \in Meant(first) : q = [r EXCEPT !.expires = "never"]
      BY <2>2, <2>3, <2>5 DEF Remnant, Valid
    <2> QED BY <2>1, <2>4, <2>6, <1>3 DEF q, FilesTypeOK
  <1>6. NothingInvented'
    BY <1>1, <1>2, <1>5 DEF IgnoreInv, NothingInvented
  <1>7. ASSUME ~muddled' PROVE NothingLost'
    <2>1. load'.ok => Unrepeated(load'.rules, first)
      BY <1>1, <1>4, <1>7, LoadFacts DEF Good
    <2>2. LoadFile(first).ok => load'.ok \/ Blanks(Holders)
      BY <1>1, <1>4, <1>7 DEF Good
    <2>3. Blanks(Holders)' = Blanks(Holders)
      BY <1>2 DEF Blanks
    <2> QED BY <1>1, <1>2, <1>4, <1>7, <2>1, <2>2, <2>3 DEF NothingLost
  <1> QED BY <1>3, <1>6, <1>7 DEF IgnoreInv

LEMMA IgnoreInvStep ==
  ASSUME IgnoreInv, [IgnoreNext]_ignoreVars
  PROVE  IgnoreInv'
  <1>1. ASSUME NEW a \in Adds, EndEarly(a) PROVE IgnoreInv'
    <2>1. /\ rulesFile' = rulesFile /\ load' = load /\ first' = first /\ muddled' = muddled
          /\ add[a].phase = "idle" /\ add \in [Adds -> AddStates] /\ muddled \in BOOLEAN
      BY <1>1 DEF EndEarly, IgnoreInv, FilesTypeOK
    <2>2. /\ add' \in [Adds -> AddStates] /\ \A b \in Adds \ {a} : add'[b] = add[b]
          /\ add'[a].phase = "ended early"
      <3>1. PICK code \in {0, 2} :
               add' = [add EXCEPT ![a].phase = "ended early", ![a].exit = code]
        BY <1>1 DEF EndEarly, Ends
      <3> QED BY <3>1, <2>1, EndsFacts DEF AddPhases
    <2>3. ~Holder(a)
      BY <2>1 DEF Holder
    <2> QED BY <2>1, <2>2, <2>3, QuietKeepsRules
  <1>2. ASSUME NEW a \in Adds, ReadBack(a) PROVE IgnoreInv'
    <2>1. /\ rulesFile' = rulesFile /\ load' = load /\ first' = first /\ muddled' = muddled
          /\ add[a].phase = "written" /\ add \in [Adds -> AddStates] /\ muddled \in BOOLEAN
          /\ Holder(a)
      BY <1>2 DEF ReadBack, IgnoreInv, FilesTypeOK, Holder
    <2> DEFINE code == IF LoadFile(rulesFile).ok THEN 0 ELSE 1
    <2>2. Ends(a, "done", code) /\ code \in {0, 1, 2}
      BY <1>2 DEF ReadBack
    <2>3. /\ add' \in [Adds -> AddStates] /\ \A b \in Adds \ {a} : add'[b] = add[b]
          /\ add'[a].phase = "done" /\ add'[a].exit = code
      <3> HIDE DEF code
      <3>1. add' = [add EXCEPT ![a].phase = "done", ![a].exit = code]
        BY <2>2 DEF Ends
      <3>2. "done" \in AddPhases
        BY DEF AddPhases
      <3> QED BY <3>1, <3>2, <2>1, <2>2, EndsFacts
    <2>4. ASSUME ~muddled, code = 0 PROVE NewRule[a].key \notin NoAddress
      <3>1. NothingLost /\ rulesFile \in {Nil} \cup IgnoreFiles
        BY <2>4 DEF IgnoreInv, FilesTypeOK
      <3>2. LoadFile(rulesFile).ok
        BY <2>4
      <3>3. rulesFile # Blank
        BY <3>2, LoadFacts, FileFacts
      <3>4. Good(rulesFile, first, Holders)
        BY <3>1, <3>3 DEF NothingLost
      <3>5. Holds(RulesOf(rulesFile), NewRule[a])
        BY <3>4, <2>1 DEF Good, Holders
      <3>6. rulesFile # Nil
        BY <3>5, FileFacts DEF Holds
      <3>7. PICK i \in DOMAIN rulesFile.rules : rulesFile.rules[i] = NewRule[a]
        BY <3>1, <3>5, <3>6, FileFacts DEF Holds
      <3>8. Valid(rulesFile.rules[i])
        BY <3>1, <3>2, <3>6, <3>7, LoadFacts
      <3> QED BY <3>7, <3>8 DEF Valid
    <2> HIDE DEF code
    <2> QED BY <2>1, <2>3, <2>4, QuietKeepsRules
  <1>3. CASE UNCHANGED ignoreVars
    <2>1. /\ rulesFile' = rulesFile /\ load' = load /\ first' = first /\ muddled' = muddled
          /\ add' = add
      BY <1>3 DEF ignoreVars
    <2>2. /\ \A a \in Adds : (Busy(a)' <=> Busy(a)) /\ (Holder(a)' <=> Holder(a))
          /\ Holders' = Holders /\ Blanks(Holders)' = Blanks(Holders)
      BY <2>1 DEF Busy, Holder, Holders, Blanks
    <2> QED BY <2>1, <2>2 DEF IgnoreInv, FilesTypeOK, NothingInvented, NothingLost
  <1> QED BY <1>1, <1>2, <1>3, ReadKeepsRules, OpenKeepsRules, WriteKeepsRules, CutKeepsRules,
             LoadKeepsRules DEF IgnoreNext

LEMMA IgnoreInvImplies ==
  ASSUME IgnoreInv
  PROVE  RulesSurvive /\ IgnoreTypeOK
  <1>1. /\ rulesFile \in {Nil} \cup IgnoreFiles /\ first \in {Nil} \cup IgnoreFiles
        /\ RulesOf(rulesFile) \in Seq(IgnoreEntries) /\ RulesOf(first) \in Seq(IgnoreEntries)
    BY FileFacts DEF IgnoreInv, FilesTypeOK
  <1>2. AddsKeepRules
    <2> SUFFICES ASSUME ~muddled, \A a \in Adds : add[a].phase # "writing"
                 PROVE  /\ IsPrefix(RulesOf(first), RulesOf(rulesFile))
                        /\ \A a \in Adds : add[a].phase = "done" =>
                              /\ Cardinality({i \in DOMAIN rulesFile.rules :
                                                rulesFile.rules[i] = NewRule[a]}) = 1
                              /\ add[a].exit = 0 => NewRule[a].key \notin NoAddress
                        /\ LoadFile(first).ok => LoadFile(rulesFile).ok \/ Spoilt
                        /\ load.done /\ LoadFile(first).ok => load.ok \/ Spoilt
      BY DEF AddsKeepRules
    <2>1. NothingLost /\ Good(rulesFile, first, Holders)
      BY DEF IgnoreInv, NothingLost
    <2>2. IsPrefix(RulesOf(first), RulesOf(rulesFile))
      BY <2>1, <1>1, PrefixByItems DEF Good, Continues
    <2>3. ASSUME NEW a \in Adds, add[a].phase = "done"
          PROVE  Cardinality({i \in DOMAIN rulesFile.rules : rulesFile.rules[i] = NewRule[a]}) = 1
      <3>1. Holds(RulesOf(rulesFile), NewRule[a])
        BY <2>1, <2>3 DEF Good, Holders, Holder
      <3>2. rulesFile # Nil
        BY <3>1, FileFacts DEF Holds
      <3>3. PICK i \in DOMAIN rulesFile.rules :
               /\ rulesFile.rules[i] = NewRule[a]
               /\ \A j \in DOMAIN rulesFile.rules : rulesFile.rules[j].key = NewRule[a].key => j = i
        BY <3>1, <3>2, <1>1, FileFacts DEF Holds
      <3>4. {j \in DOMAIN rulesFile.rules : rulesFile.rules[j] = NewRule[a]} = {i}
        BY <3>3
      <3> QED BY <3>4, FS_Singleton
    <2>4. Spoilt <=> Blanks(Holders)
      BY DEF Spoilt, Blanks, Holders, Holder
    <2>5. /\ LoadFile(first).ok => LoadFile(rulesFile).ok \/ Spoilt
          /\ load.done /\ LoadFile(first).ok => load.ok \/ Spoilt
      BY <2>1, <2>4 DEF Good, NothingLost
    <2>6. \A a \in Adds : add[a].phase = "done" /\ add[a].exit = 0 => NewRule[a].key \notin NoAddress
      BY <2>1 DEF NothingLost
    <2> QED BY <2>2, <2>3, <2>5, <2>6
  <1>3. LoadedRulesWereMeant
    BY DEF IgnoreInv, NothingInvented, NothingLost, LoadedRulesWereMeant, Meant, Unrepeated
  <1>4. IgnoreTypeOK
    <2>1. load.rules \in Seq(IgnoreEntries)
      BY DEF IgnoreInv, FilesTypeOK
    <2>2. ToSet(load.rules) \subseteq IgnoreEntries
      BY <2>1 DEF ToSet
    <2> QED BY <2>2, <1>1 DEF IgnoreTypeOK, IgnoreInv, FilesTypeOK, AddStates, AddPhases
  <1> QED BY <1>2, <1>3, <1>4 DEF RulesSurvive

\* Of any number of adds, on any file there may be: when none overlap and no write is
\* cut short no rule is lost, and the file keeps loading (cli/ignorecmd.go:183) until
\* an add that does not succeed has written a rule without an address; and whatever
\* happens, what loads was meant (ignore/ignore.go).
THEOREM RulesAlwaysSurvive == IgnoreSpec => []RulesSurvive /\ []IgnoreTypeOK
  <1>1. IgnoreInit => IgnoreInv
    <2> SUFFICES ASSUME IgnoreInit PROVE IgnoreInv
      OBVIOUS
    <2>1. /\ rulesFile \in {Nil} \cup IgnoreFiles /\ first = rulesFile /\ muddled = FALSE
          /\ add = [a \in Adds |-> [phase |-> "idle", copy |-> Nil, exit |-> Nil]]
          /\ load = [done |-> FALSE, ok |-> TRUE, rules |-> <<>>]
      BY RulesAssumption DEF IgnoreInit
    <2>2. \A a \in Adds : ~Busy(a) /\ ~Holder(a) /\ add[a].phase # "writing"
      BY <2>1 DEF Busy, Holder
    <2>3. Holders = {}
      BY <2>2 DEF Holders
    <2>4. FilesTypeOK
      BY <2>1, <2>2, FileFacts DEF FilesTypeOK, AddStates, AddPhases
    <2>5. \A i \in DOMAIN RulesOf(rulesFile) : RulesOf(rulesFile)[i] \in Meant(first)
      BY <2>1 DEF Meant, ToSet
    <2>6. NothingInvented
      <3>1. \A i \in DOMAIN RulesOf(rulesFile) : Remnant(RulesOf(rulesFile)[i], first)
        BY <2>5 DEF Remnant
      <3>2. load.rules = <<>>
        BY <2>1
      <3> QED BY <3>1, <3>2, <2>2 DEF NothingInvented, AllRemnants
    <2>7. Good(rulesFile, first, Holders)
      <3>1. RulesOf(rulesFile) \in Seq(IgnoreEntries)
        BY <2>1, FileFacts
      <3> QED BY <3>1, <2>1, <2>3, <2>5 DEF Good, Continues, Unrepeated
    <2>8. NothingLost
      BY <2>1, <2>2, <2>7 DEF NothingLost, Unrepeated
    <2> QED BY <2>4, <2>6, <2>8 DEF IgnoreInv
  <1>2. IgnoreInv /\ [IgnoreNext]_ignoreVars => IgnoreInv'
    BY IgnoreInvStep
  <1>3. IgnoreInv => RulesSurvive /\ IgnoreTypeOK
    BY IgnoreInvImplies
  <1> QED BY <1>1, <1>2, <1>3, PTL DEF IgnoreSpec

-----------------------------------------------------------------------------
(* The live snapshot *)

CapturePhases ==
    {"idle", "planning", "planned", "extracted", "writing", "done", "failed", "cut",
     "cut and killed", "killed"}

CaptureStates ==
    [phase : CapturePhases, generated : BOOLEAN, keep : BOOLEAN, snapshot : Captured \cup {Nil}]

ReaderStates ==
    [phase : {"idle", "opening", "absent", "reading", "read", "over"},
     head : Captured \cup {Nil}, loaded : Captured \cup {Nil}]

SnapshotTypeOK ==
    /\ liveFile \in {Nil} \cup LiveFiles /\ before \in InitialFiles
    /\ capture \in [Capturers -> CaptureStates]
    /\ reader \in [Readers -> ReaderStates]
    /\ temps \subseteq Capturers /\ disturbed \subseteq Readers /\ clock \in Nat
    /\ \A r \in Readers : reader[r].phase = "reading" => liveFile \in LiveFiles

At(c, phases) == capture[c].phase \in phases

Writing(c) == At(c, {"writing"})

NoWrite == \A c \in Capturers : ~Writing(c)

WholeOf(s) == [head |-> s, tail |-> s]

\* What the file is when nobody writes it: as it was, from a capture that finished,
\* or cut off.
Origin ==
    \/ liveFile = before
    \/ \E c \in Capturers : At(c, {"done"}) /\ liveFile = WholeOf(capture[c].snapshot)
    \/ /\ \E c \in Capturers : At(c, {"cut", "cut and killed"})
       /\ liveFile \in LiveFiles /\ liveFile.tail = Nil

\* LoadedWasWhole for one reader.
FairlyRead(r) ==
    IF reader[r].loaded = Nil
    THEN \/ \E c \in Capturers : At(c, {"cut", "cut and killed"})
         \/ before \notin UsableFiles
    ELSE \/ reader[r].loaded.by \in Capturers /\ At(reader[r].loaded.by, {"done"})
         \/ before = WholeOf(reader[r].loaded) /\ before \in UsableFiles

CapturesInOrder ==
    \A c \in Capturers :
        /\ At(c, {"extracted", "writing", "done"}) =>
              /\ capture[c].snapshot # Nil /\ capture[c].snapshot.by = c
              /\ capture[c].snapshot.resources
        /\ Writing(c) => liveFile \in LiveFiles
        /\ At(c, {"idle"}) => c \notin temps /\ ~capture[c].keep

\* While not all readers are disturbed, one capture writes at most, on an empty
\* file, and who reads on reads the file he began with.
Calm ==
    /\ \A c, d \in Capturers : Writing(c) /\ Writing(d) => c = d
    /\ IF NoWrite THEN Origin ELSE liveFile = Empty
    /\ \A r \in Readers \ disturbed :
          /\ reader[r].phase = "reading" => NoWrite /\ reader[r].head = liveFile.head
          /\ reader[r].phase = "read" => FairlyRead(r)

SnapshotInv ==
    /\ SnapshotTypeOK
    /\ CapturesInOrder
    /\ PlansAreRemoved
    /\ Readers \subseteq disturbed \/ Calm

LEMMA SnapshotFacts ==
  /\ Empty \in LiveFiles /\ Empty.tail = Nil /\ Empty.head = Nil
  /\ \A s \in Captured : s # Nil /\ s.resources \in BOOLEAN /\ WholeOf(s) \in LiveFiles
  /\ \A f \in LiveFiles : /\ f # Nil /\ f.head \in Captured \cup {Nil} /\ f.tail \in Captured \cup {Nil}
                          /\ f = [head |-> f.head, tail |-> f.tail]
  /\ \A s \in Captured \cup {Nil} : WholeOf(s).head = s /\ WholeOf(s).tail = s
  <1>1. \A s \in Captured : s # Nil /\ s.resources \in BOOLEAN
    BY NoSnapshotAssumption DEF Captured
  <1>2. \A f \in LiveFiles : f # Nil
    BY NoSnapshotAssumption
  <1> QED BY <1>1, <1>2 DEF Empty, LiveFiles, WholeOf

LEMMA CapturePhaseFacts ==
  ASSUME SnapshotTypeOK, NEW c \in Capturers, NEW phase \in CapturePhases,
         capture' = [capture EXCEPT ![c].phase = phase]
  PROVE  /\ capture' \in [Capturers -> CaptureStates]
         /\ \A d \in Capturers \ {c} : capture'[d] = capture[d]
         /\ capture'[c].phase = phase /\ capture'[c].keep = capture[c].keep
         /\ capture'[c].snapshot = capture[c].snapshot
  BY DEF SnapshotTypeOK, CaptureStates

\* The phases that matter to those who read.
Telling == {"writing", "done", "cut", "cut and killed"}

\* A capture that is not near the file, before and after, changes nothing for them.
LEMMA CaptureKeepsCalm ==
  ASSUME SnapshotTypeOK, NEW c \in Capturers,
         liveFile' = liveFile, reader' = reader, before' = before, disturbed' = disturbed,
         \A d \in Capturers \ {c} : capture'[d] = capture[d],
         capture[c].phase \notin Telling, capture'[c].phase \notin Telling
  PROVE  Calm => Calm'
  <1>1. \A d \in Capturers :
           /\ At(d, {"writing"})' <=> At(d, {"writing"})
           /\ At(d, {"done"})' <=> At(d, {"done"})
           /\ At(d, {"cut", "cut and killed"})' <=> At(d, {"cut", "cut and killed"})
           /\ At(d, {"done"}) => capture'[d].snapshot = capture[d].snapshot
    BY DEF At, Telling
  <1>2. \A d \in Capturers : Writing(d)' <=> Writing(d)
    BY <1>1 DEF Writing
  <1>3. NoWrite' <=> NoWrite
    BY <1>2 DEF NoWrite
  <1>4. Origin => Origin'
    BY <1>1 DEF Origin
  <1>5. \A r \in Readers : FairlyRead(r) => FairlyRead(r)'
    BY <1>1 DEF FairlyRead
  <1> QED BY <1>2, <1>3, <1>4, <1>5 DEF Calm

LEMMA CaptureKeepsSnapshots ==
  ASSUME SnapshotInv, NEW c \in Capturers,
         StartCapture(c) \/ GeneratePlan(c) \/ Extract(c) \/ CaptureFails(c) \/ Kill(c)
  PROVE  SnapshotInv'
  <1>1. /\ liveFile' = liveFile /\ reader' = reader /\ before' = before
        /\ disturbed' = disturbed /\ clock' = clock /\ SnapshotTypeOK
    BY DEF StartCapture, GeneratePlan, Extract, CaptureFails, Kill, SnapshotInv
  <1>2. /\ capture' \in [Capturers -> CaptureStates] /\ temps' \subseteq Capturers
        /\ \A d \in Capturers \ {c} : capture'[d] = capture[d] /\ (d \in temps' <=> d \in temps)
        /\ capture[c].phase \notin Telling /\ capture'[c].phase \notin Telling \cup {"idle"}
        /\ capture'[c].phase = "extracted" =>
              /\ capture'[c].snapshot # Nil /\ capture'[c].snapshot.by = c
              /\ capture'[c].snapshot.resources
        /\ c \in temps' => capture'[c].keep \/ capture'[c].phase # "failed"
    <2>1. CASE StartCapture(c)
      <3>1. PICK generated \in BOOLEAN, keep \in BOOLEAN :
               /\ capture' = [capture EXCEPT ![c] =
                     [Idle EXCEPT !.phase = IF generated THEN "planning" ELSE "planned",
                                  !.generated = generated, !.keep = keep]]
               /\ temps' = IF generated THEN temps \cup {c} ELSE temps
        BY <2>1 DEF StartCapture
      <3>2. capture[c].phase = "idle"
        BY <2>1 DEF StartCapture
      <3> DEFINE kind == IF generated THEN "planning" ELSE "planned"
                 new == [Idle EXCEPT !.phase = kind, !.generated = generated, !.keep = keep]
      <3>3. capture' = [capture EXCEPT ![c] = new]
        BY <3>1
      <3>4. new \in CaptureStates /\ new.phase \in {"planning", "planned"}
        <4>1. Idle \in CaptureStates
          BY DEF Idle, CaptureStates, CapturePhases
        <4>2. kind \in {"planning", "planned"}
          OBVIOUS
        <4> HIDE DEF kind
        <4> QED BY <4>1, <4>2 DEF CaptureStates, CapturePhases
      <3> HIDE DEF new
      <3>5. /\ capture' \in [Capturers -> CaptureStates]
            /\ \A d \in Capturers \ {c} : capture'[d] = capture[d]
            /\ capture'[c] = new
        BY <3>3, <3>4, <1>1 DEF SnapshotTypeOK
      <3> QED BY <3>1, <3>2, <3>4, <3>5, <1>1 DEF SnapshotTypeOK, Telling
    <2>2. CASE GeneratePlan(c)
      BY <2>2, <1>1, CapturePhaseFacts DEF GeneratePlan, CapturePhases, Telling, SnapshotTypeOK
    <2>3. CASE Extract(c)
      <3> DEFINE shot == [by |-> c, at |-> clock, resources |-> TRUE]
      <3>1. /\ capture[c].phase = "planned" /\ temps' = temps
            /\ capture' = [capture EXCEPT ![c].phase = "extracted", ![c].snapshot = shot]
        BY <2>3 DEF Extract
      <3>2. shot \in Captured /\ shot.by = c /\ shot.resources
        BY <1>1 DEF Captured, SnapshotTypeOK
      <3> HIDE DEF shot
      <3>3. /\ capture' \in [Capturers -> CaptureStates]
            /\ \A d \in Capturers \ {c} : capture'[d] = capture[d]
            /\ capture'[c].phase = "extracted" /\ capture'[c].snapshot = shot
        <4>1. capture[c] \in CaptureStates
          BY <1>1 DEF SnapshotTypeOK
        <4> DEFINE next == [capture[c] EXCEPT !.phase = "extracted", !.snapshot = shot]
        <4>2. next \in CaptureStates /\ next.phase = "extracted" /\ next.snapshot = shot
          BY <4>1, <3>2 DEF CaptureStates, CapturePhases
        <4>3. capture' = [capture EXCEPT ![c] = next]
          BY <3>1
        <4> HIDE DEF next
        <4> QED BY <4>2, <4>3, <1>1 DEF SnapshotTypeOK
      <3> QED BY <3>1, <3>2, <3>3, <1>1, SnapshotFacts DEF Telling, SnapshotTypeOK
    <2>4. CASE CaptureFails(c)
      <3>1. /\ capture' = [capture EXCEPT ![c].phase = "failed"]
            /\ temps' = IF capture[c].keep THEN temps ELSE temps \ {c}
            /\ capture[c].phase \in {"idle", "planning", "planned", "extracted"}
        BY <2>4 DEF CaptureFails, Cleanup
      <3> QED BY <3>1, <1>1, CapturePhaseFacts DEF CapturePhases, Telling, SnapshotTypeOK
    <2>5. CASE Kill(c)
      BY <2>5, <1>1, CapturePhaseFacts DEF Kill, CapturePhases, Telling, SnapshotTypeOK
    <2> QED BY <2>1, <2>2, <2>3, <2>4, <2>5
  <1>3. SnapshotTypeOK'
    BY <1>1, <1>2 DEF SnapshotTypeOK
  <1>4. CapturesInOrder'
    BY <1>1, <1>2 DEF SnapshotInv, CapturesInOrder, At, Writing, Telling
  <1>5. PlansAreRemoved'
    BY <1>2 DEF SnapshotInv, PlansAreRemoved, Telling
  <1>6. Calm => Calm'
    BY <1>1, <1>2, CaptureKeepsCalm
  <1> QED BY <1>1, <1>3, <1>4, <1>5, <1>6 DEF SnapshotInv

\* The commands that have read stay fairly read as captures end.
LEMMA FairlyReadStays ==
  ASSUME before' = before,
         \A c \in Capturers : At(c, {"done"}) => At(c, {"done"})',
         \A c \in Capturers : At(c, {"cut", "cut and killed"}) => At(c, {"cut", "cut and killed"})'
  PROVE  \A r \in Readers : reader'[r] = reader[r] /\ FairlyRead(r) => FairlyRead(r)'
  BY DEF FairlyRead

\* What the three steps of a write have in common.
LEMMA WritePhaseFacts ==
  ASSUME SnapshotInv, NEW c \in Capturers,
         NEW phase \in {"writing", "done", "cut", "cut and killed"},
         capture' = [capture EXCEPT ![c].phase = phase],
         capture[c].phase \in {"extracted", "writing"},
         liveFile' \in LiveFiles,
         temps' = temps \/ temps' = IF capture[c].keep THEN temps ELSE temps \ {c},
         phase \in {"done", "cut"} => temps' = IF capture[c].keep THEN temps ELSE temps \ {c},
         disturbed' = disturbed \cup Disturbs(c),
         reader' = reader, clock' = clock, before' = before
  PROVE  /\ SnapshotTypeOK' /\ CapturesInOrder' /\ PlansAreRemoved'
         /\ \A d \in Capturers \ {c} : capture'[d] = capture[d]
         /\ capture'[c].phase = phase /\ capture'[c].snapshot = capture[c].snapshot
         /\ capture[c].snapshot \in Captured /\ capture[c].snapshot.by = c
         /\ capture[c].snapshot.resources
         /\ disturbed \subseteq disturbed'
         /\ \A r \in Readers \ disturbed' : reader[r].phase # "reading"
         /\ ~(Readers \subseteq disturbed') => \A d \in Capturers \ {c} : ~Writing(d)
  <1>1. SnapshotTypeOK /\ CapturesInOrder /\ PlansAreRemoved
    BY DEF SnapshotInv
  <1>2. phase \in CapturePhases
    BY DEF CapturePhases
  <1>3. /\ capture' \in [Capturers -> CaptureStates]
        /\ \A d \in Capturers \ {c} : capture'[d] = capture[d]
        /\ capture'[c].phase = phase /\ capture'[c].keep = capture[c].keep
        /\ capture'[c].snapshot = capture[c].snapshot
    BY <1>1, <1>2, CapturePhaseFacts
  <1>4. /\ capture[c].snapshot \in Captured /\ capture[c].snapshot.by = c
        /\ capture[c].snapshot.resources
    <2>1. capture[c] \in CaptureStates
      BY <1>1 DEF SnapshotTypeOK
    <2> QED BY <2>1, <1>1 DEF CapturesInOrder, At, CaptureStates
  <1>5. /\ Disturbs(c) \subseteq Readers
        /\ \A r \in Readers \ Disturbs(c) : reader[r].phase # "reading"
        /\ ~(Readers \subseteq Disturbs(c)) => \A d \in Capturers \ {c} : ~Writing(d)
    BY DEF Disturbs, Writing, At
  <1>6. SnapshotTypeOK'
    BY <1>1, <1>3, <1>5 DEF SnapshotTypeOK
  <1>6a. /\ temps' \subseteq temps
        /\ phase \in {"done", "cut"} /\ c \in temps' => capture[c].keep
    OBVIOUS
  <1>7. CapturesInOrder'
    <2>1. ASSUME NEW d \in Capturers, d # c
          PROVE  /\ At(d, {"extracted", "writing", "done"})' =>
                       /\ capture'[d].snapshot # Nil /\ capture'[d].snapshot.by = d
                       /\ capture'[d].snapshot.resources
                 /\ At(d, {"idle"})' => d \notin temps' /\ ~capture'[d].keep
      <3>1. capture'[d] = capture[d]
        BY <2>1, <1>3
      <3> QED BY <3>1, <1>1, <1>6a DEF CapturesInOrder, At
    <2>2. ~At(c, {"idle"})' /\ capture'[c].snapshot # Nil
      BY <1>3, <1>4, SnapshotFacts DEF At
    <2> QED BY <2>1, <2>2, <1>3, <1>4 DEF CapturesInOrder
  <1>8. PlansAreRemoved'
    <2>1. ASSUME NEW d \in temps', d # c
          PROVE  capture'[d].keep \/ capture'[d].phase \notin {"idle", "failed", "done", "cut"}
      <3>1. d \in Capturers /\ d \in temps
        BY <2>1, <1>1, <1>6a DEF SnapshotTypeOK
      <3>2. capture'[d] = capture[d]
        BY <2>1, <3>1, <1>3
      <3> QED BY <3>1, <3>2, <1>1 DEF PlansAreRemoved
    <2>2. c \in temps' =>
             capture'[c].keep \/ capture'[c].phase \notin {"idle", "failed", "done", "cut"}
      BY <1>3, <1>6a
    <2> QED BY <2>1, <2>2 DEF PlansAreRemoved
  <1> QED BY <1>3, <1>4, <1>5, <1>6, <1>7, <1>8

LEMMA OpenKeepsSnapshots ==
  ASSUME SnapshotInv, NEW c \in Capturers, OpenSnapshot(c)
  PROVE  SnapshotInv'
  <1>1. /\ capture' = [capture EXCEPT ![c].phase = "writing"] /\ capture[c].phase = "extracted"
        /\ liveFile' = Empty /\ Empty \in LiveFiles /\ disturbed' = disturbed \cup Disturbs(c)
        /\ temps' = temps /\ reader' = reader /\ clock' = clock /\ before' = before
    BY SnapshotFacts DEF OpenSnapshot
  <1>2. /\ SnapshotTypeOK' /\ CapturesInOrder' /\ PlansAreRemoved'
        /\ \A d \in Capturers \ {c} : capture'[d] = capture[d]
        /\ capture'[c].phase = "writing"
        /\ disturbed \subseteq disturbed'
        /\ \A r \in Readers \ disturbed' : reader[r].phase # "reading"
        /\ ~(Readers \subseteq disturbed') => \A d \in Capturers \ {c} : ~Writing(d)
    BY <1>1, WritePhaseFacts
  <1>3. ASSUME ~(Readers \subseteq disturbed') PROVE Calm'
    <2>1. Calm
      BY <1>2, <1>3 DEF SnapshotInv
    <2>2. \A d \in Capturers : Writing(d)' <=> d = c
      BY <1>2, <1>3 DEF Writing, At
    <2>3. \A d \in Capturers : /\ At(d, {"done"}) => At(d, {"done"})'
                               /\ At(d, {"cut", "cut and killed"}) => At(d, {"cut", "cut and killed"})'
      BY <1>1, <1>2 DEF At
    <2>4. \A r \in Readers : FairlyRead(r) => FairlyRead(r)'
      BY <1>1, <2>3, FairlyReadStays
    <2>5. ~NoWrite'
      BY <2>2 DEF NoWrite
    <2> QED BY <1>1, <1>2, <2>1, <2>2, <2>4, <2>5 DEF Calm
  <1> QED BY <1>2, <1>3 DEF SnapshotInv

\* The end of a write: the file is the capture's, or is cut off.
LEMMA EndKeepsSnapshots ==
  ASSUME SnapshotInv, NEW c \in Capturers, WriteSnapshot(c) \/ WriteCutShort(c)
  PROVE  SnapshotInv'
  <1> DEFINE s == capture[c].snapshot
  <1>1. /\ capture[c].phase = "writing" /\ disturbed' = disturbed \cup Disturbs(c)
        /\ reader' = reader /\ clock' = clock /\ before' = before
    BY DEF WriteSnapshot, WriteCutShort
  <1>2. /\ capture[c] \in CaptureStates /\ s \in Captured /\ liveFile \in LiveFiles
    <2>1. SnapshotTypeOK /\ CapturesInOrder
      BY DEF SnapshotInv
    <2>2. capture[c] \in CaptureStates
      BY <2>1 DEF SnapshotTypeOK
    <2> QED BY <2>1, <2>2, <1>1 DEF CapturesInOrder, At, Writing, CaptureStates
  <1>3. PICK phase \in {"done", "cut", "cut and killed"} :
           /\ capture' = [capture EXCEPT ![c].phase = phase]
           /\ temps' = temps \/ temps' = IF capture[c].keep THEN temps ELSE temps \ {c}
           /\ phase \in {"done", "cut"} => temps' = IF capture[c].keep THEN temps ELSE temps \ {c}
           /\ phase = "done" => liveFile' = WholeOf(s)
           /\ phase # "done" => liveFile' \in {liveFile, [liveFile EXCEPT !.head = s]}
    BY DEF WriteSnapshot, WriteCutShort, Cleanup, WholeOf
  <1>4. /\ liveFile' \in LiveFiles
        /\ phase # "done" => liveFile'.tail = liveFile.tail
    <2>1. /\ [liveFile EXCEPT !.head = s] \in LiveFiles
          /\ [liveFile EXCEPT !.head = s].tail = liveFile.tail
      BY <1>2 DEF LiveFiles
    <2>2. WholeOf(s) \in LiveFiles
      BY <1>2, SnapshotFacts
    <2> QED BY <1>2, <1>3, <2>1, <2>2
  <1>5. /\ SnapshotTypeOK' /\ CapturesInOrder' /\ PlansAreRemoved'
        /\ \A d \in Capturers \ {c} : capture'[d] = capture[d]
        /\ capture'[c].phase = phase /\ capture'[c].snapshot = s
        /\ disturbed \subseteq disturbed'
        /\ \A r \in Readers \ disturbed' : reader[r].phase # "reading"
        /\ ~(Readers \subseteq disturbed') => \A d \in Capturers \ {c} : ~Writing(d)
    BY <1>1, <1>3, <1>4, WritePhaseFacts
  <1>6. ASSUME ~(Readers \subseteq disturbed') PROVE Calm'
    <2>1. Calm
      BY <1>5, <1>6 DEF SnapshotInv
    <2>2. (\A d \in Capturers : ~Writing(d)') /\ NoWrite'
      BY <1>5, <1>6 DEF Writing, At, NoWrite
    <2>3. \A d \in Capturers : /\ At(d, {"done"}) => At(d, {"done"})'
                               /\ At(d, {"cut", "cut and killed"}) => At(d, {"cut", "cut and killed"})'
      BY <1>1, <1>5 DEF At
    <2>4. \A r \in Readers : FairlyRead(r) => FairlyRead(r)'
      BY <1>1, <2>3, FairlyReadStays
    <2>5. liveFile = Empty
      BY <2>1, <1>1 DEF Calm, NoWrite, Writing, At
    <2>6. Origin'
      <3>1. CASE phase = "done"
        BY <3>1, <1>3, <1>5 DEF Origin, At
      <3>2. CASE phase # "done"
        <4>1. At(c, {"cut", "cut and killed"})'
          BY <3>2, <1>3, <1>5 DEF At
        <4> QED BY <4>1, <3>2, <1>4, <2>5, SnapshotFacts DEF Origin
      <3> QED BY <3>1, <3>2
    <2> QED BY <1>1, <1>5, <2>1, <2>2, <2>4, <2>6 DEF Calm
  <1> QED BY <1>5, <1>6 DEF SnapshotInv

\* A reader that opens the file or leaves it has not read it.
LEMMA ReaderKeepsSnapshots ==
  ASSUME SnapshotInv, NEW r \in Readers, NEW phase \in {"opening", "over"},
         reader' = [reader EXCEPT ![r].phase = phase],
         UNCHANGED <<liveFile, capture, temps, clock, before, disturbed>>
  PROVE  SnapshotInv'
  <1>1. /\ SnapshotTypeOK /\ liveFile' = liveFile /\ capture' = capture /\ temps' = temps
        /\ clock' = clock /\ before' = before /\ disturbed' = disturbed
    BY DEF SnapshotInv
  <1>2. /\ reader' \in [Readers -> ReaderStates] /\ reader'[r].phase = phase
        /\ \A q \in Readers \ {r} : reader'[q] = reader[q]
    BY <1>1 DEF SnapshotTypeOK, ReaderStates
  <1>3. SnapshotTypeOK'
    BY <1>1, <1>2 DEF SnapshotTypeOK
  <1>4. CapturesInOrder' /\ PlansAreRemoved'
    BY <1>1 DEF SnapshotInv, CapturesInOrder, PlansAreRemoved, At, Writing
  <1>5. (\A c \in Capturers : Writing(c)' <=> Writing(c)) /\ (NoWrite' <=> NoWrite) /\ (Origin' <=> Origin)
    BY <1>1 DEF Writing, NoWrite, Origin, At
  <1>6. \A q \in Readers \ {r} : FairlyRead(q) => FairlyRead(q)'
    BY <1>1, <1>2 DEF FairlyRead, At
  <1>7. Calm => Calm'
    BY <1>1, <1>2, <1>5, <1>6 DEF Calm
  <1> QED BY <1>1, <1>3, <1>4, <1>7 DEF SnapshotInv

LEMMA HeadKeepsSnapshots ==
  ASSUME SnapshotInv, NEW r \in Readers, ReadHead(r)
  PROVE  SnapshotInv'
  <1>1. /\ SnapshotTypeOK /\ liveFile' = liveFile /\ capture' = capture /\ temps' = temps
        /\ clock' = clock /\ before' = before
        /\ disturbed \subseteq disturbed' /\ disturbed' \subseteq Readers
        /\ r \notin disturbed' => NoWrite
    BY DEF SnapshotInv, ReadHead, SnapshotTypeOK, NoWrite, Writing, At
  <1>2. /\ reader' \in [Readers -> ReaderStates]
        /\ \A q \in Readers \ {r} : reader'[q] = reader[q]
        /\ \/ reader'[r].phase = "absent"
           \/ /\ reader'[r].phase = "reading"
              /\ liveFile \in LiveFiles /\ reader'[r].head = liveFile.head
    <2>1. reader[r] \in ReaderStates /\ reader \in [Readers -> ReaderStates]
      BY <1>1 DEF SnapshotTypeOK
    <2>2. CASE liveFile = Nil
      <3>1. reader' = [reader EXCEPT ![r].phase = "absent"]
        BY <2>2 DEF ReadHead
      <3> QED BY <3>1, <2>1 DEF ReaderStates
    <2>3. CASE liveFile # Nil
      <3> DEFINE next == [reader[r] EXCEPT !.phase = "reading", !.head = liveFile.head]
      <3>1. reader' = [reader EXCEPT ![r] = next]
        BY <2>3 DEF ReadHead
      <3>2. liveFile \in LiveFiles /\ liveFile.head \in Captured \cup {Nil}
        BY <2>3, <1>1, SnapshotFacts DEF SnapshotTypeOK
      <3>3. next \in ReaderStates /\ next.phase = "reading" /\ next.head = liveFile.head
        BY <2>1, <3>2 DEF ReaderStates
      <3> HIDE DEF next
      <3> QED BY <2>1, <3>1, <3>2, <3>3
    <2> QED BY <2>2, <2>3
  <1>3. SnapshotTypeOK'
    BY <1>1, <1>2 DEF SnapshotTypeOK
  <1>4. CapturesInOrder' /\ PlansAreRemoved'
    BY <1>1 DEF SnapshotInv, CapturesInOrder, PlansAreRemoved, At, Writing
  <1>5. (\A c \in Capturers : Writing(c)' <=> Writing(c)) /\ (NoWrite' <=> NoWrite) /\ (Origin' <=> Origin)
    BY <1>1 DEF Writing, NoWrite, Origin, At
  <1>6. \A q \in Readers \ {r} : FairlyRead(q) => FairlyRead(q)'
    BY <1>1, <1>2 DEF FairlyRead, At
  <1>7. Calm => Calm'
    BY <1>1, <1>2, <1>5, <1>6 DEF Calm
  <1> QED BY <1>1, <1>3, <1>4, <1>7 DEF SnapshotInv

\* What ReadTail makes of two halves that are one snapshot, or of one that is missing.
LEMMA TailFacts ==
  ASSUME SnapshotTypeOK, NEW r \in Readers, ReadTail(r), liveFile \in LiveFiles
  PROVE  /\ reader' \in [Readers -> ReaderStates] /\ reader'[r].phase = "read"
         /\ \A q \in Readers \ {r} : reader'[q] = reader[q]
         /\ reader[r].head = Nil \/ liveFile.tail = Nil => reader'[r].loaded = Nil
         /\ reader[r].head = liveFile.tail /\ liveFile.tail # Nil =>
               reader'[r].loaded = IF liveFile.tail.resources THEN liveFile.tail ELSE Nil
  <1> DEFINE head == reader[r].head
             tail == liveFile.tail
             mixed == [by |-> Nil, at |-> head.at, resources |-> TRUE]
  <1>1. /\ reader \in [Readers -> ReaderStates] /\ reader[r] \in ReaderStates
        /\ head \in Captured \cup {Nil} /\ tail \in Captured \cup {Nil}
    BY SnapshotFacts DEF SnapshotTypeOK, ReaderStates
  <1>2. PICK v : /\ v \in IF head = Nil \/ tail = Nil THEN {Nil}
                          ELSE IF head = tail THEN {head} ELSE {Nil, mixed}
                 /\ reader' = [reader EXCEPT ![r].phase = "read",
                                  ![r].loaded = IF v = Nil THEN Nil
                                                ELSE IF Usable(v) THEN v ELSE Nil]
    BY DEF ReadTail
  <1>3. head \in Captured => mixed \in Captured
    BY DEF Captured
  <1>4. v \in Captured \cup {Nil}
    BY <1>1, <1>2, <1>3
  <1> DEFINE got == IF v = Nil THEN Nil ELSE IF Usable(v) THEN v ELSE Nil
             next == [reader[r] EXCEPT !.phase = "read", !.loaded = got]
  <1>5. got \in Captured \cup {Nil}
    BY <1>4
  <1>6. reader' = [reader EXCEPT ![r] = next]
    BY <1>2
  <1>7. /\ head = Nil \/ tail = Nil => got = Nil
        /\ head = tail /\ tail # Nil => got = IF tail.resources THEN tail ELSE Nil
    BY <1>2 DEF Usable
  <1> HIDE DEF got, head, tail
  <1>8. next \in ReaderStates /\ next.phase = "read" /\ next.loaded = got
    BY <1>1, <1>5 DEF ReaderStates
  <1> HIDE DEF next
  <1>9. /\ reader' \in [Readers -> ReaderStates] /\ reader'[r] = next
        /\ \A q \in Readers \ {r} : reader'[q] = reader[q]
    BY <1>1, <1>6, <1>8
  <1> QED BY <1>7, <1>8, <1>9 DEF head, tail

LEMMA TailKeepsSnapshots ==
  ASSUME SnapshotInv, NEW r \in Readers, ReadTail(r)
  PROVE  SnapshotInv'
  <1>1. /\ SnapshotTypeOK /\ liveFile' = liveFile /\ capture' = capture /\ temps' = temps
        /\ clock' = clock /\ before' = before /\ disturbed' = disturbed
        /\ reader[r].phase = "reading" /\ liveFile \in LiveFiles
    BY DEF SnapshotInv, ReadTail, SnapshotTypeOK
  <1>2. /\ reader' \in [Readers -> ReaderStates] /\ reader'[r].phase = "read"
        /\ \A q \in Readers \ {r} : reader'[q] = reader[q]
        /\ reader[r].head = Nil \/ liveFile.tail = Nil => reader'[r].loaded = Nil
        /\ reader[r].head = liveFile.tail /\ liveFile.tail # Nil =>
              reader'[r].loaded = IF liveFile.tail.resources THEN liveFile.tail ELSE Nil
    BY <1>1, TailFacts
  <1>3. SnapshotTypeOK'
    BY <1>1, <1>2 DEF SnapshotTypeOK
  <1>4. CapturesInOrder' /\ PlansAreRemoved'
    BY <1>1 DEF SnapshotInv, CapturesInOrder, PlansAreRemoved, At, Writing
  <1>5. (\A c \in Capturers : Writing(c)' <=> Writing(c)) /\ (NoWrite' <=> NoWrite) /\ (Origin' <=> Origin)
    BY <1>1 DEF Writing, NoWrite, Origin, At
  <1>6. \A q \in Readers \ {r} : FairlyRead(q) => FairlyRead(q)'
    BY <1>1, <1>2 DEF FairlyRead, At
  <1>7. ASSUME Calm, r \notin disturbed PROVE FairlyRead(r)'
    <2>1. Origin /\ reader[r].head = liveFile.head
      BY <1>1, <1>7 DEF Calm
    <2>2. CASE liveFile = before
      <3>1. CASE liveFile = Empty
        <4>1. before \notin UsableFiles /\ reader'[r].loaded = Nil
          BY <2>2, <3>1, <1>2, SnapshotFacts DEF UsableFiles
        <4> QED BY <4>1, <1>1 DEF FairlyRead
      <3>2. CASE liveFile # Empty
        <4>1. /\ liveFile \in InitialFiles \ {Nil, Empty} /\ liveFile.head = liveFile.tail
              /\ liveFile.tail # Nil /\ liveFile = WholeOf(liveFile.tail)
          <5>1. liveFile \in InitialFiles \ {Nil, Empty}
            BY <2>2, <3>2, <1>1, SnapshotFacts DEF SnapshotTypeOK
          <5> QED BY <5>1, FilesAssumption, SnapshotFacts, <1>1 DEF WholeOf
        <4>2. reader'[r].loaded = IF liveFile.tail.resources THEN liveFile.tail ELSE Nil
          BY <4>1, <2>1, <1>2
        <4> QED BY <4>1, <4>2, <2>2, <1>1 DEF FairlyRead, UsableFiles
      <3> QED BY <3>1, <3>2
    <2>3. ASSUME NEW c \in Capturers, At(c, {"done"}), liveFile = WholeOf(capture[c].snapshot)
          PROVE  FairlyRead(r)'
      <3>1. /\ capture[c].snapshot # Nil /\ capture[c].snapshot.by = c
            /\ capture[c].snapshot.resources
        BY <2>3 DEF SnapshotInv, CapturesInOrder, At
      <3>2. reader'[r].loaded = capture[c].snapshot
        BY <2>1, <2>3, <3>1, <1>2 DEF WholeOf
      <3> QED BY <2>3, <3>1, <3>2, <1>1 DEF FairlyRead, At
    <2>4. ASSUME NEW c \in Capturers, At(c, {"cut", "cut and killed"}), liveFile.tail = Nil
          PROVE  FairlyRead(r)'
      BY <2>4, <1>1, <1>2 DEF FairlyRead, At
    <2> QED BY <2>1, <2>2, <2>3, <2>4 DEF Origin
  <1>8. Calm => Calm'
    BY <1>1, <1>2, <1>5, <1>6, <1>7 DEF Calm
  <1> QED BY <1>1, <1>3, <1>4, <1>8 DEF SnapshotInv

LEMMA SnapshotInvHolds ==
  /\ SnapshotInit => SnapshotInv
  /\ SnapshotInv => SnapshotsAreSafe
  <1>1. ASSUME SnapshotInit PROVE SnapshotInv
    <2>1. /\ liveFile \in InitialFiles /\ before = liveFile /\ temps = {} /\ clock = 0
          /\ disturbed = {} /\ capture = [c \in Capturers |-> Idle]
          /\ reader = [r \in Readers |-> [phase |-> "idle", head |-> Nil, loaded |-> Nil]]
      BY <1>1 DEF SnapshotInit
    <2>2. Idle \in CaptureStates
      BY DEF Idle, CaptureStates, CapturePhases
    <2>3. SnapshotTypeOK
      BY <2>1, <2>2, FilesAssumption, SnapshotFacts DEF SnapshotTypeOK, ReaderStates
    <2>4. \A c \in Capturers : capture[c].phase = "idle" /\ ~capture[c].keep
      BY <2>1 DEF Idle
    <2>5. CapturesInOrder /\ PlansAreRemoved
      BY <2>1, <2>4 DEF CapturesInOrder, PlansAreRemoved, At, Writing
    <2>6. Calm
      BY <2>1, <2>4 DEF Calm, NoWrite, Writing, At, Origin
    <2> QED BY <2>3, <2>5, <2>6 DEF SnapshotInv
  <1>2. ASSUME SnapshotInv PROVE SnapshotsAreSafe
    <2>1. \A r \in Readers \ disturbed : reader[r].phase = "read" => FairlyRead(r)
      BY <1>2 DEF SnapshotInv, Calm
    <2>2. LoadedWasWhole
      BY <2>1 DEF LoadedWasWhole, FairlyRead, At, WholeOf
    <2> QED BY <2>2, <1>2 DEF SnapshotsAreSafe, SnapshotInv
  <1> QED BY <1>1, <1>2

-----------------------------------------------------------------------------
(* The doctor *)

\* What a file that nobody writes is read as.
Value(file) ==
    IF file.head = Nil \/ file.tail = Nil \/ ~file.head.resources THEN Nil ELSE file.head

Checked == [terraform |-> CheckTerraformBinary, config |-> CheckConfigFile,
            rules |-> CheckIgnoreFile, state |-> CheckStateFile,
            live |-> checks.live, age |-> checks.age]

ScanMayRun ==
    /\ ConfigLoads("scan") /\ world.given = {"state", "live"}
    /\ world.state \in {"empty", "good"}

Unread == {"idle", "opening", "absent", "reading"}

\* What the two have seen is what is there, as long as the verdict stands.
SawTheFile(r) ==
    /\ reader[r].phase \in Unread => reader[r].loaded = Nil
    /\ verdict /\ r \notin disturbed =>
          /\ reader[r].phase = "absent" => liveFile = Nil
          /\ reader[r].phase = "read" => liveFile # Nil /\ reader[r].loaded = Value(liveFile)

\* The doctor comes first, and its verdict is on the file that is there.
DoctorKnows ==
    /\ reader["doctor"].phase # "over" => reader["scan"].phase = "idle"
    /\ reader["doctor"].phase = "idle" => ~verdict
    /\ verdict => ConfigLoads("doctor")
    /\ reader["doctor"].phase \in {"opening", "absent", "reading", "read"} => checks = EarlyChecks
    /\ reader["doctor"].phase = "over" /\ verdict =>
          /\ checks = Checked
          /\ doctorExit = 0 => \A k \in DOMAIN checks : checks[k] # "fail"
          /\ "doctor" \notin disturbed =>
                (checks.live = "fail" <=> IF liveFile = Nil THEN "live" \in world.given
                                          ELSE Value(liveFile) = Nil)

ScanLoads ==
    /\ reader["scan"].phase # "over" => scanExit = Nil
    /\ reader["scan"].phase \notin {"idle", "over"} => ScanMayRun
    /\ scanExit # Nil /\ verdict /\ "scan" \notin disturbed =>
          (scanExit = 0 <=> /\ ScanMayRun /\ (world.rules # "invalid" \/ world.noIgnore)
                            /\ liveFile # Nil /\ Value(liveFile) # Nil)

DoctorInv ==
    /\ world \in Worlds /\ verdict \in BOOLEAN
    /\ SawTheFile("doctor") /\ SawTheFile("scan")
    /\ DoctorKnows
    /\ ScanLoads

Unmoved == UNCHANGED <<world, checks, doctorExit, scanExit>>

LEMMA SeenStays ==
  ASSUME NEW r \in Readers, reader'[r] = reader[r], SawTheFile(r),
         verdict' => verdict /\ liveFile' = liveFile, disturbed \subseteq disturbed'
  PROVE  SawTheFile(r)'
  BY DEF SawTheFile

\* A change elsewhere costs the verdict, or leaves it true.
LEMMA DoctorStays ==
  ASSUME DoctorInv, Unmoved, verdict' \in BOOLEAN,
         reader'["doctor"] = reader["doctor"], reader'["scan"] = reader["scan"],
         verdict' => verdict /\ liveFile' = liveFile, disturbed \subseteq disturbed'
  PROVE  DoctorInv'
  <1>1. /\ world' = world /\ checks' = checks /\ doctorExit' = doctorExit /\ scanExit' = scanExit
        /\ "doctor" \in Readers /\ "scan" \in Readers
    BY DoctorAssumption DEF Unmoved
  <1>2. SawTheFile("doctor")' /\ SawTheFile("scan")'
    BY <1>1, SeenStays DEF DoctorInv
  <1>3. /\ EarlyChecks' = EarlyChecks /\ Checked' = Checked /\ (ScanMayRun' <=> ScanMayRun)
        /\ ConfigLoads("doctor")' <=> ConfigLoads("doctor")
    BY <1>1 DEF EarlyChecks, Checked, ScanMayRun, ConfigLoads, CheckTerraformBinary, CheckConfigFile,
               CheckIgnoreFile, CheckStateFile
  <1>4. DoctorKnows'
    BY <1>1, <1>3 DEF DoctorInv, DoctorKnows
  <1>5. ScanLoads'
    BY <1>1, <1>3 DEF DoctorInv, ScanLoads
  <1> QED BY <1>1, <1>2, <1>4, <1>5 DEF DoctorInv

\* Whoever reads undisturbed to the end has read what the file says.
LEMMA TailTellsTheFile ==
  ASSUME SnapshotInv, NEW r \in Readers \ disturbed, ReadTail(r)
  PROVE  liveFile # Nil /\ reader'[r].loaded = Value(liveFile)
  <1>1. /\ SnapshotTypeOK /\ CapturesInOrder /\ reader[r].phase = "reading" /\ liveFile \in LiveFiles
        /\ Calm
    BY DEF SnapshotInv, ReadTail, SnapshotTypeOK
  <1>2. /\ reader[r].head = Nil \/ liveFile.tail = Nil => reader'[r].loaded = Nil
        /\ reader[r].head = liveFile.tail /\ liveFile.tail # Nil =>
              reader'[r].loaded = IF liveFile.tail.resources THEN liveFile.tail ELSE Nil
    BY <1>1, TailFacts
  <1>3. Origin /\ reader[r].head = liveFile.head
    BY <1>1 DEF Calm
  <1>4. liveFile.tail = Nil \/ liveFile.head = liveFile.tail
    <2>1. CASE liveFile = before
      BY <2>1, <1>1, FilesAssumption, SnapshotFacts DEF SnapshotTypeOK
    <2>2. ASSUME NEW c \in Capturers, liveFile = WholeOf(capture[c].snapshot)
          PROVE  liveFile.head = liveFile.tail
      BY <2>2 DEF WholeOf
    <2> QED BY <2>1, <2>2, <1>3 DEF Origin
  <1>5. liveFile # Nil
    BY <1>1, SnapshotFacts
  <1> QED BY <1>2, <1>3, <1>4, <1>5 DEF Value

LEMMA RunDoctorKeeps ==
  ASSUME SnapshotInv, DoctorInv, RunDoctor
  PROVE  SnapshotInv' /\ DoctorInv'
  <1>1. /\ UNCHANGED <<liveFile, capture, temps, clock, before, disturbed>>
        /\ world' = world /\ scanExit' = scanExit /\ disturbed' = disturbed
        /\ reader["doctor"].phase = "idle" /\ "doctor" \in Readers /\ "scan" \in Readers
        /\ reader["scan"].phase = "idle" /\ ~verdict /\ scanExit = Nil
        /\ reader["doctor"].loaded = Nil /\ reader["scan"].loaded = Nil
    BY DoctorAssumption DEF RunDoctor, DoctorInv, DoctorKnows, ScanLoads, SawTheFile, Unread
  <1>2. PICK phase \in {"opening", "over"} :
           /\ reader' = [reader EXCEPT !["doctor"].phase = phase]
           /\ phase = "opening" => ConfigLoads("doctor") /\ checks' = EarlyChecks /\ verdict' = TRUE
           /\ phase = "over" => verdict' = verdict
    BY DEF RunDoctor, Open
  <1>3. SnapshotInv'
    BY <1>1, <1>2, ReaderKeepsSnapshots
  <1>4. /\ reader'["scan"] = reader["scan"]
        /\ reader'["doctor"].phase = phase /\ reader'["doctor"].loaded = reader["doctor"].loaded
    BY <1>1, <1>2 DEF SnapshotInv, SnapshotTypeOK, ReaderStates
  <1>5. SawTheFile("doctor")' /\ SawTheFile("scan")'
    BY <1>1, <1>2, <1>4 DEF SawTheFile, Unread
  <1>6. ConfigLoads("doctor") => ConfigLoads("doctor")'
    BY <1>1 DEF ConfigLoads
  <1>7. EarlyChecks' = EarlyChecks
    BY <1>1 DEF EarlyChecks, CheckTerraformBinary, CheckConfigFile, CheckIgnoreFile, CheckStateFile
  <1>8. DoctorKnows'
    BY <1>1, <1>2, <1>4, <1>6, <1>7 DEF DoctorKnows
  <1>9. ScanLoads'
    BY <1>1, <1>4 DEF ScanLoads
  <1> QED BY <1>1, <1>2, <1>3, <1>5, <1>8, <1>9 DEF DoctorInv

LEMMA FinishDoctorKeeps ==
  ASSUME SnapshotInv, DoctorInv, FinishDoctor
  PROVE  SnapshotInv' /\ DoctorInv'
  <1> DEFINE seen == reader["doctor"]
             late == CheckLiveSnapshot(seen.phase = "read", seen.loaded)
  <1>1. /\ UNCHANGED <<liveFile, capture, temps, clock, before, disturbed>>
        /\ world' = world /\ scanExit' = scanExit /\ disturbed' = disturbed /\ verdict' = verdict
        /\ liveFile' = liveFile
        /\ seen.phase \in {"absent", "read"} /\ "doctor" \in Readers /\ "scan" \in Readers
        /\ reader["scan"].phase = "idle" /\ scanExit = Nil /\ checks = EarlyChecks
        /\ reader["scan"].loaded = Nil
        /\ reader' = [reader EXCEPT !["doctor"].phase = "over"]
        /\ checks' = AllChecks(late)
        /\ doctorExit' = IF \E k \in DOMAIN checks' : checks'[k] = "fail" THEN 4 ELSE 0
    BY DoctorAssumption DEF FinishDoctor, DoctorInv, DoctorKnows, ScanLoads, SawTheFile, Unread
  <1>2. SnapshotInv'
    BY <1>1, ReaderKeepsSnapshots
  <1>3. reader'["scan"] = reader["scan"] /\ reader'["doctor"].phase = "over"
    BY <1>1 DEF SnapshotInv, SnapshotTypeOK, ReaderStates
  <1>4. SawTheFile("doctor")' /\ SawTheFile("scan")'
    BY <1>1, <1>3 DEF SawTheFile, Unread
  <1>5. ConfigLoads("doctor")' <=> ConfigLoads("doctor")
    BY <1>1 DEF ConfigLoads
  <1>6. checks' = Checked' /\ checks'.live = late.live
    <2>1. /\ CheckTerraformBinary' = CheckTerraformBinary /\ CheckConfigFile' = CheckConfigFile
          /\ CheckIgnoreFile' = CheckIgnoreFile /\ CheckStateFile' = CheckStateFile
      BY <1>1 DEF CheckTerraformBinary, CheckConfigFile, CheckIgnoreFile, CheckStateFile
    <2>2. /\ checks.terraform = CheckTerraformBinary /\ checks.config = CheckConfigFile
          /\ checks.rules = CheckIgnoreFile /\ checks.state = CheckStateFile
      BY <1>1 DEF EarlyChecks
    <2>3. checks'.live = late.live /\ checks'.age = late.age
      BY <1>1 DEF AllChecks
    <2> HIDE DEF late
    <2> QED BY <1>1, <2>1, <2>2, <2>3 DEF AllChecks, Checked
  <1>7. doctorExit' = 0 => \A k \in DOMAIN checks' : checks'[k] # "fail"
    BY <1>1
  <1>8. verdict /\ "doctor" \notin disturbed =>
           (late.live = "fail" <=> IF liveFile = Nil THEN "live" \in world.given
                                   ELSE Value(liveFile) = Nil)
    <2> SUFFICES ASSUME verdict, "doctor" \notin disturbed
                 PROVE  late.live = "fail" <=> IF liveFile = Nil THEN "live" \in world.given
                                               ELSE Value(liveFile) = Nil
      OBVIOUS
    <2>1. CASE seen.phase = "absent"
      <3>1. liveFile = Nil /\ seen.loaded = Nil
        BY <2>1 DEF DoctorInv, SawTheFile, Unread
      <3> QED BY <2>1, <3>1 DEF CheckLiveSnapshot
    <2>2. CASE seen.phase = "read"
      <3>1. liveFile # Nil /\ seen.loaded = Value(liveFile)
        BY <2>2 DEF DoctorInv, SawTheFile
      <3> QED BY <2>2, <3>1 DEF CheckLiveSnapshot
    <2> QED BY <1>1, <2>1, <2>2
  <1> HIDE DEF late, seen
  <1>9. DoctorKnows'
    BY <1>1, <1>3, <1>5, <1>6, <1>7, <1>8 DEF DoctorInv, DoctorKnows
  <1>10. ScanLoads'
    BY <1>1, <1>3 DEF ScanLoads
  <1> QED BY <1>1, <1>2, <1>4, <1>9, <1>10 DEF DoctorInv

LEMMA RunScanKeeps ==
  ASSUME SnapshotInv, DoctorInv, RunScan
  PROVE  SnapshotInv' /\ DoctorInv'
  <1>1. /\ UNCHANGED <<liveFile, capture, temps, clock, before, disturbed>>
        /\ world' = world /\ checks' = checks /\ doctorExit' = doctorExit
        /\ disturbed' = disturbed /\ verdict' = verdict /\ liveFile' = liveFile
        /\ reader["scan"].phase = "idle" /\ scanExit = Nil /\ reader["scan"].loaded = Nil
        /\ reader["doctor"].phase = "over"
        /\ "doctor" \in Readers /\ "scan" \in Readers /\ Nil \notin Nat
    BY DoctorAssumption DEF RunScan, DoctorInv, ScanLoads, SawTheFile, Unread
  <1>2. PICK phase \in {"opening", "over"} :
           /\ reader' = [reader EXCEPT !["scan"].phase = phase]
           /\ phase = "opening" <=> scanExit' = Nil
    BY DEF RunScan, Open
  <1>3. SnapshotInv'
    BY <1>1, <1>2, ReaderKeepsSnapshots
  <1>4. /\ reader'["doctor"] = reader["doctor"]
        /\ reader'["scan"].phase = phase /\ reader'["scan"].loaded = Nil
    BY <1>1, <1>2 DEF SnapshotInv, SnapshotTypeOK, ReaderStates
  <1>5. SawTheFile("doctor")' /\ SawTheFile("scan")'
    <2>1. SawTheFile("scan")'
      BY <1>2, <1>4 DEF SawTheFile
    <2> QED BY <2>1, <1>1, <1>4, SeenStays DEF DoctorInv
  <1>6. /\ EarlyChecks' = EarlyChecks /\ Checked' = Checked /\ (ScanMayRun' <=> ScanMayRun)
        /\ ConfigLoads("doctor")' <=> ConfigLoads("doctor")
    BY <1>1 DEF EarlyChecks, Checked, ScanMayRun, ConfigLoads, CheckTerraformBinary, CheckConfigFile,
               CheckIgnoreFile, CheckStateFile
  <1>7. DoctorKnows'
    BY <1>1, <1>4, <1>6 DEF DoctorInv, DoctorKnows
  <1>8. scanExit' = Nil => ScanMayRun
    BY <1>1 DEF RunScan, ScanMayRun
  <1>9. scanExit' # Nil => scanExit' # 0 /\ ~(ScanMayRun /\ liveFile # Nil)
    BY <1>1 DEF RunScan, ScanMayRun
  <1>10. ScanLoads'
    BY <1>1, <1>2, <1>4, <1>6, <1>8, <1>9 DEF ScanLoads
  <1> QED BY <1>1, <1>3, <1>5, <1>7, <1>10 DEF DoctorInv

LEMMA LoadInputsKeeps ==
  ASSUME SnapshotInv, DoctorInv, LoadInputs
  PROVE  SnapshotInv' /\ DoctorInv'
  <1>1. /\ UNCHANGED <<liveFile, capture, temps, clock, before, disturbed>>
        /\ world' = world /\ checks' = checks /\ doctorExit' = doctorExit
        /\ disturbed' = disturbed /\ verdict' = verdict /\ liveFile' = liveFile
        /\ reader["scan"].phase = "read" /\ ScanMayRun
        /\ scanExit' = IF reader["scan"].loaded = Nil THEN 1
                       ELSE IF world.rules = "invalid" /\ ~world.noIgnore THEN 2 ELSE 0
        /\ reader' = [reader EXCEPT !["scan"].phase = "over"]
        /\ "doctor" \in Readers /\ "scan" \in Readers
    BY DoctorAssumption DEF LoadInputs, DoctorInv, ScanLoads
  <1>2. SnapshotInv'
    BY <1>1, ReaderKeepsSnapshots
  <1>3. reader'["doctor"] = reader["doctor"] /\ reader'["scan"].phase = "over"
    BY <1>1 DEF SnapshotInv, SnapshotTypeOK, ReaderStates
  <1>4. SawTheFile("doctor")' /\ SawTheFile("scan")'
    <2>1. SawTheFile("scan")'
      BY <1>3 DEF SawTheFile, Unread
    <2> QED BY <2>1, <1>1, <1>3, SeenStays DEF DoctorInv
  <1>5. /\ EarlyChecks' = EarlyChecks /\ Checked' = Checked /\ (ScanMayRun' <=> ScanMayRun)
        /\ ConfigLoads("doctor")' <=> ConfigLoads("doctor")
    BY <1>1 DEF EarlyChecks, Checked, ScanMayRun, ConfigLoads, CheckTerraformBinary, CheckConfigFile,
               CheckIgnoreFile, CheckStateFile
  <1>6. DoctorKnows'
    <2>1. reader["doctor"].phase = "over"
      BY <1>1 DEF DoctorInv, DoctorKnows
    <2> QED BY <2>1, <1>1, <1>3, <1>5 DEF DoctorInv, DoctorKnows
  <1>7. verdict /\ "scan" \notin disturbed => liveFile # Nil /\ reader["scan"].loaded = Value(liveFile)
    BY <1>1 DEF DoctorInv, SawTheFile
  <1>8. ScanLoads'
    BY <1>1, <1>3, <1>5, <1>7 DEF ScanLoads
  <1> QED BY <1>1, <1>2, <1>4, <1>6, <1>8 DEF DoctorInv

\* A command reads on.
LEMMA ReadingKeeps ==
  ASSUME SnapshotInv, DoctorInv, Unmoved, verdict' = verdict, NEW r \in Readers,
         ReadHead(r) \/ ReadTail(r)
  PROVE  DoctorInv'
  <1>1. /\ reader[r].phase \in {"opening", "reading"}
        /\ reader'[r].phase \in {"absent", "reading", "read"}
        /\ \A q \in Readers \ {r} : reader'[q] = reader[q]
        /\ reader'[r].phase # "read" => reader'[r].loaded = reader[r].loaded
        /\ reader'[r].phase = "absent" => liveFile = Nil
        /\ liveFile' = liveFile /\ disturbed \subseteq disturbed'
        /\ reader'[r].phase = "read" => ReadTail(r) /\ disturbed' = disturbed
    <2>1. reader \in [Readers -> ReaderStates] /\ reader[r] \in ReaderStates
      BY DEF SnapshotInv, SnapshotTypeOK
    <2>2. CASE ReadHead(r)
      <3>1. CASE liveFile = Nil
        <4>1. reader' = [reader EXCEPT ![r].phase = "absent"]
          BY <2>2, <3>1 DEF ReadHead
        <4> QED BY <4>1, <2>1, <2>2, <3>1 DEF ReadHead, ReaderStates
      <3>2. CASE liveFile # Nil
        <4> DEFINE next == [reader[r] EXCEPT !.phase = "reading", !.head = liveFile.head]
        <4>1. reader' = [reader EXCEPT ![r] = next]
          BY <2>2, <3>2 DEF ReadHead
        <4>2. next.phase = "reading" /\ next.loaded = reader[r].loaded
          BY <2>1 DEF ReaderStates
        <4> HIDE DEF next
        <4> QED BY <4>1, <4>2, <2>1, <2>2 DEF ReadHead
      <3> QED BY <3>1, <3>2
    <2>3. CASE ReadTail(r)
      <3>1. liveFile \in LiveFiles
        BY <2>3 DEF ReadTail, SnapshotInv, SnapshotTypeOK
      <3>2. /\ reader'[r].phase = "read" /\ \A q \in Readers \ {r} : reader'[q] = reader[q]
        BY <2>3, <3>1, TailFacts DEF SnapshotInv
      <3> QED BY <2>3, <3>2 DEF ReadTail
    <2> QED BY <2>2, <2>3
  <1>2. /\ world' = world /\ checks' = checks /\ doctorExit' = doctorExit /\ scanExit' = scanExit
        /\ "doctor" \in Readers /\ "scan" \in Readers
    BY DoctorAssumption DEF Unmoved
  <1>3. ASSUME NEW q \in {"doctor", "scan"} PROVE SawTheFile(q)'
    <2>1. SawTheFile(q) /\ q \in Readers
      BY <1>2 DEF DoctorInv
    <2>2. CASE q # r
      BY <2>1, <2>2, <1>1, SeenStays
    <2>3. CASE q = r
      <3>1. reader[q].loaded = Nil
        BY <2>1, <2>3, <1>1 DEF SawTheFile, Unread
      <3>2. reader'[q].phase = "read" /\ q \notin disturbed' =>
               liveFile # Nil /\ reader'[q].loaded = Value(liveFile)
        BY <2>3, <1>1, TailTellsTheFile
      <3> QED BY <2>3, <3>1, <3>2, <1>1 DEF SawTheFile, Unread
    <2> QED BY <2>2, <2>3
  <1>4. /\ EarlyChecks' = EarlyChecks /\ Checked' = Checked /\ (ScanMayRun' <=> ScanMayRun)
        /\ ConfigLoads("doctor")' <=> ConfigLoads("doctor")
    BY <1>2 DEF EarlyChecks, Checked, ScanMayRun, ConfigLoads, CheckTerraformBinary, CheckConfigFile,
               CheckIgnoreFile, CheckStateFile
  <1>5. DoctorKnows'
    <2>1. CASE r = "doctor"
      BY <2>1, <1>1, <1>2, <1>4 DEF DoctorInv, DoctorKnows
    <2>2. CASE r # "doctor"
      <3>1. reader'["doctor"] = reader["doctor"]
        BY <2>2, <1>1, <1>2
      <3>2. reader["scan"].phase = "idle" => reader'["scan"].phase = "idle"
        BY <1>1, <1>2
      <3> QED BY <3>1, <3>2, <1>1, <1>2, <1>4 DEF DoctorInv, DoctorKnows
    <2> QED BY <2>1, <2>2
  <1>6. ScanLoads'
    <2>1. CASE r = "scan"
      <3>1. scanExit = Nil /\ ScanMayRun
        BY <2>1, <1>1 DEF DoctorInv, ScanLoads
      <3> QED BY <2>1, <3>1, <1>1, <1>2, <1>4 DEF ScanLoads
    <2>2. CASE r # "scan"
      <3>1. reader'["scan"] = reader["scan"]
        BY <2>2, <1>1, <1>2
      <3> QED BY <3>1, <1>1, <1>2, <1>4 DEF DoctorInv, ScanLoads
    <2> QED BY <2>1, <2>2
  <1> QED BY <1>2, <1>3, <1>5, <1>6 DEF DoctorInv

LEMMA DoctorStep ==
  ASSUME SnapshotInv, DoctorInv, [DoctorNext]_doctorVars
  PROVE  SnapshotInv' /\ DoctorInv'
  <1>1. CASE Capturing
    <2>1. PICK c \in Capturers :
             \/ StartCapture(c) \/ GeneratePlan(c) \/ Extract(c) \/ CaptureFails(c)
             \/ OpenSnapshot(c) \/ WriteSnapshot(c) \/ WriteCutShort(c) \/ Kill(c)
      BY <1>1 DEF Capturing
    <2>2. SnapshotInv'
      BY <2>1, CaptureKeepsSnapshots, OpenKeepsSnapshots, EndKeepsSnapshots
    <2>3. reader' = reader /\ disturbed \subseteq disturbed'
      BY <2>1 DEF StartCapture, GeneratePlan, Extract, CaptureFails, OpenSnapshot, WriteSnapshot,
                  WriteCutShort, Kill
    <2>4. Unmoved /\ verdict' \in BOOLEAN /\ (verdict' => verdict /\ liveFile' = liveFile)
      BY <1>1 DEF Capturing, Unmoved, DoctorInv
    <2> QED BY <2>2, <2>3, <2>4, DoctorStays
  <1>2. CASE Reading
    <2>1. Unmoved /\ verdict' = verdict /\ verdict \in BOOLEAN
      BY <1>2 DEF Reading, Unmoved, DoctorInv
    <2>2. CASE Tick
      <3>1. /\ liveFile' = liveFile /\ reader' = reader /\ disturbed' = disturbed
            /\ capture' = capture /\ temps' = temps /\ before' = before /\ clock' \in Nat
        BY <2>2 DEF Tick, SnapshotInv, SnapshotTypeOK
      <3>2. SnapshotInv'
        BY <3>1 DEF SnapshotInv, SnapshotTypeOK, CapturesInOrder, PlansAreRemoved, Calm, NoWrite,
                    Origin, FairlyRead, Writing, At
      <3>3. DoctorInv'
        BY <2>1, <3>1, DoctorStays
      <3> QED BY <3>2, <3>3
    <2>3. ASSUME NEW r \in Readers, ReadHead(r) \/ ReadTail(r) PROVE SnapshotInv' /\ DoctorInv'
      BY <2>1, <2>3, HeadKeepsSnapshots, TailKeepsSnapshots, ReadingKeeps
    <2> QED BY <1>2, <2>2, <2>3 DEF Reading
  <1>3. CASE UNCHANGED doctorVars
    <2>1. /\ liveFile' = liveFile /\ reader' = reader /\ disturbed' = disturbed /\ verdict' = verdict
          /\ capture' = capture /\ temps' = temps /\ before' = before /\ clock' = clock /\ Unmoved
          /\ verdict \in BOOLEAN
      BY <1>3 DEF doctorVars, snapshotVars, Unmoved, DoctorInv
    <2>2. SnapshotInv'
      BY <2>1 DEF SnapshotInv, SnapshotTypeOK, CapturesInOrder, PlansAreRemoved, Calm, NoWrite,
                  Origin, FairlyRead, Writing, At
    <2>3. DoctorInv'
      BY <2>1, DoctorStays
    <2> QED BY <2>2, <2>3
  <1> QED BY <1>1, <1>2, <1>3, RunDoctorKeeps, FinishDoctorKeeps, RunScanKeeps, LoadInputsKeeps
          DEF DoctorNext

LEMMA DoctorInvHolds ==
  /\ DoctorInit => DoctorInv
  /\ DoctorInv => VerdictHolds
  <1>1. ASSUME DoctorInit PROVE DoctorInv
    <2>1. /\ world \in Worlds /\ verdict = FALSE /\ scanExit = Nil
          /\ \A r \in Readers : reader[r].phase = "idle" /\ reader[r].loaded = Nil
      BY <1>1 DEF DoctorInit, SnapshotInit
    <2> QED BY <2>1, DoctorAssumption DEF DoctorInv, SawTheFile, DoctorKnows, ScanLoads, Unread
  <1>2. ASSUME DoctorInv, scanExit # Nil, verdict, disturbed = {},
               world.given = {"state", "live"}, world.config # "misfit"
        PROVE  /\ doctorExit = 0 => scanExit = 0
               /\ (\E k \in DOMAIN checks \ {"age"} :
                       checks[k] = "fail" /\ ~(k = "rules" /\ world.noIgnore)) => scanExit # 0
    <2>1. /\ reader["scan"].phase = "over" /\ reader["doctor"].phase = "over"
          /\ ConfigLoads("scan") /\ world \in Worlds
      BY <1>2 DEF DoctorInv, ScanLoads, DoctorKnows, ConfigLoads
    <2>2. /\ checks = Checked
          /\ doctorExit = 0 => \A k \in DOMAIN checks : checks[k] # "fail"
          /\ checks.live = "fail" <=> liveFile = Nil \/ Value(liveFile) = Nil
      BY <1>2, <2>1 DEF DoctorInv, DoctorKnows
    <2>3. scanExit = 0 <=> /\ world.state \in {"empty", "good"}
                           /\ world.rules # "invalid" \/ world.noIgnore
                           /\ liveFile # Nil /\ Value(liveFile) # Nil
      BY <1>2, <2>1 DEF DoctorInv, ScanLoads, ScanMayRun
    <2>4. /\ DOMAIN checks = {"terraform", "config", "rules", "state", "live", "age"}
          /\ checks.terraform # "fail" /\ checks.config # "fail"
          /\ checks.rules = "fail" <=> world.rules = "invalid"
          /\ checks.state = "fail" <=> world.state \notin {"empty", "good"}
      <3>1. world.state \in {"none", "directory", "broken", "empty", "good"}
        BY <2>1, WorldsAssumption
      <3>2. /\ DOMAIN checks = {"terraform", "config", "rules", "state", "live", "age"}
            /\ checks.terraform = CheckTerraformBinary /\ checks.config = CheckConfigFile
            /\ checks.rules = CheckIgnoreFile /\ checks.state = CheckStateFile
        BY <2>2 DEF Checked
      <3> QED BY <3>1, <3>2, <1>2 DEF CheckTerraformBinary, CheckConfigFile, CheckIgnoreFile,
                                      CheckStateFile
    <2> QED BY <2>2, <2>3, <2>4
  <1> QED BY <1>1, <1>2 DEF VerdictHolds

\* Of any number of captures and readers, with or without a file to begin with: a
\* command that no write came in the way of has a whole snapshot, and no plan is left
\* behind (cli/snapshot.go).
THEOREM SnapshotsAlwaysSafe == DoctorSpec => []SnapshotsAreSafe
  <1>1. DoctorInit => SnapshotInv /\ DoctorInv
    BY SnapshotInvHolds, DoctorInvHolds DEF DoctorInit
  <1>2. SnapshotInv /\ DoctorInv /\ [DoctorNext]_doctorVars => (SnapshotInv /\ DoctorInv)'
    BY DoctorStep
  <1>3. SnapshotInv => SnapshotsAreSafe
    BY SnapshotInvHolds
  <1> QED BY <1>1, <1>2, <1>3, PTL DEF DoctorSpec

\* In every world: as long as live.json stays as it was, what the doctor says of the
\* inputs is what a scan finds (cli/doctor.go:61, :102).
THEOREM VerdictAlwaysHolds == DoctorSpec => []VerdictHolds
  <1>1. DoctorInit => SnapshotInv /\ DoctorInv
    BY SnapshotInvHolds, DoctorInvHolds DEF DoctorInit
  <1>2. SnapshotInv /\ DoctorInv /\ [DoctorNext]_doctorVars => (SnapshotInv /\ DoctorInv)'
    BY DoctorStep
  <1>3. DoctorInv => VerdictHolds
    BY DoctorInvHolds
  <1> QED BY <1>1, <1>2, <1>3, PTL DEF DoctorSpec

-----------------------------------------------------------------------------
(* The ranking of risks *)

RiskResources ==
    [address : Nat, supports : SUBSET STRING, attrs : SUBSET STRING,
     tags : SUBSET (TagAttributes \X STRING)]

Scores == [address : Nat, overall : Nat, level : 1..5]

Scored(r) == [address |-> r.address, overall |-> Overall(r), level |-> RiskLevel(Overall(r))]

Required == {"environment", "owner", "cost_center"}

Missing(r) == Required \ ExtractTags(r)

LEMMA PointsFacts ==
  ASSUME NEW n \in Nat
  PROVE  \A c \in BOOLEAN : Points(c, n) \in Nat /\ Points(c, n) = IF c THEN n ELSE 0
  BY DEF Points

LEMMA MissingFacts ==
  ASSUME NEW r
  PROVE  IsFiniteSet(Missing(r)) /\ Cardinality(Missing(r)) \in Nat
  <1>1. IsFiniteSet(Required)
    <2>1. IsFiniteSet({}) /\ Required = {} \cup {"environment"} \cup {"owner"} \cup {"cost_center"}
      BY FS_EmptySet DEF Required
    <2> QED BY <2>1, FS_AddElement
  <1> QED BY <1>1, FS_Subset, FS_CardinalityType DEF Missing

\* The five terms of a score, and the tags that are missing.
LEMMA OverallIs ==
  ASSUME NEW r
  PROVE  Overall(r) = 35 * (Points(Public(r), 30) + Points(~Encrypted(r), 25))
                      + 30 * (Points("zone" \in Applying(r) /\ "multi_az" \notin r.attrs, 20)
                              + Points("retention_0.0" \in Applying(r), 25))
                      + 15 * Points("large" \in r.attrs, 20) + 20 * (10 * Cardinality(Missing(r)))
  BY DEF Overall, AssessSecurity, AssessReliability, AssessCost, AssessCompliance, Missing, Required

LEMMA LevelFacts ==
  ASSUME NEW x
  PROVE  RiskLevel(x) \in 1..5
  <1> DEFINE floors == {2000, 4000, 6000, 8000}
             reached == {floor \in floors : x >= floor}
  <1>1. IsFiniteSet(floors) /\ Cardinality(floors) <= 4 /\ Cardinality(floors) \in Nat
    <2>1. IsFiniteSet({}) /\ Cardinality({}) = 0
      BY FS_EmptySet
    <2>2. IsFiniteSet({} \cup {2000}) /\ Cardinality({} \cup {2000}) = 1
      BY <2>1, FS_AddElement
    <2>3. IsFiniteSet({2000} \cup {4000}) /\ Cardinality({2000} \cup {4000}) = 2
      <3>1. {} \cup {2000} = {2000}
        OBVIOUS
      <3> QED BY <2>2, <3>1, FS_AddElement
    <2>4. IsFiniteSet({2000} \cup {4000} \cup {6000}) /\ Cardinality({2000} \cup {4000} \cup {6000}) = 3
      BY <2>3, FS_AddElement
    <2>5. /\ IsFiniteSet({2000} \cup {4000} \cup {6000} \cup {8000})
          /\ Cardinality({2000} \cup {4000} \cup {6000} \cup {8000}) = 4
      BY <2>4, FS_AddElement
    <2>6. floors = {2000} \cup {4000} \cup {6000} \cup {8000}
      OBVIOUS
    <2> QED BY <2>5, <2>6
  <1>2. Cardinality(reached) \in Nat /\ Cardinality(reached) <= Cardinality(floors)
    BY <1>1, FS_Subset, FS_CardinalityType
  <1> QED BY <1>1, <1>2 DEF RiskLevel

LEMMA ScoreFacts ==
  ASSUME NEW r \in RiskResources
  PROVE  Scored(r) \in Scores
  <1>1. Overall(r) \in Nat
    <2>1. \A c \in BOOLEAN : \A n \in {20, 25, 30} : Points(c, n) \in Nat
      BY PointsFacts
    <2>2. /\ Points(Public(r), 30) \in Nat /\ Points(~Encrypted(r), 25) \in Nat
          /\ Points("zone" \in Applying(r) /\ "multi_az" \notin r.attrs, 20) \in Nat
          /\ Points("retention_0.0" \in Applying(r), 25) \in Nat
          /\ Points("large" \in r.attrs, 20) \in Nat
      BY DEF Points
    <2>3. Cardinality(Missing(r)) \in Nat
      BY MissingFacts
    <2> QED BY <2>2, <2>3, OverallIs
  <1>2. RiskLevel(Overall(r)) \in 1..5
    BY LevelFacts
  <1> QED BY <1>1, <1>2 DEF Scored, Scores, RiskResources

\* A score counts concerns: what is scored is on the list, and the other way round.
LEMMA ConcernsAreScored ==
  ASSUME NEW r \in RiskResources
  PROVE  /\ Public(r) <=> "public" \in Concerns(r)
         /\ ~Encrypted(r) <=> "plain" \in Concerns(r)
         /\ ("zone" \in Applying(r) /\ "multi_az" \notin r.attrs) <=> "one_zone" \in Concerns(r)
         /\ "retention_0.0" \in Applying(r) <=> "no_backup" \in Concerns(r)
         /\ "large" \in r.attrs <=> "large" \in Concerns(r)
         /\ Missing(r) = Required \cap Concerns(r)
  <1>1. /\ Public(r) <=> "public" \in Concerns(r)
        /\ ~Encrypted(r) <=> "plain" \in Concerns(r)
    BY DEF Public, Encrypted, Concerns
  <1>2. /\ ("zone" \in Applying(r) /\ "multi_az" \notin r.attrs) <=> "one_zone" \in Concerns(r)
        /\ "retention_0.0" \in Applying(r) <=> "no_backup" \in Concerns(r)
        /\ "large" \in r.attrs <=> "large" \in Concerns(r)
    BY DEF Applying, Concerns
  <1>3. ASSUME NEW key \in Required PROVE key \in Missing(r) <=> key \in Concerns(r)
    <2>1. key \in Concerns(r) <=> \A tag \in r.tags : tag[2] = key => tag[1] = "tags_all"
      BY <1>3 DEF Required, Concerns
    <2>2. key \notin ExtractTags(r) <=>
             \A tag \in r.tags : tag[1] \in {"tags", "labels", "resource_tags"} => tag[2] # key
      BY DEF ExtractTags
    <2>3. \A tag \in r.tags : tag[1] # "tags_all" <=> tag[1] \in {"tags", "labels", "resource_tags"}
      BY DEF RiskResources, TagAttributes
    <2> QED BY <2>1, <2>2, <2>3, <1>3 DEF Missing
  <1> QED BY <1>1, <1>2, <1>3 DEF Missing

LEMMA MoreConcernsScoreMore ==
  ASSUME NEW r \in RiskResources, NEW q \in RiskResources, Concerns(q) \subseteq Concerns(r)
  PROVE  Overall(r) >= Overall(q)
  <1> DEFINE P(x) == Points(Public(x), 30)
             E(x) == Points(~Encrypted(x), 25)
             Z(x) == Points("zone" \in Applying(x) /\ "multi_az" \notin x.attrs, 20)
             B(x) == Points("retention_0.0" \in Applying(x), 25)
             L(x) == Points("large" \in x.attrs, 20)
             M(x) == Cardinality(Missing(x))
  <1>1. /\ Public(q) => Public(r)
        /\ ~Encrypted(q) => ~Encrypted(r)
        /\ ("zone" \in Applying(q) /\ "multi_az" \notin q.attrs)
              => ("zone" \in Applying(r) /\ "multi_az" \notin r.attrs)
        /\ "retention_0.0" \in Applying(q) => "retention_0.0" \in Applying(r)
        /\ "large" \in q.attrs => "large" \in r.attrs
        /\ Missing(q) \subseteq Missing(r)
    BY ConcernsAreScored
  <1>2. P(q) \in Nat /\ P(r) \in Nat /\ P(q) <= P(r)
    BY <1>1 DEF Points
  <1>3. E(q) \in Nat /\ E(r) \in Nat /\ E(q) <= E(r)
    BY <1>1 DEF Points
  <1>4. Z(q) \in Nat /\ Z(r) \in Nat /\ Z(q) <= Z(r)
    BY <1>1 DEF Points
  <1>5. B(q) \in Nat /\ B(r) \in Nat /\ B(q) <= B(r)
    BY <1>1 DEF Points
  <1>6. L(q) \in Nat /\ L(r) \in Nat /\ L(q) <= L(r)
    BY <1>1 DEF Points
  <1>7. M(q) \in Nat /\ M(r) \in Nat /\ M(q) <= M(r)
    BY <1>1, MissingFacts, FS_Subset
  <1>8. \A x \in {q, r} : Overall(x) = 35 * (P(x) + E(x)) + 30 * (Z(x) + B(x)) + 15 * L(x) + 20 * (10 * M(x))
    BY OverallIs
  <1> HIDE DEF P, E, Z, B, L, M
  <1> QED BY <1>2, <1>3, <1>4, <1>5, <1>6, <1>7, <1>8

AddressedOnce(s) == \A i, j \in DOMAIN s : s[i].address = s[j].address => i = j

FallsOff(s) == \A i, j \in DOMAIN s : i < j => s[i].overall >= s[j].overall

SameElements(s, t) ==
    /\ \A i \in DOMAIN s : \E j \in DOMAIN t : s[i] = t[j]
    /\ \A j \in DOMAIN t : \E i \in DOMAIN s : s[i] = t[j]

\* Scores of resources at different addresses are totally ordered, so that a place
\* in the ranking is somebody's.
LEMMA RankedFacts ==
  ASSUME NEW s \in Seq(Scores), AddressedOnce(s)
  PROVE  /\ Ranked(ToSet(s)) \in Seq(Scores)
         /\ SameElements(Ranked(ToSet(s)), s)
         /\ FallsOff(Ranked(ToSet(s)))
  <1> DEFINE S == ToSet(s)
             over == [t \in S |-> {q \in S : Before(q, t)}]
             E == Ranked(S)
  <1>1. /\ Len(s) \in Nat /\ DOMAIN s = 1..Len(s) /\ \A i \in DOMAIN s : s[i] \in Scores
        /\ S = {s[i] : i \in DOMAIN s}
    BY DEF ToSet
  <1>2. IsFiniteSet(S) /\ S \subseteq Scores
    <2>1. \A i, j \in DOMAIN s : s[i] = s[j] => i = j
      BY DEF AddressedOnce
    <2>2. IsFiniteSet({s[i] : i \in DOMAIN s})
      BY <2>1, DistinctCount
    <2> QED BY <1>1, <2>2
  <1>3. \A t \in S : t.overall \in Nat /\ t.address \in Nat
    BY <1>2 DEF Scores
  <1>4. \A t, u \in S : t.address = u.address => t = u
    BY <1>1 DEF AddressedOnce
  <1>5. over \in [S -> SUBSET S] /\ \A t, q \in S : q \in over[t] <=> Before(q, t)
    OBVIOUS
  <1>6. \A i \in 1..Cardinality(S), t \in S :
           Cardinality(over[t]) = i - 1 => E[i] \in S /\ Cardinality(over[E[i]]) = i - 1
    <2> SUFFICES ASSUME NEW i \in 1..Cardinality(S), NEW t \in S, Cardinality(over[t]) = i - 1
                 PROVE  E[i] \in S /\ Cardinality(over[E[i]]) = i - 1
      OBVIOUS
    <2>1. E[i] = CHOOSE r \in S : Cardinality({q \in S : Before(q, r)}) = i - 1
      BY DEF Ranked
    <2>2. Cardinality({q \in S : Before(q, t)}) = i - 1
      OBVIOUS
    <2>3. \A r \in S : over[r] = {q \in S : Before(q, r)}
      OBVIOUS
    <2> HIDE DEF over, E, S
    <2>4. E[i] \in S /\ Cardinality({q \in S : Before(q, E[i])}) = i - 1
      BY <2>1, <2>2
    <2> QED BY <2>3, <2>4
  <1>7. E = [i \in 1..Cardinality(S) |-> E[i]]
    <2> DEFINE place(i) == CHOOSE r \in S : Cardinality({q \in S : Before(q, r)}) = i - 1
    <2>1. E = [i \in 1..Cardinality(S) |-> place(i)]
      BY DEF Ranked
    <2> HIDE DEF place, E
    <2> QED BY <2>1
  <1> HIDE DEF over, E, S
  <1>8. Orders(over, S)
    <2>1. \A t \in S : t \notin over[t]
      BY <1>3, <1>5 DEF Before
    <2>2. \A t, u \in S : t \in over[u] => over[t] \subseteq over[u]
      <3> SUFFICES ASSUME NEW t \in S, NEW u \in S, t \in over[u], NEW v \in over[t]
                   PROVE  v \in over[u]
        OBVIOUS
      <3>1. v \in S /\ Before(v, t) /\ Before(t, u)
        BY <1>5
      <3>2. Before(v, u)
        BY <3>1, <1>3 DEF Before
      <3> QED BY <3>1, <3>2, <1>5
    <2>3. \A t, u \in S : t = u \/ t \in over[u] \/ u \in over[t]
      BY <1>3, <1>4, <1>5 DEF Before
    <2> QED BY <1>5, <2>1, <2>2, <2>3 DEF Orders
  <1>9. Lists(E, over, S)
    BY <1>6 DEF Lists
  <1>10. /\ Cardinality(S) \in Nat
         /\ \A i \in 1..Cardinality(S) : E[i] \in S /\ Cardinality(over[E[i]]) = i - 1
         /\ \A i, j \in 1..Cardinality(S) : i < j => E[i] \in over[E[j]]
         /\ \A t \in S : \E i \in 1..Cardinality(S) : E[i] = t
    BY <1>2, <1>8, <1>9, PlacesSort, SMTT(60)
  <1>11. E \in Seq(Scores) /\ DOMAIN E = 1..Cardinality(S)
    BY <1>2, <1>7, <1>10
  <1>12. SameElements(E, s)
    <2>1. \A i \in DOMAIN E : \E j \in DOMAIN s : E[i] = s[j]
      BY <1>1, <1>10, <1>11
    <2>2. \A j \in DOMAIN s : \E i \in DOMAIN E : E[i] = s[j]
      BY <1>1, <1>10, <1>11
    <2> QED BY <2>1, <2>2 DEF SameElements
  <1>13. FallsOff(E)
    <2> SUFFICES ASSUME NEW i \in DOMAIN E, NEW j \in DOMAIN E, i < j
                 PROVE  E[i].overall >= E[j].overall
      BY DEF FallsOff
    <2>1. E[i] \in S /\ E[j] \in S /\ Before(E[i], E[j])
      BY <1>5, <1>10, <1>11
    <2> QED BY <2>1, <1>3 DEF Before
  <1> QED BY <1>11, <1>12, <1>13 DEF E, S

\* Before the sort, results has the scores of the first resources, in their order.
ScoresAreOwn ==
    /\ results \in Seq(Scores) /\ Len(results) <= Len(riskState)
    /\ \A i \in DOMAIN results : results[i] = Scored(riskState[i])

\* After it, the scores of resources, the highest first.
ScoresAreRanked ==
    /\ results \in Seq(Scores) /\ FallsOff(results)
    /\ \A i \in DOMAIN results : \E j \in DOMAIN riskState : results[i] = Scored(riskState[j])
    /\ \A l \in 1..5 : byLevel[l] > 0 <=> \E i \in DOMAIN results : results[i].level = l

RowsAreWorst ==
    \A i \in DOMAIN results :
        \/ results[i] \in ToSet(shownRisks)
        \/ results[i].level < riskFlags.minLevel
        \/ /\ riskFlags.top = Len(shownRisks)
           /\ \A s \in ToSet(shownRisks) : s.overall >= results[i].overall

GateIsOnAll ==
    riskExit = 3 <=> /\ riskFlags.failLevel # Nil
                     /\ \E i \in DOMAIN results : results[i].level >= riskFlags.failLevel

RiskInv ==
    /\ riskPhase = "idle" => results = <<>>
    /\ riskPhase \notin {"idle", "failed"} => riskState \in RiskStates /\ riskFlags \in RiskFlags
    /\ riskPhase = "scoring" => ScoresAreOwn
    /\ riskPhase \in {"scored", "reported", "done"} => ScoresAreRanked
    /\ riskPhase \in {"reported", "done"} => RowsAreWorst
    /\ riskPhase = "done" => GateIsOnAll

LEMMA StateFacts ==
  ASSUME NEW s \in RiskStates
  PROVE  /\ s \in Seq(RiskResources)
         /\ \A i, j \in DOMAIN s : s[i].address = s[j].address => i = j
  BY RiskStatesAssumption DEF RiskResources

LEMMA RunRiskHolds ==
  ASSUME RiskInv, RunRisk
  PROVE  RiskInv'
  <1>1. /\ riskPhase' = "scoring" /\ riskState' \in RiskStates /\ riskFlags' \in RiskFlags
        /\ results' = <<>>
    BY DEF RiskInv, RunRisk
  <1>2. Len(riskState') \in Nat
    BY <1>1, RiskStatesAssumption
  <1>3. ScoresAreOwn'
    BY <1>1, <1>2 DEF ScoresAreOwn
  <1> QED BY <1>1, <1>3 DEF RiskInv

LEMMA ScoreNextHolds ==
  ASSUME RiskInv, ScoreNext
  PROVE  RiskInv'
  <1> DEFINE n == Len(results)
             r == riskState[n + 1]
  <1>1. /\ riskPhase = "scoring" /\ riskPhase' = "scoring" /\ n < Len(riskState)
        /\ riskState' = riskState /\ riskFlags' = riskFlags
        /\ results' = Append(results, Scored(r))
        /\ riskState \in RiskStates /\ riskFlags \in RiskFlags /\ ScoresAreOwn
    BY DEF RiskInv, ScoreNext, Scored
  <1>2. riskState \in Seq(RiskResources)
    BY <1>1, StateFacts
  <1>3. /\ n \in Nat /\ Len(riskState) \in Nat /\ DOMAIN results = 1..n
        /\ results \in Seq(Scores)
    BY <1>1, <1>2 DEF ScoresAreOwn
  <1>4. r \in RiskResources
    BY <1>1, <1>2, <1>3
  <1>5. Scored(r) \in Scores
    BY <1>4, ScoreFacts
  <1>6. /\ results' \in Seq(Scores) /\ Len(results') = n + 1 /\ DOMAIN results' = 1..(n + 1)
        /\ \A i \in 1..n : results'[i] = results[i]
        /\ results'[n + 1] = Scored(riskState[n + 1])
    BY <1>1, <1>3, <1>5
  <1> HIDE DEF n, r
  <1>7. \A i \in 1..(n + 1) : results'[i] = Scored(riskState[i])
    <2>1. \A i \in 1..(n + 1) : i \in 1..n \/ i = n + 1
      BY <1>3
    <2>2. \A i \in 1..n : results[i] = Scored(riskState[i])
      BY <1>1, <1>3 DEF ScoresAreOwn
    <2> QED BY <2>1, <2>2, <1>6
  <1>8. ScoresAreOwn'
    <2>1. /\ results' \in Seq(Scores) /\ Len(results') <= Len(riskState)
          /\ \A i \in DOMAIN results' : results'[i] = Scored(riskState[i])
      BY <1>1, <1>3, <1>6, <1>7
    <2> QED BY <2>1, <1>1 DEF ScoresAreOwn
  <1> QED BY <1>1, <1>8 DEF RiskInv

LEMMA SortResultsHolds ==
  ASSUME RiskInv, SortResults
  PROVE  RiskInv'
  <1> DEFINE R == Ranked(ToSet(results))
             at(l) == {i \in DOMAIN results : results[i].level = l}
  <1>1. /\ riskPhase' = "scored" /\ riskState' = riskState /\ riskFlags' = riskFlags
        /\ results' = R
        /\ riskState \in RiskStates /\ riskFlags \in RiskFlags /\ ScoresAreOwn
        /\ Len(results) = Len(riskState)
    BY DEF RiskInv, SortResults
  <1>2. \A l \in 1..5 : byLevel'[l] = Cardinality(at(l))
    BY DEF SortResults
  <1>3. /\ riskState \in Seq(RiskResources)
        /\ \A i, j \in DOMAIN riskState : riskState[i].address = riskState[j].address => i = j
    BY <1>1, StateFacts
  <1>4. /\ results \in Seq(Scores) /\ Len(results) \in Nat
        /\ DOMAIN results = 1..Len(results) /\ DOMAIN results = DOMAIN riskState
        /\ \A i \in DOMAIN results : results[i] = Scored(riskState[i])
    BY <1>1, <1>3 DEF ScoresAreOwn
  <1>5. AddressedOnce(results)
    <2>1. \A i \in DOMAIN results : results[i].address = riskState[i].address
      BY <1>4 DEF Scored
    <2> QED BY <2>1, <1>3, <1>4 DEF AddressedOnce
  <1>6. R \in Seq(Scores) /\ SameElements(R, results) /\ FallsOff(R)
    BY <1>4, <1>5, RankedFacts
  <1> HIDE DEF R
  <1>7. \A i \in DOMAIN R : \E j \in DOMAIN riskState : R[i] = Scored(riskState[j])
    BY <1>4, <1>6 DEF SameElements
  <1>8. ASSUME NEW l \in 1..5
        PROVE  byLevel'[l] > 0 <=> \E i \in DOMAIN R : R[i].level = l
    <2>1. IsFiniteSet(at(l)) /\ Cardinality(at(l)) \in Nat
      <3>1. IsFiniteSet(1..Len(results))
        BY <1>4, FS_Interval
      <3>2. at(l) \subseteq 1..Len(results)
        BY <1>4
      <3> HIDE DEF at
      <3> QED BY <3>1, <3>2, FS_Subset, FS_CardinalityType
    <2>2. Cardinality(at(l)) = 0 <=> at(l) = {}
      <3> HIDE DEF at
      <3> QED BY <2>1, FS_EmptySet
    <2>3. at(l) # {} <=> \E i \in DOMAIN R : R[i].level = l
      BY <1>6 DEF SameElements
    <2>4. byLevel'[l] = Cardinality(at(l))
      BY <1>2
    <2> HIDE DEF at
    <2> QED BY <2>1, <2>2, <2>3, <2>4
  <1>9. ScoresAreRanked'
    BY <1>1, <1>6, <1>7, <1>8 DEF ScoresAreRanked, FallsOff
  <1> QED BY <1>1, <1>9 DEF RiskInv

LEMMA ReportRisksHolds ==
  ASSUME RiskInv, ReportRisks
  PROVE  RiskInv'
  <1> DEFINE P == {i \in DOMAIN results : results[i].level >= riskFlags.minLevel}
             filtered == Kept(results, P)
             top == riskFlags.top
             cut == top > 0 /\ Len(filtered) > top
  <1>1. /\ riskPhase' = "reported" /\ riskState' = riskState /\ riskFlags' = riskFlags
        /\ results' = results /\ byLevel' = byLevel
        /\ riskState \in RiskStates /\ riskFlags \in RiskFlags /\ ScoresAreRanked
    BY DEF RiskInv, ReportRisks
  <1>2. shownRisks' = IF cut THEN SubSeq(filtered, 1, top) ELSE filtered
    BY DEF ReportRisks
  <1>3. /\ results \in Seq(Scores) /\ FallsOff(results)
        /\ DOMAIN results = 1..Len(results) /\ Len(results) \in Nat
    BY <1>1 DEF ScoresAreRanked
  <1>4. /\ riskFlags.minLevel \in 1..5 /\ top \in Int
        /\ \A i \in DOMAIN results : results[i].level \in 1..5 /\ results[i].overall \in Nat
    <2>1. riskFlags.minLevel \in 1..5 /\ top \in Int
      BY <1>1, RiskFlagsAssumption
    <2>2. \A i \in DOMAIN results : results[i] \in Scores
      BY <1>3
    <2>3. \A s \in Scores : s.level \in 1..5 /\ s.overall \in Nat
      BY DEF Scores
    <2> QED BY <2>1, <2>2, <2>3
  <1>5. P \in SUBSET DOMAIN results /\ \A i \in DOMAIN results : i \in P \/ results[i].level < riskFlags.minLevel
    BY <1>4
  <1> DEFINE c == Cardinality(P)
             E == Ascending(P)
  <1> HIDE DEF P
  <1>6. /\ filtered \in Seq(Scores) /\ DOMAIN filtered = 1..c /\ c \in Nat /\ Len(filtered) = c
        /\ \A k \in DOMAIN filtered : E[k] \in P /\ filtered[k] = results[E[k]]
        /\ \A j, k \in DOMAIN filtered : j < k => E[j] < E[k]
        /\ \A i \in P : \E k \in DOMAIN filtered : E[k] = i
    BY <1>3, <1>5, KeptFacts
  <1> HIDE DEF filtered, c, E
  <1>7. ASSUME NEW i \in DOMAIN results
        PROVE  \/ results[i] \in ToSet(shownRisks')
               \/ results[i].level < riskFlags.minLevel
               \/ /\ top = Len(shownRisks')
                  /\ \A s \in ToSet(shownRisks') : s.overall >= results[i].overall
    <2>1. CASE i \notin P
      BY <2>1, <1>5
    <2>2. CASE i \in P /\ ~cut
      <3>1. shownRisks' = filtered
        BY <2>2, <1>2
      <3> HIDE DEF cut
      <3>2. \E k \in DOMAIN filtered : filtered[k] = results[i]
        BY <2>2, <1>6
      <3> QED BY <3>1, <3>2 DEF ToSet
    <2>3. CASE i \in P /\ cut
      <3>1. top \in Nat /\ 1 <= top /\ top < c
        BY <2>3, <1>4, <1>6
      <3>2. shownRisks' = SubSeq(filtered, 1, top)
        BY <2>3, <1>2
      <3> HIDE DEF cut, top
      <3>3. /\ Len(shownRisks') = top /\ DOMAIN shownRisks' = 1..top
            /\ \A k \in 1..top : shownRisks'[k] = filtered[k]
        BY <3>1, <3>2, <1>6
      <3>4. PICK k \in DOMAIN filtered : E[k] = i
        BY <2>3, <1>6
      <3>5. CASE k <= top
        <4>1. k \in DOMAIN shownRisks' /\ shownRisks'[k] = results[i]
          BY <3>3, <3>4, <3>5, <1>6
        <4> QED BY <4>1 DEF ToSet
      <3>6. CASE ~(k <= top)
        <4> SUFFICES ASSUME NEW j \in 1..top PROVE shownRisks'[j].overall >= results[i].overall
          BY <3>3 DEF ToSet
        <4>1. j \in DOMAIN filtered /\ j < k /\ k \in DOMAIN filtered
          BY <3>1, <3>4, <3>6, <1>6
        <4>2. E[j] \in DOMAIN results /\ E[j] < i /\ shownRisks'[j] = results[E[j]]
          BY <4>1, <3>3, <3>4, <1>5, <1>6
        <4> QED BY <4>2, <1>3, <1>7 DEF FallsOff
      <3> QED BY <3>5, <3>6
    <2> QED BY <2>1, <2>2, <2>3
  <1>8. RowsAreWorst'
    BY <1>1, <1>7 DEF RowsAreWorst, top
  <1>9. ScoresAreRanked'
    BY <1>1 DEF ScoresAreRanked
  <1> QED BY <1>1, <1>8, <1>9 DEF RiskInv

LEMMA RiskStep ==
  ASSUME RiskInv, [RiskNext]_riskVars
  PROVE  RiskInv'
  <1>1. CASE RunRisk
    BY <1>1, RunRiskHolds
  <1>2. CASE RiskFails
    BY <1>2 DEF RiskFails, RiskInv
  <1>3. CASE ScoreNext
    BY <1>3, ScoreNextHolds
  <1>4. CASE SortResults
    BY <1>4, SortResultsHolds
  <1>5. CASE ReportRisks
    BY <1>5, ReportRisksHolds
  <1>6. CASE GateRisk
    <2>1. /\ riskPhase = "reported" /\ riskPhase' = "done"
          /\ riskState' = riskState /\ riskFlags' = riskFlags /\ results' = results
          /\ byLevel' = byLevel /\ shownRisks' = shownRisks
          /\ riskExit' = IF /\ riskFlags.failLevel # Nil
                            /\ \E i \in DOMAIN results : results[i].level >= riskFlags.failLevel
                         THEN 3 ELSE 0
      BY <1>6 DEF GateRisk
    <2>2. ScoresAreRanked' /\ RowsAreWorst'
      BY <2>1 DEF RiskInv, ScoresAreRanked, RowsAreWorst
    <2>3. GateIsOnAll'
      BY <2>1 DEF GateIsOnAll
    <2> QED BY <2>1, <2>2, <2>3 DEF RiskInv
  <1>7. CASE UNCHANGED riskVars
    BY <1>7 DEF riskVars, RiskInv, ScoresAreOwn, ScoresAreRanked, RowsAreWorst, GateIsOnAll
  <1> QED BY <1>1, <1>2, <1>3, <1>4, <1>5, <1>6, <1>7 DEF RiskNext

LEMMA RankedIsRight ==
  ASSUME RiskInv
  PROVE  RiskIsRanked
  <1> SUFFICES ASSUME riskPhase \in {"reported", "done"}
               PROVE  RiskIsRanked
    BY DEF RiskIsRanked
  <1> DEFINE byAddress(a) == CHOOSE r \in ToSet(riskState) : r.address = a
  <1>1. /\ riskState \in RiskStates /\ riskFlags \in RiskFlags
        /\ ScoresAreRanked /\ RowsAreWorst
        /\ riskPhase = "done" => GateIsOnAll
    BY DEF RiskInv
  <1>2. /\ riskState \in Seq(RiskResources)
        /\ \A i, j \in DOMAIN riskState : riskState[i].address = riskState[j].address => i = j
    BY <1>1, StateFacts
  <1>3. ASSUME NEW i \in DOMAIN results
        PROVE  /\ byAddress(results[i].address) \in RiskResources
               /\ results[i].overall = Overall(byAddress(results[i].address))
    <2>1. PICK j \in DOMAIN riskState : results[i] = Scored(riskState[j])
      BY <1>1 DEF ScoresAreRanked
    <2>2. riskState[j] \in RiskResources /\ riskState[j] \in ToSet(riskState)
      BY <1>2 DEF ToSet
    <2>3. results[i].address = riskState[j].address /\ results[i].overall = Overall(riskState[j])
      BY <2>1 DEF Scored
    <2>4. \A r \in ToSet(riskState) : r.address = riskState[j].address => r = riskState[j]
      BY <1>2 DEF ToSet
    <2>5. byAddress(results[i].address) = riskState[j]
      BY <2>2, <2>3, <2>4
    <2> QED BY <2>2, <2>3, <2>5
  <1>4. ASSUME NEW i \in DOMAIN results, NEW j \in DOMAIN results,
               Concerns(byAddress(results[j].address)) \subseteq Concerns(byAddress(results[i].address))
        PROVE  results[i].overall >= results[j].overall
    <2> DEFINE r == byAddress(results[i].address)
               q == byAddress(results[j].address)
    <2>1. r \in RiskResources /\ q \in RiskResources /\ Concerns(q) \subseteq Concerns(r)
      BY <1>3, <1>4
    <2> HIDE DEF r, q
    <2>2. Overall(r) >= Overall(q)
      BY <2>1, MoreConcernsScoreMore
    <2>3. results[i].overall = Overall(r) /\ results[j].overall = Overall(q)
      BY <1>3 DEF r, q
    <2> QED BY <2>2, <2>3
  <1>5. ASSUME riskPhase = "done", riskFlags.failLevel # Nil
        PROVE  riskExit = 3 <=> \E l \in riskFlags.failLevel..5 : byLevel[l] > 0
    <2>1. riskFlags.failLevel \in 1..5
      BY <1>1, <1>5, RiskFlagsAssumption
    <2>2. riskExit = 3 <=> \E i \in DOMAIN results : results[i].level >= riskFlags.failLevel
      BY <1>1, <1>5 DEF GateIsOnAll
    <2>3. \A i \in DOMAIN results : results[i].level \in 1..5
      <3>1. \A i \in DOMAIN results : results[i] \in Scores
        BY <1>1 DEF ScoresAreRanked
      <3>2. \A s \in Scores : s.level \in 1..5
        BY DEF Scores
      <3> QED BY <3>1, <3>2
    <2>4. \A l \in 1..5 : byLevel[l] > 0 <=> \E i \in DOMAIN results : results[i].level = l
      BY <1>1 DEF ScoresAreRanked
    <2>5. \A l \in riskFlags.failLevel..5 : l \in 1..5 /\ l >= riskFlags.failLevel
      BY <2>1
    <2>6. \A l \in 1..5 : l >= riskFlags.failLevel => l \in riskFlags.failLevel..5
      BY <2>1
    <2> QED BY <2>2, <2>3, <2>4, <2>5, <2>6
  <1> HIDE DEF byAddress
  <1> QED BY <1>1, <1>4, <1>5 DEF RiskIsRanked, RowsAreWorst, byAddress

\* Of any state and any flags: a resource with every concern of another is before it
\* or ties, the rows left out are no worse, and the gate is on all (cli/risk.go:125).
THEOREM RisksAreRanked == RiskSpec => []RiskIsRanked
  <1>1. RiskInit => RiskInv
    BY DEF RiskInit, RiskInv
  <1>2. RiskInv /\ [RiskNext]_riskVars => RiskInv'
    BY RiskStep
  <1>3. RiskInv => RiskIsRanked
    BY RankedIsRight
  <1> QED BY <1>1, <1>2, <1>3, PTL DEF RiskSpec

-----------------------------------------------------------------------------
(* Who is told *)

Addresses == [module : Seq(STRING), type : STRING, name : STRING, key : STRING]

StateTags == [map : 1..3, key : STRING, text : STRING]

Findings == [address : Addresses, tags : SUBSET StateTags]

\* A set of places that is not empty has a last one.
LEMMA LastPlace ==
  ASSUME NEW n \in Nat, NEW P \in SUBSET (1..n), P # {}
  PROVE  Max(P) \in P /\ \A p \in P : p <= Max(P)
  <1> DEFINE back == {n - p : p \in P}
  <1>1. back \subseteq Nat /\ back # {}
    <2>1. \A p \in P : n - p \in Nat
      OBVIOUS
    <2>2. PICK p \in P : TRUE
      OBVIOUS
    <2>3. n - p \in back
      OBVIOUS
    <2> QED BY <2>1, <2>3
  <1>2. PICK b \in back : \A c \in back : b <= c
    <2> HIDE DEF back
    <2> QED BY <1>1, LeastNatural
  <1>3. PICK x \in P : b = n - x
    OBVIOUS
  <1>4. \A p \in P : x >= p
    <2> SUFFICES ASSUME NEW p \in P PROVE x >= p
      OBVIOUS
    <2>1. b <= n - p
      BY <1>2
    <2> QED BY <2>1, <1>3
  <1>5. Max(P) \in P /\ \A p \in P : Max(P) >= p
    BY <1>4 DEF Max
  <1>6. Max(P) \in 1..n /\ \A p \in P : p \in 1..n
    BY <1>5
  <1> QED BY <1>5, <1>6

\* The text of the code is in STRING too, which no backend knows.
Texts == STRING \cup {"module", "rest"}

\* The path of a resource whose key has no dot is that of its module.
LEMMA PathIsOwn ==
  ASSUME NEW a \in Addresses, a.module # <<>>
  PROVE  /\ OwnPath(a) # <<>>
         /\ a.key # "dotted" => ModulePath(a) = OwnPath(a)
  <1> DEFINE n == Len(a.module)
             m == ModuleSegments(a.module)
             rest == IF a.key = "dotted" THEN <<"rest">> ELSE <<>>
             parts == Segments(a)
  <1>1. /\ a.module \in Seq(STRING) /\ a.type \in STRING /\ a.name \in STRING
        /\ n \in Nat /\ n > 0
    BY DEF Addresses
  <1>2. m \in Seq(Texts) /\ Len(m) = 2 * n
    <2>1. \A i \in 1..(2 * n) : (IF i % 2 = 1 THEN "module" ELSE a.module[i \div 2]) \in Texts
      <3> SUFFICES ASSUME NEW i \in 1..(2 * n)
                   PROVE  (IF i % 2 = 1 THEN "module" ELSE a.module[i \div 2]) \in Texts
        OBVIOUS
      <3>1. CASE i % 2 = 1
        BY <3>1 DEF Texts
      <3>2. CASE i % 2 # 1
        <4> DEFINE h == i \div 2
        <4>1. h \in 1..n
          <5> HIDE DEF n
          <5> QED BY <3>2, <1>1
        <4> HIDE DEF h
        <4>2. a.module[h] \in STRING
          BY <4>1, <1>1
        <4> QED BY <4>2, <3>2 DEF h, Texts
      <3> QED BY <3>1, <3>2
    <2>2. m = [i \in 1..(2 * n) |-> IF i % 2 = 1 THEN "module" ELSE a.module[i \div 2]]
      BY DEF ModuleSegments
    <2>3. 2 * n \in Nat
      BY <1>1
    <2> HIDE DEF m, n
    <2> QED BY <2>1, <2>2, <2>3
  <1>3. rest \in Seq(Texts) /\ Len(rest) \in Nat /\ (a.key # "dotted" => Len(rest) = 0)
    <2>1. CASE a.key = "dotted"
      <3>1. rest = <<"rest">>
        BY <2>1
      <3>2. <<"rest">> \in Seq(Texts) /\ Len(<<"rest">>) = 1
        BY DEF Texts
      <3> QED BY <3>1, <3>2, <2>1
    <2>2. CASE a.key # "dotted"
      <3>1. rest = <<>>
        BY <2>2
      <3>2. <<>> \in Seq(Texts) /\ Len(<<>>) = 0
        OBVIOUS
      <3> QED BY <3>1, <3>2
    <2> QED BY <2>1, <2>2
  <1> DEFINE pair == <<a.type, a.name>>
  <1>4. pair \in Seq(Texts) /\ Len(pair) = 2
    BY <1>1 DEF Texts
  <1>5. parts = m \o pair \o rest
    BY DEF Segments
  <1> HIDE DEF m, rest, pair, parts
  <1>6. parts \in Seq(Texts) /\ Len(parts) = 2 * n + 2 + Len(rest)
    <2> HIDE DEF n
    <2>1. m \o pair \in Seq(Texts) /\ Len(m \o pair) = 2 * n + 2
      <3>1. m \o pair \in Seq(Texts) /\ Len(m \o pair) = Len(m) + Len(pair)
        BY <1>2, <1>4, ConcatProperties
      <3> QED BY <3>1, <1>1, <1>2, <1>4
    <2> DEFINE front == m \o pair
    <2> HIDE DEF front
    <2>2. front \o rest \in Seq(Texts) /\ Len(front \o rest) = Len(front) + Len(rest)
      BY <2>1, <1>3, ConcatProperties DEF front
    <2> QED BY <2>1, <2>2, <1>5 DEF front
  <1>7. OwnPath(a) = SubSeq(parts, 1, 2 * n)
    BY DEF OwnPath, parts
  <1>8. Len(SubSeq(parts, 1, 2 * n)) = 2 * n
    BY <1>1, <1>3, <1>6
  <1>9. a.key # "dotted" => ModulePath(a) = SubSeq(parts, 1, 2 * n)
    <2> SUFFICES ASSUME a.key # "dotted" PROVE ModulePath(a) = SubSeq(parts, 1, 2 * n)
      OBVIOUS
    <2>1. Len(parts) = 2 * n + 2 /\ ~(Len(parts) < 4) /\ Len(parts) - 2 = 2 * n
      BY <1>1, <1>3, <1>6
    <2>2. ModulePath(a) = SubSeq(parts, 1, Len(parts) - 2)
      BY <2>1 DEF ModulePath, parts
    <2> QED BY <2>1, <2>2
  <1>10. OwnPath(a) # <<>>
    <2>1. Len(OwnPath(a)) = 2 * n /\ Len(<<>>) = 0
      BY <1>7, <1>8
    <2> HIDE DEF n
    <2> QED BY <2>1, <1>1
  <1> HIDE DEF n
  <1> QED BY <1>7, <1>9, <1>10

\* Two tags of one map with one key: of two spellings the order decides.
TwoSpellings(f) == \E t, u \in f.tags : t.key = u.key /\ t.map = u.map /\ t # u

LEMMA TagValuesFacts ==
  ASSUME NEW f \in Findings, NEW key
  PROVE  /\ \A x \in TagValues(f, key) : \E t \in f.tags : t.key = key /\ t.text = x
         /\ \A x, y \in TagValues(f, key) : x # y => TwoSpellings(f)
         /\ TagValues(f, key) = {} => \A t \in f.tags : t.key # key
  <1> DEFINE there == {t \in f.tags : t.key = key}
             maps == {v.map : v \in there}
             last == Max(maps)
  <1>1. f.tags \subseteq StateTags
    BY DEF Findings
  <1>2. TagValues(f, key) = {t.text : t \in {u \in there : u.map = last}}
    BY DEF TagValues
  <1>3. maps \in SUBSET (1..3)
    BY <1>1 DEF StateTags
  <1>4. ASSUME there # {} PROVE TagValues(f, key) # {}
    <2>1. maps # {} /\ 3 \in Nat
      BY <1>4
    <2>2. last \in maps
      <3> HIDE DEF maps
      <3> QED BY <1>3, <2>1, LastPlace
    <2>3. \E u \in there : u.map = last
      <3> HIDE DEF last
      <3> QED BY <2>2
    <2> HIDE DEF there, last
    <2> QED BY <2>3, <1>2
  <1> HIDE DEF last
  <1>5. \A x \in TagValues(f, key) : \E t \in f.tags : t.key = key /\ t.map = last /\ t.text = x
    BY <1>2
  <1>6. \A x, y \in TagValues(f, key) : x # y => TwoSpellings(f)
    <2> SUFFICES ASSUME NEW x \in TagValues(f, key), NEW y \in TagValues(f, key), x # y
                 PROVE  TwoSpellings(f)
      OBVIOUS
    <2>1. PICK t \in f.tags : t.key = key /\ t.map = last /\ t.text = x
      BY <1>5
    <2>2. PICK u \in f.tags : u.key = key /\ u.map = last /\ u.text = y
      BY <1>5
    <2> QED BY <2>1, <2>2 DEF TwoSpellings
  <1>7. \A x \in TagValues(f, key) : \E t \in f.tags : t.key = key /\ t.text = x
    BY <1>5
  <1>8. TagValues(f, key) = {} => \A t \in f.tags : t.key # key
    BY <1>4
  <1> QED BY <1>6, <1>7, <1>8

AllSkipped(f) == \A k \in DOMAIN setup.tagKeys : Skipped(f, setup.tagKeys[k])

\* The owner of a tag is of a key that is not empty, after keys that were skipped.
LEMMA TagOwnerIs ==
  ASSUME NEW f, NEW o \in TagOwners(f)
  PROVE  /\ o.via = "tag"
         /\ \E k \in DOMAIN setup.tagKeys :
               /\ o.name \in TagValues(f, setup.tagKeys[k]) \ {Unnamed}
               /\ \A j \in 1..(k - 1) : Skipped(f, setup.tagKeys[j])
  <1> DEFINE after == {i \in DOMAIN setup.tagKeys :
                          \A j \in 1..(i - 1) : Skipped(f, setup.tagKeys[j])}
             from(k) == [name : TagValues(f, setup.tagKeys[k]) \ {Unnamed}, via : {"tag"}]
  <1>1. TagOwners(f) = UNION {from(k) : k \in after}
    BY DEF TagOwners
  <1>2. PICK k \in after : o \in from(k)
    <2> HIDE DEF after, from
    <2> QED BY <1>1
  <1> QED BY <1>2

\* A key that was skipped although it has a value has two spellings.
LEMMA SkippedInPart ==
  ASSUME NEW f \in Findings, NEW key, Skipped(f, key), NEW x \in TagValues(f, key) \ {Unnamed}
  PROVE  TwoSpellings(f)
  <1>1. Unnamed \in TagValues(f, key) /\ x \in TagValues(f, key) /\ x # Unnamed
    BY DEF Skipped
  <1> QED BY <1>1, TagValuesFacts

LEMMA TagOwnersDiffer ==
  ASSUME NEW f \in Findings, setup \in Setups, NEW o \in TagOwners(f), NEW p \in TagOwners(f),
         o.name # p.name
  PROVE  TwoSpellings(f)
  <1> DEFINE named(q, k) == /\ q.name \in TagValues(f, setup.tagKeys[k]) \ {Unnamed}
                            /\ \A j \in 1..(k - 1) : Skipped(f, setup.tagKeys[j])
  <1>1. \A k \in DOMAIN setup.tagKeys : k \in Nat /\ k > 0
    <2>1. setup.tagKeys \in Seq(STRING)
      BY SetupsAssumption
    <2> QED BY <2>1
  <1>2. PICK k \in DOMAIN setup.tagKeys : named(o, k)
    BY TagOwnerIs
  <1>3. PICK l \in DOMAIN setup.tagKeys : named(p, l)
    BY TagOwnerIs
  <1>4. CASE k = l
    BY <1>2, <1>3, <1>4, TagValuesFacts
  <1>5. CASE k < l
    <2>1. k \in 1..(l - 1)
      BY <1>1, <1>5
    <2>2. Skipped(f, setup.tagKeys[k])
      BY <2>1, <1>3
    <2> QED BY <2>2, <1>2, SkippedInPart
  <1>6. CASE l < k
    <2>1. l \in 1..(k - 1)
      BY <1>1, <1>6
    <2>2. Skipped(f, setup.tagKeys[l])
      BY <2>1, <1>2
    <2> QED BY <2>2, <1>3, SkippedInPart
  <1> QED BY <1>1, <1>4, <1>5, <1>6

LEMMA TagOwnerOfSkipped ==
  ASSUME NEW f \in Findings, NEW o \in TagOwners(f), AllSkipped(f)
  PROVE  TwoSpellings(f)
  <1>1. PICK k \in DOMAIN setup.tagKeys : o.name \in TagValues(f, setup.tagKeys[k]) \ {Unnamed}
    BY TagOwnerIs
  <1>2. Skipped(f, setup.tagKeys[k])
    BY DEF AllSkipped
  <1> QED BY <1>1, <1>2, SkippedInPart

\* The lines in force all have an owner, and the last one that covers a module is the
\* one that is found.
LEMMA LineFacts ==
  ASSUME NEW f \in Findings, NEW L, lines \in Seq(L), \A l \in DOMAIN lines : lines[l].owner # Nil,
         f.address.key # "dotted"
  PROVE  LET line == MatchCodeowners(ModulePath(f.address)) IN
         /\ line = Nil => Covering(f) = {}
         /\ line # Nil => \E l \in Covering(f) :
                             lines[l].owner = line /\ \A m \in Covering(f) : m <= l
  <1> DEFINE path == ModulePath(f.address)
             found == {l \in DOMAIN lines : path # <<>> /\ CodeownersMatch(lines[l].pattern, path)}
  <1>1. f.address \in Addresses
    BY DEF Findings
  <1>2. found = Covering(f)
    <2>1. CASE f.address.module = <<>>
      BY <2>1 DEF ModulePath, Covering
    <2>2. CASE f.address.module # <<>>
      <3>1. path = OwnPath(f.address) /\ path # <<>>
        BY <2>2, <1>1, PathIsOwn
      <3> HIDE DEF path
      <3> QED BY <3>1, <2>2 DEF Covering
    <2> QED BY <2>1, <2>2
  <1>3. MatchCodeowners(path) = IF found = {} THEN Nil ELSE lines[Max(found)].owner
    BY DEF MatchCodeowners
  <1>4. ASSUME found # {} PROVE Max(found) \in found /\ \A m \in found : m <= Max(found)
    <2>1. Len(lines) \in Nat /\ found \in SUBSET (1..Len(lines))
      OBVIOUS
    <2> HIDE DEF found
    <2> QED BY <2>1, <1>4, LastPlace
  <1>5. found # {} => lines[Max(found)].owner # Nil
    BY <1>4
  <1> HIDE DEF found
  <1> QED BY <1>2, <1>3, <1>4, <1>5

LEMMA FallbackIsFinite ==
  ASSUME NEW a, setup \in Setups
  PROVE  IsFiniteSet(MatchFallback(a))
  <1> DEFINE found == {p \in setup.fallback :
                          IF p.wild THEN IsPrefix(p.stem, Segments(a)) ELSE p.stem = Segments(a)}
             longest == {q \in found : \A r \in found : Len(r.stem) <= Len(q.stem)}
             names == [p \in longest |-> p.owner]
  <1>1. IsFiniteSet(setup.fallback) /\ longest \subseteq setup.fallback
    BY SetupsAssumption
  <1>2. MatchFallback(a) = {p.owner : p \in longest}
    BY DEF MatchFallback
  <1> HIDE DEF longest
  <1>3. IsFiniteSet(longest)
    BY <1>1, FS_Subset
  <1>4. names = [p \in longest |-> names[p]] /\ MatchFallback(a) = {names[p] : p \in longest}
    BY <1>2
  <1> HIDE DEF names
  <1> QED BY <1>3, <1>4, FiniteImage

\* Two owners that no tag names are of a tie in the fallback map.
LEMMA UntaggedFacts ==
  ASSUME NEW f, NEW o \in UntaggedOwners(f)
  PROVE  /\ o.via # "tag"
         /\ o.via \in {"default", "none"} =>
               MatchCodeowners(ModulePath(f.address)) = Nil /\ MatchFallback(f.address) = {}
         /\ o.via = "codeowners" =>
               o.name = MatchCodeowners(ModulePath(f.address)) /\ o.name # Nil
         /\ \A p \in UntaggedOwners(f) :
               o.name # p.name => o.name \in MatchFallback(f.address) /\ p.name \in MatchFallback(f.address)
  <1> DEFINE line == MatchCodeowners(ModulePath(f.address))
             tied == MatchFallback(f.address)
  <1>1. CASE line # Nil
    <2>1. UntaggedOwners(f) = {[name |-> line, via |-> "codeowners"]}
      BY <1>1 DEF UntaggedOwners
    <2> HIDE DEF line
    <2> QED BY <2>1, <1>1 DEF line
  <1>2. CASE line = Nil /\ tied # {}
    <2>1. UntaggedOwners(f) = [name : tied, via : {"fallback"}]
      BY <1>2 DEF UntaggedOwners
    <2> HIDE DEF line, tied
    <2> QED BY <2>1, <1>2 DEF tied
  <1>3. CASE line = Nil /\ tied = {} /\ setup.default # Unnamed
    <2>1. UntaggedOwners(f) = {[name |-> setup.default, via |-> "default"]}
      BY <1>3 DEF UntaggedOwners
    <2> HIDE DEF line, tied
    <2> QED BY <2>1, <1>3 DEF line, tied
  <1>4. CASE line = Nil /\ tied = {} /\ setup.default = Unnamed
    <2>1. UntaggedOwners(f) = {Unowned}
      BY <1>4 DEF UntaggedOwners
    <2> HIDE DEF line, tied
    <2> QED BY <2>1, <1>4 DEF line, tied, Unowned
  <1> QED BY <1>1, <1>2, <1>3, <1>4

\* Two owners of one finding: an order decides.
LEMMA ResolveDiffers ==
  ASSUME NEW f \in Findings, setup \in Setups, NEW o \in Resolve(f), NEW p \in Resolve(f),
         o.name # p.name
  PROVE  Cardinality(MatchFallback(f.address)) > 1 \/ TwoSpellings(f)
  <1>1. /\ o \in TagOwners(f) \/ (o \in UntaggedOwners(f) /\ AllSkipped(f))
        /\ p \in TagOwners(f) \/ (p \in UntaggedOwners(f) /\ AllSkipped(f))
    BY DEF Resolve, AllSkipped
  <1>2. CASE o \in TagOwners(f) /\ p \in TagOwners(f)
    BY <1>2, TagOwnersDiffer
  <1>3. CASE o \in TagOwners(f) /\ AllSkipped(f)
    BY <1>3, TagOwnerOfSkipped
  <1>4. CASE p \in TagOwners(f) /\ AllSkipped(f)
    BY <1>4, TagOwnerOfSkipped
  <1>5. CASE o \in UntaggedOwners(f) /\ p \in UntaggedOwners(f)
    <2> DEFINE tied == MatchFallback(f.address)
    <2>1. o.name \in tied /\ p.name \in tied
      BY <1>5, UntaggedFacts
    <2>2. IsFiniteSet(tied)
      BY FallbackIsFinite
    <2> HIDE DEF tied
    <2>3. Cardinality(tied) \in Nat /\ IsFiniteSet(tied \ {o.name})
      BY <2>2, FS_CardinalityType, FS_Subset
    <2>4. ~(Cardinality(tied) <= 1)
      <3>1. Cardinality(tied \ {o.name}) = Cardinality(tied) - 1
        BY <2>1, <2>2, FS_RemoveElement
      <3>2. Cardinality(tied \ {o.name}) \in Nat /\ tied \ {o.name} # {}
        BY <2>1, <2>3, FS_CardinalityType
      <3>3. Cardinality(tied \ {o.name}) # 0
        BY <2>3, <3>2, FS_EmptySet
      <3> QED BY <2>3, <3>1, <3>2, <3>3
    <2> QED BY <2>3, <2>4 DEF tied
  <1> QED BY <1>1, <1>2, <1>3, <1>4, <1>5

\* What is resolved depends on the setup and the lines, which stay.
LEMMA ResolveStays ==
  ASSUME setup' = setup, lines' = lines, members' = members, NEW i
  PROVE  Resolve(members[i])' = Resolve(members[i])
  <1> DEFINE f == members[i]
  <1>1. TagOwners(f)' = TagOwners(f)
    BY DEF TagOwners
  <1>2. MatchCodeowners(ModulePath(f.address))' = MatchCodeowners(ModulePath(f.address))
    BY DEF MatchCodeowners
  <1>3. MatchFallback(f.address)' = MatchFallback(f.address)
    BY DEF MatchFallback
  <1>4. UntaggedOwners(f)' = UntaggedOwners(f)
    BY <1>2, <1>3 DEF UntaggedOwners
  <1> QED BY <1>1, <1>4 DEF Resolve

Named ==
    [name : STRING \cup {Unnamed}, via : {"tag", "codeowners", "fallback", "default", "none"}]

Lines == [pattern : STRING, owner : {Nil} \cup STRING]

OwnedLines ==
    /\ lines \in Seq(Lines)
    /\ \A l \in DOMAIN lines : lines[l].owner # Nil

OwnersResolved ==
    /\ owners \in Seq(Named) /\ Len(owners) <= Len(members)
    /\ \A i \in DOMAIN owners : owners[i] \in Resolve(members[i])

GroupOwnerIs ==
    groupOwner # Nil =>
        groupOwner = IF \A i \in DOMAIN owners : owners[i].name = owners[1].name
                     THEN owners[1] ELSE Unowned

OwnerInv ==
    /\ notifyStep = "idle" => members = <<>>
    /\ notifyStep # "idle" => setup \in Setups /\ members \in Groups
    /\ notifyStep \in {"idle", "loading"} => owners = <<>>
    /\ notifyStep \in {"idle", "loading", "resolving"} => groupOwner = Nil
    /\ notifyStep # "over" => reply = Nil
    /\ notifyStep = "sending" => setup.sink \in {"stdout", "slack", "webhook", "github"}
    /\ OwnedLines
    /\ OwnersResolved
    /\ GroupOwnerIs
    /\ SendIsHonest

LEMMA GroupFacts ==
  ASSUME NEW g \in Groups
  PROVE  g \in Seq(Findings)
  BY GroupsAssumption DEF Findings, Addresses, StateTags

LEMMA ResolveTypes ==
  ASSUME NEW f \in Findings, setup \in Setups, OwnedLines
  PROVE  Resolve(f) \subseteq Named
  <1> SUFFICES ASSUME NEW o \in Resolve(f) PROVE o \in Named
    OBVIOUS
  <1> DEFINE line == MatchCodeowners(ModulePath(f.address))
             tied == MatchFallback(f.address)
  <1>1. o \in TagOwners(f) \/ o \in UntaggedOwners(f)
    BY DEF Resolve
  <1>2. CASE o \in TagOwners(f)
    <2> DEFINE after == {i \in DOMAIN setup.tagKeys :
                            \A j \in 1..(i - 1) : Skipped(f, setup.tagKeys[j])}
               from(k) == [name : TagValues(f, setup.tagKeys[k]) \ {Unnamed}, via : {"tag"}]
    <2>1. TagOwners(f) = UNION {from(k) : k \in after}
      BY DEF TagOwners
    <2>2. PICK k \in after : o \in from(k)
      <3> HIDE DEF after, from
      <3> QED BY <1>2, <2>1
    <2>3. TagValues(f, setup.tagKeys[k]) \subseteq STRING
      <3>1. \A t \in f.tags : t.text \in STRING
        BY DEF Findings, StateTags
      <3> QED BY <3>1, TagValuesFacts
    <2> QED BY <2>2, <2>3 DEF Named
  <1>3. CASE o \in UntaggedOwners(f) /\ line # Nil
    <2>1. UntaggedOwners(f) = {[name |-> line, via |-> "codeowners"]}
      BY <1>3 DEF UntaggedOwners
    <2>2. line \in STRING
      <3> DEFINE path == ModulePath(f.address)
                 found == {l \in DOMAIN lines : path # <<>> /\ CodeownersMatch(lines[l].pattern, path)}
      <3>1. line = IF found = {} THEN Nil ELSE lines[Max(found)].owner
        BY DEF MatchCodeowners
      <3>2. Len(lines) \in Nat /\ found \in SUBSET (1..Len(lines)) /\ found \subseteq DOMAIN lines
        BY DEF OwnedLines
      <3> HIDE DEF found
      <3>3. found # {} /\ Max(found) \in DOMAIN lines
        BY <3>1, <3>2, <1>3, LastPlace
      <3>4. lines[Max(found)].owner \in {Nil} \cup STRING /\ lines[Max(found)].owner # Nil
        <4>1. lines[Max(found)] \in Lines /\ lines[Max(found)].owner # Nil
          BY <3>3 DEF OwnedLines
        <4> QED BY <4>1 DEF Lines
      <3> HIDE DEF line
      <3> QED BY <3>1, <3>3, <3>4
    <2> HIDE DEF line
    <2> QED BY <2>1, <2>2, <1>3 DEF Named
  <1>4. CASE o \in UntaggedOwners(f) /\ line = Nil /\ tied # {}
    <2>1. UntaggedOwners(f) = [name : tied, via : {"fallback"}]
      BY <1>4 DEF UntaggedOwners
    <2>2. tied \subseteq STRING
      <3>1. \A p \in setup.fallback : p.owner \in STRING
        BY SetupsAssumption
      <3> QED BY <3>1 DEF MatchFallback
    <2> HIDE DEF tied
    <2>3. PICK name \in tied : o = [name |-> name, via |-> "fallback"]
      BY <2>1, <1>4
    <2>4. name \in STRING
      BY <2>2
    <2> QED BY <2>3, <2>4 DEF Named
  <1>5. CASE o \in UntaggedOwners(f) /\ line = Nil /\ tied = {}
    <2>1. o = [name |-> setup.default, via |-> "default"] \/ o = Unowned
      BY <1>5 DEF UntaggedOwners
    <2>2. setup.default \in STRING
      BY SetupsAssumption
    <2> QED BY <2>1, <2>2 DEF Named, Unowned
  <1> QED BY <1>1, <1>2, <1>3, <1>4, <1>5

\* What is said of the owners of a group.
LEMMA AddressedRight ==
  ASSUME OwnerInv
  PROVE  AddressedToItsOwner
  <1>1. /\ OwnedLines /\ OwnersResolved /\ GroupOwnerIs
        /\ owners # <<>> => setup \in Setups /\ members \in Groups
    BY DEF OwnerInv
  <1>2. ASSUME NEW i \in DOMAIN owners
        PROVE  setup \in Setups /\ members[i] \in Findings /\ owners[i] \in Resolve(members[i])
    <2>1. owners # <<>> /\ Len(owners) \in Nat /\ i \in 1..Len(owners) /\ Len(owners) <= Len(members)
      BY <1>1, <1>2 DEF OwnersResolved
    <2>2. members \in Seq(Findings) /\ setup \in Setups
      BY <2>1, <1>1, GroupFacts
    <2>3. Len(members) \in Nat /\ i \in 1..Len(members)
      BY <2>1, <2>2
    <2> QED BY <2>2, <2>3, <1>1, <1>2 DEF OwnersResolved
  <1>3. ASSUME NEW i \in DOMAIN owners, owners[i].via \in {"default", "none"}
        PROVE  LET f == members[i] IN
               /\ MatchFallback(f.address) = {}
               /\ \A t \in f.tags : t.key \in ToSet(setup.tagKeys) =>
                     t.text = Unnamed \/ \E u \in f.tags : u.key = t.key /\ u.text = Unnamed
               /\ f.address.key # "dotted" => Covering(f) = {}
    <2> DEFINE f == members[i]
    <2>1. f \in Findings /\ owners[i] \in Resolve(f)
      BY <1>2
    <2> HIDE DEF f
    <2>2. owners[i] \notin TagOwners(f)
      <3>1. owners[i].via # "tag"
        BY <1>3
      <3> QED BY <3>1, TagOwnerIs
    <2>3. owners[i] \in UntaggedOwners(f) /\ AllSkipped(f)
      BY <2>1, <2>2 DEF Resolve, AllSkipped
    <2>4. MatchCodeowners(ModulePath(f.address)) = Nil /\ MatchFallback(f.address) = {}
      BY <2>3, <1>3, UntaggedFacts
    <2>5. ASSUME NEW t \in f.tags, t.key \in ToSet(setup.tagKeys)
          PROVE  \E u \in f.tags : u.key = t.key /\ u.text = Unnamed
      <3>1. Skipped(f, t.key)
        BY <2>3, <2>5 DEF AllSkipped, ToSet
      <3>2. TagValues(f, t.key) # {}
        BY <2>1, <2>5, TagValuesFacts
      <3>3. Unnamed \in TagValues(f, t.key)
        BY <3>1, <3>2 DEF Skipped
      <3> QED BY <3>3, <2>1, TagValuesFacts
    <2>6. f.address.key # "dotted" => Covering(f) = {}
      BY <2>1, <2>4, <1>1, LineFacts DEF OwnedLines
    <2> QED BY <2>4, <2>5, <2>6 DEF f
  <1>4. ASSUME NEW i \in DOMAIN owners, owners[i].via = "codeowners",
               members[i].address.key # "dotted"
        PROVE  \E l \in Covering(members[i]) :
                  lines[l].owner = owners[i].name /\ \A m \in Covering(members[i]) : m <= l
    <2> DEFINE f == members[i]
    <2>1. f \in Findings /\ owners[i] \in Resolve(f) /\ f.address.key # "dotted"
      BY <1>2, <1>4
    <2> HIDE DEF f
    <2>2. owners[i] \in UntaggedOwners(f)
      <3>1. owners[i].via # "tag"
        BY <1>4
      <3> QED BY <3>1, <2>1, TagOwnerIs DEF Resolve
    <2>3. /\ owners[i].name = MatchCodeowners(ModulePath(f.address))
          /\ MatchCodeowners(ModulePath(f.address)) # Nil
      BY <2>2, <1>4, UntaggedFacts
    <2>4. \E l \in Covering(f) : /\ lines[l].owner = MatchCodeowners(ModulePath(f.address))
                                 /\ \A m \in Covering(f) : m <= l
      BY <2>1, <2>3, <1>1, LineFacts DEF OwnedLines
    <2> QED BY <2>3, <2>4 DEF f
  <1>5. ASSUME NEW i \in DOMAIN owners, NEW j \in DOMAIN owners, members[j] = members[i],
               owners[i].name # owners[j].name
        PROVE  \/ Cardinality(MatchFallback(members[i].address)) > 1
               \/ \E t, u \in members[i].tags : t.key = u.key /\ t.map = u.map /\ t # u
    <2> DEFINE f == members[i]
    <2>1. f \in Findings /\ setup \in Setups /\ owners[i] \in Resolve(f) /\ owners[j] \in Resolve(f)
      BY <1>2, <1>5
    <2> HIDE DEF f
    <2>2. Cardinality(MatchFallback(f.address)) > 1 \/ TwoSpellings(f)
      BY <2>1, <1>5, ResolveDiffers
    <2> QED BY <2>2 DEF f, TwoSpellings
  <1>6. ASSUME NEW i \in DOMAIN owners, groupOwner # Nil
        PROVE  groupOwner.name = Unnamed \/ owners[i].name = groupOwner.name
    BY <1>1, <1>6 DEF GroupOwnerIs, Unowned
  <1>7. ASSUME groupOwner = Unowned
        PROVE  owners[1].name = Unnamed \/ \E i \in DOMAIN owners : owners[i].name # owners[1].name
    <2>1. Unowned # Nil /\ Unowned.name = Unnamed
      BY NobodyAssumption DEF Unowned
    <2> QED BY <1>1, <1>7, <2>1 DEF GroupOwnerIs
  <1> QED BY <1>3, <1>4, <1>5, <1>6, <1>7 DEF AddressedToItsOwner

LEMMA OwnerInitHolds ==
  ASSUME OwnerInit
  PROVE  OwnerInv
  <1>1. /\ notifyStep = "idle" /\ lines = <<>> /\ members = <<>> /\ owners = <<>>
        /\ groupOwner = Nil /\ reply = Nil
    BY DEF OwnerInit
  <1>2. OwnedLines /\ OwnersResolved /\ GroupOwnerIs /\ SendIsHonest
    BY <1>1 DEF OwnedLines, OwnersResolved, GroupOwnerIs, SendIsHonest
  <1> QED BY <1>1, <1>2 DEF OwnerInv

LEMMA StartNotifyHolds ==
  ASSUME OwnerInv, StartNotify
  PROVE  OwnerInv'
  <1>1. /\ notifyStep = "idle" /\ notifyStep' = "loading" /\ setup' \in Setups /\ members' \in Groups
        /\ lines' = lines /\ owners' = <<>> /\ groupOwner' = Nil /\ reply' = Nil
        /\ OwnedLines
    BY DEF OwnerInv, StartNotify
  <1>2. Len(members') \in Nat
    BY <1>1, GroupFacts
  <1>3. OwnedLines' /\ OwnersResolved' /\ GroupOwnerIs' /\ SendIsHonest'
    BY <1>1, <1>2 DEF OwnedLines, OwnersResolved, GroupOwnerIs, SendIsHonest
  <1> QED BY <1>1, <1>3 DEF OwnerInv

LEMMA NewResolverHolds ==
  ASSUME OwnerInv, NewResolver
  PROVE  OwnerInv'
  <1>1. /\ notifyStep = "loading" /\ setup' = setup /\ members' = members
        /\ owners' = <<>> /\ owners = <<>> /\ groupOwner' = Nil /\ groupOwner = Nil
        /\ reply' = Nil /\ OwnedLines /\ setup \in Setups /\ members \in Groups
    BY DEF OwnerInv, NewResolver
  <1>2. Len(members) \in Nat
    BY <1>1, GroupFacts
  <1>3. OwnersResolved' /\ GroupOwnerIs'
    BY <1>1, <1>2 DEF OwnersResolved, GroupOwnerIs
  <1>4. CASE setup.codeowners = Nil
    <2>1. notifyStep' = "over" /\ notifyExit' = 4 /\ lines' = lines
      BY <1>4 DEF NewResolver
    <2>2. OwnedLines' /\ SendIsHonest'
      BY <1>1, <2>1 DEF OwnedLines, SendIsHonest
    <2> QED BY <1>1, <1>3, <2>1, <2>2 DEF OwnerInv
  <1>5. CASE setup.codeowners # Nil
    <2> DEFINE file == setup.codeowners
               P == {l \in DOMAIN file : file[l].owner # Nil}
    <2>1. notifyStep' = "resolving" /\ lines' = Kept(file, P)
      BY <1>5 DEF NewResolver
    <2>2. file \in Seq(Lines) /\ P \in SUBSET DOMAIN file /\ \A l \in P : file[l].owner # Nil
      BY <1>1, <1>5, SetupsAssumption DEF Lines
    <2> HIDE DEF file, P
    <2>3. /\ Kept(file, P) \in Seq(Lines)
          /\ \A k \in DOMAIN Kept(file, P) :
                Ascending(P)[k] \in P /\ Kept(file, P)[k] = file[Ascending(P)[k]]
      BY <2>2, KeptFacts
    <2>4. \A k \in DOMAIN lines' : lines'[k].owner # Nil
      BY <2>1, <2>2, <2>3
    <2>5. OwnedLines' /\ SendIsHonest'
      BY <2>1, <2>3, <2>4 DEF OwnedLines, SendIsHonest
    <2> QED BY <1>1, <1>3, <2>1, <2>5 DEF OwnerInv
  <1> QED BY <1>4, <1>5

LEMMA RouteHolds ==
  ASSUME OwnerInv, Route
  PROVE  OwnerInv'
  <1> DEFINE n == Len(owners)
  <1>1. /\ notifyStep = "resolving" /\ notifyStep' = "resolving" /\ setup' = setup
        /\ members' = members /\ lines' = lines /\ groupOwner' = Nil /\ reply' = Nil
        /\ setup \in Setups /\ members \in Groups /\ OwnedLines /\ OwnersResolved
        /\ n < Len(members)
    BY DEF OwnerInv, Route
  <1>2. PICK o \in Resolve(members[n + 1]) : owners' = Append(owners, o)
    BY DEF Route
  <1>3. members \in Seq(Findings) /\ Len(members) \in Nat
    BY <1>1, GroupFacts
  <1>4. owners \in Seq(Named) /\ n \in Nat /\ DOMAIN owners = 1..n
    BY <1>1 DEF OwnersResolved
  <1>5. members[n + 1] \in Findings
    BY <1>1, <1>3, <1>4
  <1>6. o \in Named
    BY <1>1, <1>5, ResolveTypes
  <1>7. /\ owners' \in Seq(Named) /\ Len(owners') = n + 1 /\ DOMAIN owners' = 1..(n + 1)
        /\ \A i \in 1..n : owners'[i] = owners[i]
        /\ owners'[n + 1] = o
    BY <1>2, <1>4, <1>6
  <1> HIDE DEF n
  <1>8. \A i : Resolve(members[i])' = Resolve(members[i])
    BY <1>1, ResolveStays
  <1>9. ASSUME NEW i \in 1..(n + 1) PROVE owners'[i] \in Resolve(members[i])
    <2>1. CASE i = n + 1
      BY <2>1, <1>2, <1>7
    <2>2. CASE i # n + 1
      <3>1. i \in 1..n
        BY <2>2, <1>4
      <3> QED BY <3>1, <1>1, <1>4, <1>7 DEF OwnersResolved
    <2> QED BY <2>1, <2>2
  <1>10. Len(owners') <= Len(members')
    BY <1>1, <1>3, <1>4, <1>7
  <1>11. \A i \in DOMAIN owners' : owners'[i] \in Resolve(members[i])'
    BY <1>7, <1>8, <1>9
  <1>12. OwnersResolved'
    BY <1>7, <1>10, <1>11 DEF OwnersResolved
  <1>13. OwnedLines' /\ GroupOwnerIs' /\ SendIsHonest'
    BY <1>1 DEF OwnedLines, GroupOwnerIs, SendIsHonest
  <1> QED BY <1>1, <1>12, <1>13 DEF OwnerInv

LEMMA GroupDecisionsHolds ==
  ASSUME OwnerInv, GroupDecisions
  PROVE  OwnerInv'
  <1>1. /\ notifyStep = "resolving" /\ notifyStep' = "grouped" /\ setup' = setup
        /\ members' = members /\ lines' = lines /\ owners' = owners /\ reply' = Nil
        /\ setup \in Setups /\ members \in Groups /\ OwnedLines /\ OwnersResolved
    BY DEF OwnerInv, GroupDecisions
  <1>2. GroupOwnerIs'
    BY <1>1 DEF GroupDecisions, GroupOwnerIs
  <1>3. OwnersResolved'
    BY <1>1, ResolveStays DEF OwnersResolved
  <1>4. OwnedLines' /\ SendIsHonest'
    BY <1>1 DEF OwnedLines, SendIsHonest
  <1> QED BY <1>1, <1>2, <1>3, <1>4 DEF OwnerInv

\* The owners and what they come from are as they were.
LEMMA SamePeople ==
  ASSUME OwnerInv, UNCHANGED <<setup, lines, members, owners, groupOwner>>
  PROVE  OwnedLines' /\ OwnersResolved' /\ GroupOwnerIs'
  <1>1. OwnedLines /\ OwnersResolved /\ GroupOwnerIs
    BY DEF OwnerInv
  <1>2. OwnersResolved'
    BY <1>1, ResolveStays DEF OwnersResolved
  <1> QED BY <1>1, <1>2 DEF OwnedLines, GroupOwnerIs

LEMMA BuildSinkHolds ==
  ASSUME OwnerInv, BuildSink
  PROVE  OwnerInv'
  <1>1. /\ notifyStep = "grouped" /\ reply' = Nil
        /\ UNCHANGED <<setup, lines, members, owners, groupOwner>>
        /\ setup \in Setups /\ members \in Groups
    BY DEF OwnerInv, BuildSink
  <1>2. OwnedLines' /\ OwnersResolved' /\ GroupOwnerIs'
    BY <1>1, SamePeople
  <1>3. setup.sink \in {"none", "stdout", "slack", "webhook", "github", "incomplete", "teams", "unknown"}
    BY <1>1, SetupsAssumption
  <1>4. Nil \notin Nat
    BY NobodyAssumption
  <1>5. CASE setup.sink \in {"stdout", "slack", "webhook", "github"}
    <2>1. notifyStep' = "sending"
      BY <1>5 DEF BuildSink
    <2>2. SendIsHonest'
      BY <2>1 DEF SendIsHonest
    <2> QED BY <1>1, <1>2, <1>5, <2>1, <2>2 DEF OwnerInv
  <1>6. CASE setup.sink \in {"none", "incomplete", "teams", "unknown"}
    <2>1. /\ notifyStep' = "over"
          /\ notifyExit' = 0 => setup.sink = "none"
      BY <1>4, <1>6 DEF BuildSink
    <2>2. SendIsHonest'
      BY <1>1, <2>1 DEF SendIsHonest
    <2> QED BY <1>1, <1>2, <2>1, <2>2 DEF OwnerInv
  <1> QED BY <1>3, <1>5, <1>6

\* An answer that is whole says what became of the message.
LEMMA RepliesAreHonest ==
  ASSUME setup.sink \in {"stdout", "slack", "webhook", "github"},
         NEW r \in Replies(TRUE) \cup Replies(FALSE)
  PROVE  /\ Sent(r) => r.taken
         /\ ~Sent(r) /\ r.taken => ~r.come \/ (setup.sink = "slack" /\ r.ok = Nil)
  <1> DEFINE answer(taken, come, status, ok) ==
                [taken |-> taken, come |-> come, status |-> status, ok |-> ok]
  <1>1. Nil # TRUE
    BY NobodyAssumption
  <1>2. PICK t \in BOOLEAN : r \in Replies(t)
    OBVIOUS
  <1>3. CASE r = answer(t, FALSE, 0, Nil)
    BY <1>3, <1>1 DEF Sent, SlackTook, WebhookTook, GitHubTook
  <1>4. CASE setup.sink = "slack" /\ r \in {answer(t, TRUE, 200, t), answer(t, TRUE, 200, Nil)}
    <2>1. Sent(r) <=> (r.come /\ r.ok = TRUE)
      BY <1>4 DEF Sent, SlackTook
    <2>2. r.taken = t /\ r.come = TRUE /\ (r.ok = t \/ r.ok = Nil)
      BY <1>4
    <2>3. CASE r.ok = t
      BY <2>1, <2>2, <2>3
    <2>4. CASE r.ok = Nil
      BY <2>1, <2>4, <1>1, <1>4
    <2> QED BY <2>2, <2>3, <2>4
  <1>5. CASE setup.sink = "stdout" /\ r = answer(t, t, 0, Nil)
    BY <1>5 DEF Sent
  <1>6. CASE setup.sink \in {"webhook", "github"} /\ r = answer(t, TRUE, IF t THEN 200 ELSE 500, Nil)
    <2>1. Sent(r) <=> (r.come /\ r.status \in 200..299)
      <3>1. CASE setup.sink = "webhook"
        BY <3>1 DEF Sent, WebhookTook
      <3>2. CASE setup.sink = "github"
        BY <3>2 DEF Sent, GitHubTook
      <3> QED BY <3>1, <3>2, <1>6
    <2>2. CASE t = TRUE
      <3>1. r.taken = TRUE /\ r.come = TRUE /\ r.status = 200
        BY <1>6, <2>2
      <3> QED BY <2>1, <3>1
    <2>3. CASE t = FALSE
      <3>1. r.taken = FALSE /\ r.status = 500
        BY <1>6, <2>3
      <3>2. 500 \notin 200..299
        OBVIOUS
      <3> QED BY <2>1, <3>1, <3>2
    <2> QED BY <2>2, <2>3
  <1> QED BY <1>2, <1>3, <1>4, <1>5, <1>6 DEF Replies

LEMMA SendHolds ==
  ASSUME OwnerInv, Send
  PROVE  OwnerInv'
  <1>1. /\ notifyStep = "sending" /\ notifyStep' = "over"
        /\ UNCHANGED <<setup, lines, members, owners, groupOwner>>
        /\ setup \in Setups /\ members \in Groups
        /\ setup.sink \in {"stdout", "slack", "webhook", "github"}
    BY DEF OwnerInv, Send
  <1>2. OwnedLines' /\ OwnersResolved' /\ GroupOwnerIs'
    BY <1>1, SamePeople
  <1>3. /\ reply' \in Replies(TRUE) \cup Replies(FALSE)
        /\ notifyExit' = IF Sent(reply') THEN 0 ELSE 5
    BY DEF Send
  <1>4. /\ Sent(reply') => reply'.taken
        /\ ~Sent(reply') /\ reply'.taken => ~reply'.come \/ (setup.sink = "slack" /\ reply'.ok = Nil)
    BY <1>1, <1>3, RepliesAreHonest
  <1>5. SendIsHonest'
    BY <1>1, <1>3, <1>4 DEF SendIsHonest
  <1> QED BY <1>1, <1>2, <1>5 DEF OwnerInv

LEMMA OwnerStep ==
  ASSUME OwnerInv, [OwnerNext]_ownerVars
  PROVE  OwnerInv'
  <1>1. CASE StartNotify
    BY <1>1, StartNotifyHolds
  <1>2. CASE NewResolver
    BY <1>2, NewResolverHolds
  <1>3. CASE Route
    BY <1>3, RouteHolds
  <1>4. CASE GroupDecisions
    BY <1>4, GroupDecisionsHolds
  <1>5. CASE BuildSink
    BY <1>5, BuildSinkHolds
  <1>6. CASE Send
    BY <1>6, SendHolds
  <1>7. CASE UNCHANGED ownerVars
    <2>1. /\ UNCHANGED <<setup, lines, members, owners, groupOwner>>
          /\ notifyStep' = notifyStep /\ reply' = reply /\ notifyExit' = notifyExit
      BY <1>7 DEF ownerVars
    <2>2. OwnedLines' /\ OwnersResolved' /\ GroupOwnerIs'
      BY <2>1, SamePeople
    <2>3. SendIsHonest'
      BY <2>1 DEF OwnerInv, SendIsHonest
    <2> QED BY <2>1, <2>2, <2>3 DEF OwnerInv
  <1> QED BY <1>1, <1>2, <1>3, <1>4, <1>5, <1>6, <1>7 DEF OwnerNext

\* For any setup and any group of findings: the owner of a message is that of its
\* findings, and a run that ends well has sent it (notify/ownership.go:223-229,
\* cli/notify.go:303).
THEOREM RightPeopleAlwaysHear == OwnerSpec => []TheRightPeopleHear
  <1>1. OwnerInit => OwnerInv
    BY OwnerInitHolds
  <1>2. OwnerInv /\ [OwnerNext]_ownerVars => OwnerInv'
    BY OwnerStep
  <1>3. OwnerInv => TheRightPeopleHear
    BY AddressedRight DEF TheRightPeopleHear, OwnerInv
  <1> QED BY <1>1, <1>2, <1>3, PTL DEF OwnerSpec
=============================================================================
