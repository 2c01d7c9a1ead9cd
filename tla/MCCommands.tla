------------------------------ MODULE MCCommands -------------------------------
(***************************************************************************)
(* The commands over the files of a working directory: a behaviour is of   *)
(* one of them, of which there may be several runs at once, and the others *)
(* stay as they start. "notify" is of one run's routing, and "ledger" of   *)
(* several runs on one ledger file.                                        *)
(***************************************************************************)
EXTENDS DriftScan, RiskAssess, PlanAnalysis, Doctor, IgnoreFile, Ownership, LedgerFile, TLC

CONSTANTS c1, c2, c3, r1, r2, r3, r4, scheduled, manual

Interchangeable == Permutations({scheduled, manual})

VARIABLE command

commandVars == <<command, scanVars, riskVars, planVars, doctorVars, ignoreVars, ownerVars, vars>>

\* A scan that has not been asked for.
NoScan ==
    /\ state = <<>> /\ live = <<>> /\ rules = <<>> /\ flags = Nil
    /\ phase = "parked" /\ findings = {} /\ suppressed = {}
    /\ said = Silence /\ exit = Nil

\* A scan: a bucket whose attributes may differ in every way, at the top and in a
\* nested object, a table that may be gone, and a queue that is not in the state,
\* under sets of rules.
bucket == <<"bucket", "assets">>
table  == <<"table", "orders">>
queue  == <<"queue", "jobs">>

MCWeightOf ==
    [acl |-> "critical", size |-> "high", tags |-> "other", env |-> "other",
     backup |-> "medium", etag |-> "other"]

Scalar(v) == [kind |-> "scalar", value |-> v]
Object(f) == [kind |-> "object", value |-> f]

Nothing == [k \in {} |-> Null]

\* The objects with these keys, some of them left out.
With(domain, values) == UNION {[d -> values] : d \in SUBSET domain}

\* What the state knows: a scalar, a null, and an object with an ignored key.
Recorded ==
    [acl |-> Scalar(1), size |-> Null,
     tags |-> Object([env |-> Scalar(1), backup |-> Scalar(1), etag |-> Scalar(1)])]

Tags == {Null, Scalar(1)} \cup
        {Object([t EXCEPT !.etag = Scalar(2)] @@ Nothing) :
            t \in {u @@ [etag |-> Scalar(1)] : u \in With({"env", "backup"}, {Scalar(1), Scalar(2)})}}

Observed ==
    UNION {{acl @@ size @@ tags : tags \in With({"tags"}, Tags)} :
        acl \in With({"acl"}, {Scalar(1), Scalar(2)}),
        size \in With({"size"}, {Scalar(2)})}

MCStates == {(bucket :> Recorded) @@ (table :> [acl |-> Scalar(1)])}

MCSnapshots ==
    {o @@ t @@ q : o \in [{bucket} -> Observed],
                   t \in With({table}, {[acl |-> Scalar(1)]}),
                   q \in With({queue}, {[acl |-> Scalar(1)]})}

MCObjects ==
    LET whole == {Recorded, [acl |-> Scalar(1)]} \cup Observed IN
    whole \cup {o.tags.value : o \in {p \in whole : "tags" \in DOMAIN p /\ p.tags.kind = "object"}}

MCNesting == [o \in MCObjects |-> IF \E key \in DOMAIN o : o[key].kind = "object" THEN 2 ELSE 1]

Pattern(stem, wild) == [stem |-> stem, wild |-> wild]
Rule(address, attributes, expires) ==
    [address |-> address, attributes |-> attributes, expires |-> expires]

\* Every subset of four rules, in one order.
MCRuleFiles ==
    LET all ==
        <<Rule(Pattern(<<"bucket">>, TRUE), {Pattern(<<"tags">>, TRUE)}, Nil),
          Rule(Pattern(bucket, FALSE),
               {Pattern(<<"acl">>, FALSE), Pattern(<<"tags", "env">>, FALSE)}, Nil),
          Rule(Pattern(<<>>, TRUE), {Pattern(<<"acl">>, FALSE)}, Nil),
          Rule(Pattern(table, FALSE), {}, 1)>>
    IN  {SelectSeq(all, LAMBDA r : r \in kept) : kept \in SUBSET ToSet(all)}

Scanning(min, fail, unmanaged, output) ==
    [command |-> "scan", minSeverity |-> min, failAt |-> fail, unmanaged |-> unmanaged,
     today |-> 1, output |-> output]

\* Scans, and a run of notify a day later, which has no flags of its own for
\* what a scan takes as flags: unmanaged resources are reported by default.
MCInvocations ==
    {Scanning(1, 2, TRUE, "people"), Scanning(3, 2, TRUE, "people"), Scanning(3, Nil, TRUE, "whole"),
     Scanning(1, 1, FALSE, "findings"),
     [Scanning(1, Nil, TRUE, "people") EXCEPT !.command = "notify", !.today = 2]}

\* A risk report.
Resource(address, supports, attrs, tags) ==
    [address |-> address, supports |-> supports, attrs |-> attrs, tags |-> tags]

AllTags == {"tags"} \X {"environment", "owner", "cost_center"}
AllSupported == {"encrypts", "zones", "backs_up"}

\* A database with nothing wrong and one with everything, a subnet, which has a
\* zone and no more, and ways in between.
MCResources(a) ==
    {Resource(a, AllSupported, {"encrypt", "zone", "multi_az", "retention_0"}, AllTags),
     Resource(a, AllSupported, {"public", "zone", "retention_0", "large"}, {}),
     Resource(a, {}, {"zone"}, AllTags),
     Resource(a, {"encrypts"}, {"public_acl", "kms_key"}, {<<"labels", "owner">>}),
     Resource(a, {"zones"}, {"open_cidr", "zone"}, {"tags_all"} \X {"owner"}),
     Resource(a, {"encrypts", "backs_up"}, {"large", "retention_0.0"}, {<<"resource_tags", "environment">>}),
     Resource(a, {"encrypts"}, {"large"}, {<<"tags", "environment">>})}

MCRiskStates ==
    {<<>>} \cup {<<r>> : r \in MCResources(1)}
    \cup {<<r, s>> : r \in MCResources(1), s \in MCResources(2)}
    \cup {<<r, s, t>> : r \in MCResources(2), s \in MCResources(3), t \in MCResources(1)}

MCRiskFlags == [minLevel : {1, 3}, failLevel : {Nil, 2, 3}, top : {0, 1}]

MCChanges ==
    [mode : {"managed"}, actions : ActionLists, stateful : BOOLEAN]
    \cup [mode : {"data"}, actions : {<<"read">>}, stateful : {FALSE}]

MCPlans == {<<>>} \cup {<<c>> : c \in MCChanges} \cup {<<c, d>> : c, d \in MCChanges}

MCPlanFlags ==
    [failOn : {"none", "any", "destructive", "delete"}, maxDeletes : {Nil}, details : BOOLEAN]
    \cup [failOn : {"none", "destructive"}, maxDeletes : {0, 1}, details : {FALSE}]

Shot(at, resources) ==
    LET s == [by |-> Nil, at |-> at, resources |-> resources] IN [head |-> s, tail |-> s]

MCFiles == {Nil, Empty, Shot(Nil, TRUE), Shot(Nil, FALSE), Shot(0, TRUE), Shot(2, TRUE)}

\* One input at a time is not as it should be.
FineWorld ==
    [terraform |-> TRUE, config |-> "none", rules |-> "good", state |-> "good",
     given |-> {"state", "live"}, noIgnore |-> FALSE]

MCWorlds ==
    LET fine == FineWorld
    IN  {fine, [fine EXCEPT !.terraform = FALSE]}
        \cup {[fine EXCEPT !.config = c] : c \in {"good", "broken", "no profile", "misfit"}}
        \cup {[fine EXCEPT !.rules = r] : r \in {"none", "expired", "invalid"}}
        \cup {[fine EXCEPT !.rules = "invalid", !.noIgnore = TRUE]}
        \cup {[fine EXCEPT !.state = s] : s \in {"none", "directory", "broken", "empty"}}
        \cup {[fine EXCEPT !.given = {}, !.state = s] : s \in {"none", "good"}}

RuleOf(key, expires) == [key |-> key, reason |-> TRUE, expires |-> expires]

\* Two that are as they should be, and `ignore add ""`.
MCNewRule == (c1 :> RuleOf(r1, "dated")) @@ (c2 :> RuleOf(r2, "never")) @@ (c3 :> RuleOf(r4, "never"))

MCRulesBefore ==
    {Nil, Blank, Garbled}
    \cup [parses : {TRUE}, version : {0, 1, 2}, rules : {<<RuleOf(r3, "dated")>>}]
    \cup [parses : {TRUE}, version : {1},
          rules : {<<RuleOf(r3, "dated"), RuleOf(r1, "dated")>>, <<RuleOf(r3, "bad")>>,
                   <<RuleOf(r3, "dated"), RuleOf(r3, "never")>>,
                   <<[RuleOf(r3, "never") EXCEPT !.reason = FALSE]>>}]

Tag(map, key, text) == [map |-> map, key |-> key, text |-> text]

At3(module, key) == [module |-> module, type |-> "subnet", name |-> "private", key |-> key]

\* Two modules whose names share a part, the root, keys with and without a dot.
MCAddresses ==
    {At3(<<"vpc">>, "none"), At3(<<"app", "vpc_old">>, "none"), At3(<<"vpc">>, "dotted"), At3(<<>>, "none")}

MCTags ==
    {{}, {Tag(1, "team", "ann")}, {Tag(1, "owner", ""), Tag(1, "team", "ann")},
     {Tag(1, "owner", "ann"), Tag(2, "owner", "bob")},
     {Tag(1, "owner", "ann"), Tag(1, "owner", "bob")},
     {Tag(1, "owner", "ann"), Tag(1, "owner", "")}}

MCMembers(tags) == [address : MCAddresses, tags : tags]

MCGroups ==
    LET any == MCMembers(MCTags) IN
    {<<f>> : f \in any} \cup {<<f, f>> : f \in any}
    \cup {<<f, g>> : f \in any, g \in MCMembers({{}, {Tag(1, "team", "ann")}})}

MCOccurs == {<<"vpc", "vpc">>, <<"vpc", "vpc_old">>, <<"app", "app">>, <<"subnet", "subnet">>}

MCLine(pattern, owner) == [pattern |-> pattern, owner |-> owner]

MCPrefix(stem, wild, owner) == [stem |-> stem, wild |-> wild, owner |-> owner]

MCSetup(codeowners, fallback, default, sink) ==
    [tagKeys |-> <<"owner", "team">>, codeowners |-> codeowners, fallback |-> fallback,
     default |-> default, sink |-> sink]

MCCodeowners ==
    {<<>>, <<MCLine("*", "bob"), MCLine("vpc", "eve"), MCLine("app", Nil)>>,
     <<MCLine("vpc", "eve"), MCLine("app", "bob"), MCLine("subnet", "dan")>>}

\* None, one, and one that ties with another.
MCFallbacks ==
    LET private == <<"subnet", "private">> IN
    {{}, {MCPrefix(private, FALSE, "eve")},
     {MCPrefix(<<"module", "vpc">>, TRUE, "eve"), MCPrefix(<<>>, TRUE, "bob"),
      MCPrefix(private, TRUE, "dan"), MCPrefix(private, FALSE, "ann")}}

MCSetups ==
    {MCSetup(c, f, d, "none") : c \in MCCodeowners, f \in MCFallbacks, d \in {"", "bob"}}
    \cup {MCSetup(Nil, {}, "", "slack")}
    \cup {MCSetup(<<>>, {}, "", k) :
              k \in {"stdout", "slack", "webhook", "github", "incomplete", "teams", "unknown"}}

MCInit ==
    /\ command \in {"drift scan", "risk", "plan", "doctor", "snapshot", "ignore", "notify", "ledger"}
    /\ IgnoreInit
    /\ command # "ignore" => rulesFile = Nil
    /\ DoctorInit
    /\ command # "doctor" => world = FineWorld
    /\ command \notin {"doctor", "snapshot"} => liveFile = Nil
    /\ RiskInit /\ PlanInit /\ OwnerInit /\ Init
    /\ IF command = "drift scan" THEN ScanInit ELSE NoScan

Scan ==
    /\ command = "drift scan" /\ ScanNext
    /\ UNCHANGED <<command, riskVars, planVars, doctorVars, ignoreVars, ownerVars, vars>>

Risk ==
    /\ command = "risk" /\ RiskNext
    /\ UNCHANGED <<command, scanVars, planVars, doctorVars, ignoreVars, ownerVars, vars>>

Plan ==
    /\ command = "plan" /\ PlanNext
    /\ UNCHANGED <<command, scanVars, riskVars, doctorVars, ignoreVars, ownerVars, vars>>

\* One capture in any world and at any time, or two at once.
Prepare ==
    /\ \/ command = "doctor" /\ DoctorNext /\ capture'[c2] = Idle /\ temps' = {}
       \/ command = "snapshot" /\ DoctorNext /\ clock' = 0 /\ c2 \notin temps'
    /\ UNCHANGED <<command, scanVars, riskVars, planVars, ignoreVars, ownerVars, vars>>

\* Two adds, of which one may be of the rule without an address.
Ignore ==
    /\ command = "ignore" /\ IgnoreNext /\ "idle" \in {add'[c2].phase, add'[c3].phase}
    /\ UNCHANGED <<command, scanVars, riskVars, planVars, doctorVars, ownerVars, vars>>

Notify ==
    /\ command = "notify" /\ OwnerNext
    /\ UNCHANGED <<command, scanVars, riskVars, planVars, doctorVars, ignoreVars, vars>>

Record ==
    /\ command = "ledger" /\ Next
    /\ UNCHANGED <<command, scanVars, riskVars, planVars, doctorVars, ignoreVars, ownerVars>>

MCNext == Scan \/ Risk \/ Plan \/ Prepare \/ Ignore \/ Notify \/ Record

MCSpec == MCInit /\ [][MCNext]_commandVars
=============================================================================
