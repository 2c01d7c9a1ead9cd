------------------------------- MODULE Ownership -------------------------------
(***************************************************************************)
(* Who is told, and whether they were: notify/ownership.go, the owner of a *)
(* group in notify/router.go, and the sinks a run delivers to, here one    *)
(* group of findings of one run. NotifyRun has the runs and their ledger.  *)
(* An address is [module, type, name, key]; a tag of the state is          *)
(* [map, key, text], where map is the place of its attribute among tags,  *)
(* labels and resource_tags, and key is its name in lower case.            *)
(***************************************************************************)
EXTENDS Tables, Sequences, SequencesExt, FiniteSetsExt, Nothing

CONSTANTS
    Setups,     \* [tagKeys, codeowners, fallback, default, sink]
    Groups,     \* sequences of [address, tags]: the findings of a group
    Occurs      \* <<pattern, segment>>: what is a part of what, as text

\* A group has a finding, whose tags are in the three attributes extractTags reads.
ASSUME GroupsAssumption ==
    \A g \in Groups :
        /\ g # <<>>
        /\ g \in Seq([address : [module : Seq(STRING), type : STRING, name : STRING, key : STRING],
                      tags : SUBSET [map : 1..3, key : STRING, text : STRING]])

\* What a command line can ask for. The fallback map is finite.
ASSUME SetupsAssumption ==
    \A s \in Setups :
        /\ s.tagKeys \in Seq(STRING)
        /\ s.codeowners \in {Nil} \cup Seq([pattern : STRING, owner : {Nil} \cup STRING])
        /\ s.fallback \subseteq [stem : Seq(STRING), wild : BOOLEAN, owner : STRING]
        /\ IsFiniteSet(s.fallback) /\ s.default \in STRING
        /\ s.sink \in {"none", "stdout", "slack", "webhook", "github", "incomplete", "teams", "unknown"}

\* An empty text names nobody.
Unnamed == ""

Unowned == [name |-> Unnamed, via |-> "none"]

\* None of these is nothing.
ASSUME NobodyAssumption == Nil \notin Nat \cup BOOLEAN \cup STRING \cup {Unowned}

VARIABLES
    notifyStep, \* idle, resolving, grouped, sending, over
    setup,
    lines,      \* the CODEOWNERS lines that were read
    members,
    owners,     \* the owner of each member so far, [name, via]
    groupOwner,
    reply,      \* [taken, come, status, ok]: what became of the message
    notifyExit

ownerVars == <<notifyStep, setup, lines, members, owners, groupOwner, reply, notifyExit>>

OwnerInit ==
    /\ notifyStep = "idle" /\ setup = Nil /\ lines = <<>>
    /\ members = <<>> /\ owners = <<>> /\ groupOwner = Nil
    /\ reply = Nil /\ notifyExit = Nil

\* module.NAME of each module, from the outermost.
ModuleSegments(module) ==
    [i \in 1..(2 * Len(module)) |-> IF i % 2 = 1 THEN "module" ELSE module[i \div 2]]

\* strings.Split at the dots, of which a key may have some.
Segments(a) ==
    ModuleSegments(a.module)
    \o <<a.type, a.name>> \o IF a.key = "dotted" THEN <<"rest">> ELSE <<>>

\* Everything before the last two segments, in a module.
ModulePath(a) ==
    LET parts == Segments(a)
    IN  IF a.module = <<>> \/ Len(parts) < 4 THEN <<>> ELSE SubSeq(parts, 1, Len(parts) - 2)

\* extractTags: a later map wins over an earlier one, and of two spellings of one
\* key in a map the one that is ranged over last.
TagValues(f, key) ==
    LET there == {t \in f.tags : t.key = key}
    IN  {t.text : t \in {u \in there : u.map = Max({v.map : v \in there})}}

\* A key that has no value, or an empty one, is passed over.
Skipped(f, key) == TagValues(f, key) = {} \/ Unnamed \in TagValues(f, key)

\* The values of the first key that has one.
TagOwners(f) ==
    UNION {[name : TagValues(f, setup.tagKeys[k]) \ {Unnamed}, via : {"tag"}] :
              k \in {i \in DOMAIN setup.tagKeys : \A j \in 1..(i - 1) : Skipped(f, setup.tagKeys[j])}}

\* Any part of the path will do; "*" and "/" are everything.
CodeownersMatch(pattern, path) ==
    pattern = "*" \/ \E i \in DOMAIN path : <<pattern, path[i]>> \in Occurs

\* Faulty variant: the first line that matches wins.
FirstCodeowner(path) ==
    LET found == {l \in DOMAIN lines : path # <<>> /\ CodeownersMatch(lines[l].pattern, path)}
    IN  IF found = {} THEN Nil ELSE lines[Min(found)].owner

\* The last line that matches, for a resource in a module.
MatchCodeowners(path) ==
    LET found == {l \in DOMAIN lines : path # <<>> /\ CodeownersMatch(lines[l].pattern, path)}
    IN  IF found = {} THEN Nil ELSE lines[Max(found)].owner

\* The longest pattern. A tie is a pattern and the same one with a star, and the
\* order of the map decides it. The command line has no fallback map yet.
MatchFallback(a) ==
    LET found == {p \in setup.fallback :
                     IF p.wild THEN IsPrefix(p.stem, Segments(a)) ELSE p.stem = Segments(a)}
    IN  {p.owner : p \in {q \in found : \A r \in found : Len(r.stem) <= Len(q.stem)}}

\* What is tried after the tags.
UntaggedOwners(f) ==
    LET line == MatchCodeowners(ModulePath(f.address))
    IN  IF line # Nil THEN {[name |-> line, via |-> "codeowners"]}
        ELSE IF MatchFallback(f.address) # {}
             THEN [name : MatchFallback(f.address), via : {"fallback"}]
        ELSE IF setup.default # Unnamed THEN {[name |-> setup.default, via |-> "default"]}
        ELSE {Unowned}

\* Resolve: tags, CODEOWNERS, the fallback map, the default, nobody.
Resolve(f) ==
    TagOwners(f) \cup
    {o \in UntaggedOwners(f) : \A k \in DOMAIN setup.tagKeys : Skipped(f, setup.tagKeys[k])}

StartNotify ==
    /\ notifyStep = "idle"
    /\ notifyStep' = "loading"
    /\ setup' \in Setups /\ members' \in Groups
    /\ UNCHANGED <<lines, owners, groupOwner, reply, notifyExit>>

\* A CODEOWNERS file that was asked for must be there; a line without an owner is
\* skipped.
NewResolver ==
    /\ notifyStep = "loading"
    /\ IF setup.codeowners = Nil
       THEN notifyStep' = "over" /\ notifyExit' = 4 /\ UNCHANGED lines
       ELSE /\ notifyStep' = "resolving"
            /\ lines' = Kept(setup.codeowners, {l \in DOMAIN setup.codeowners : setup.codeowners[l].owner # Nil})
            /\ UNCHANGED notifyExit
    /\ UNCHANGED <<setup, members, owners, groupOwner, reply>>

Route ==
    /\ notifyStep = "resolving" /\ Len(owners) < Len(members)
    /\ \E o \in Resolve(members[Len(owners) + 1]) : owners' = Append(owners, o)
    /\ UNCHANGED <<notifyStep, setup, lines, members, groupOwner, reply, notifyExit>>

\* The group has an owner when all members have the same.
GroupDecisions ==
    /\ notifyStep = "resolving" /\ Len(owners) = Len(members)
    /\ notifyStep' = "grouped"
    /\ groupOwner' = IF \A i \in DOMAIN owners : owners[i].name = owners[1].name
                     THEN owners[1] ELSE Unowned
    /\ UNCHANGED <<setup, lines, members, owners, reply, notifyExit>>

\* No sink is a run that only reports; a sink that is not complete, is unknown or
\* is only planned ends the run.
BuildSink ==
    /\ notifyStep = "grouped"
    /\ LET code == CASE setup.sink = "incomplete" -> 4
                     [] setup.sink = "teams" -> 1
                     [] setup.sink = "unknown" -> 2
                     [] setup.sink = "none" -> 0
                     [] OTHER -> Nil
       IN  notifyExit' = code /\ notifyStep' = IF code = Nil THEN "sending" ELSE "over"
    /\ UNCHANGED <<setup, lines, members, owners, groupOwner, reply>>

\* What comes back. Slack answers 200 and says in the body what became of the
\* message; the others say it by the status; stdout is written or is not. An
\* answer may be lost on its way, or cut off in the body.
Replies(taken) ==
    LET r(come, status, ok) == [taken |-> taken, come |-> come, status |-> status, ok |-> ok]
    IN  {r(FALSE, 0, Nil)} \cup
        CASE setup.sink = "slack"  -> {r(TRUE, 200, taken), r(TRUE, 200, Nil)}
          [] setup.sink = "stdout" -> {r(taken, 0, Nil)}
          [] OTHER                 -> {r(TRUE, IF taken THEN 200 ELSE 500, Nil)}

\* Slack's status code says nothing.
SlackTook(r) == r.come /\ r.ok = TRUE

WebhookTook(r) == r.come /\ r.status \in 200..299

GitHubTook(r) == r.come /\ r.status \in 200..299

\* Send returns no error.
Sent(r) ==
    CASE setup.sink = "slack"   -> SlackTook(r)
      [] setup.sink = "webhook" -> WebhookTook(r)
      [] setup.sink = "github"  -> GitHubTook(r)
      [] setup.sink = "stdout"  -> r.come

\* One attempt; an error ends the run. Then the ledger is written: NotifyRun.
Send ==
    /\ notifyStep = "sending"
    /\ notifyStep' = "over"
    /\ reply' \in Replies(TRUE) \cup Replies(FALSE)
    /\ notifyExit' = IF Sent(reply') THEN 0 ELSE 5
    /\ UNCHANGED <<setup, lines, members, owners, groupOwner>>

OwnerNext == StartNotify \/ NewResolver \/ Route \/ GroupDecisions \/ BuildSink \/ Send

OwnerSpec == OwnerInit /\ [][OwnerNext]_ownerVars

-----------------------------------------------------------------------------
(* Properties *)

\* The names of the module alone.
OwnPath(a) == SubSeq(Segments(a), 1, 2 * Len(a.module))

\* The lines of CODEOWNERS that cover the module of a finding.
Covering(f) == {l \in DOMAIN lines : CodeownersMatch(lines[l].pattern, OwnPath(f.address))
                                        /\ f.address.module # <<>>}

\* A wrong owner is worse than none (notify/ownership.go:223-229). A finding goes
\* to the default, or to nobody, only when no tag, line or pattern names an owner
\* for it; a line of CODEOWNERS gives way only to one that is further down, and
\* covers no resource outside its module, unless a key with a dot makes the path
\* longer; one resource goes to one owner, in this run and the next, except where
\* the order of a map decides; and a message names an owner only if every finding
\* in it is that owner's.
AddressedToItsOwner ==
    /\ \A i, j \in DOMAIN owners :
          LET f == members[i] IN
          /\ owners[i].via \in {"default", "none"} =>
                /\ MatchFallback(f.address) = {}
                /\ \A t \in f.tags : t.key \in ToSet(setup.tagKeys) =>
                      t.text = Unnamed \/ \E u \in f.tags : u.key = t.key /\ u.text = Unnamed
                /\ f.address.key # "dotted" => Covering(f) = {}
          /\ owners[i].via = "codeowners" /\ f.address.key # "dotted" =>
                \E l \in Covering(f) :
                    lines[l].owner = owners[i].name /\ \A m \in Covering(f) : m <= l
          /\ members[j] = f /\ owners[i].name # owners[j].name =>
                \/ Cardinality(MatchFallback(f.address)) > 1
                \/ \E t, u \in f.tags : t.key = u.key /\ t.map = u.map /\ t # u
          /\ groupOwner # Nil => \/ groupOwner.name = Unnamed
                                  \/ owners[i].name = groupOwner.name
    /\ groupOwner = Unowned => \/ owners[1].name = Unnamed
                               \/ \E i \in DOMAIN owners : owners[i].name # owners[1].name

\* No sink would "report success for a notification nobody received"
\* (cli/notify.go:303): a run that ends well was asked to send nothing, or the
\* message was taken; one that fails although it was taken got no whole answer.
SendIsHonest ==
    notifyStep = "over" =>
        /\ notifyExit = 0 => setup.sink = "none" \/ reply.taken
        /\ reply # Nil /\ notifyExit # 0 /\ reply.taken =>
              ~reply.come \/ (setup.sink = "slack" /\ reply.ok = Nil)

\* A message has the right address, and a run that ends well has sent it.
TheRightPeopleHear == AddressedToItsOwner /\ SendIsHonest
=============================================================================
