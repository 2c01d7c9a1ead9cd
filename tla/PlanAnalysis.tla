----------------------------- MODULE PlanAnalysis -----------------------------
(***************************************************************************)
(* `infractl plan analyse`: read the JSON of a Terraform plan, say what it *)
(* destroys, and gate: terraform/plan.go and cli/plan.go. A plan is a      *)
(* sequence of [mode, actions, stateful], one for each resource it has.    *)
(***************************************************************************)
EXTENDS Naturals, Sequences, SequencesExt, FiniteSets, Nothing

CONSTANTS
    Plans,      \* what may be read
    PlanFlags   \* [failOn, maxDeletes, details]; maxDeletes is Nil when it is off

\* What Terraform writes for a resource.
ActionLists ==
    {<<>>, <<"no-op">>, <<"create">>, <<"read">>, <<"update">>, <<"delete">>, <<"forget">>,
     <<"delete", "create">>, <<"create", "delete">>, <<"create", "forget">>}

ResourceChanges == [mode : {"managed", "data"}, actions : ActionLists, stateful : BOOLEAN]

ASSUME PlansAssumption == Plans \subseteq Seq(ResourceChanges)

VARIABLES
    planPhase,  \* idle, reading, parsed, reported, done, failed
    plan,       \* the file
    planFlags,
    planned,    \* the action of each resource that changes, by position
    warnings,   \* positions warned about, and "only deletes"
    planRows,   \* positions in the table
    planExit

planVars == <<planPhase, plan, planFlags, planned, warnings, planRows, planExit>>

\* Faulty variant: only one order of the two counts as a replacement.
ClassifyInOrder(actions) ==
    CASE Len(actions) = 1 /\ actions[1] \in {"create", "update", "delete", "read"} -> actions[1]
      [] actions = <<"delete", "create">> -> "replace"
      [] OTHER -> "no-op"

\* A replacement is a delete and a create, in either order; a list the reader
\* does not know, "forget" among them, is no change at all.
ClassifyActions(actions) ==
    CASE Len(actions) = 1 /\ actions[1] \in {"create", "update", "delete", "read"} -> actions[1]
      [] Len(actions) = 2 /\ ToSet(actions) = {"create", "delete"} -> "replace"
      [] OTHER -> "no-op"

IsDestructive(action) == action \in {"delete", "replace"}

CountOf(actions) == Cardinality({i \in DOMAIN planned : planned[i] \in actions})

\* TotalChanges, which counts the reads too.
TotalChanges == Cardinality(DOMAIN planned)

PlanInit ==
    /\ planPhase = "idle" /\ plan = <<>> /\ planFlags = Nil
    /\ planned = <<>> /\ warnings = {} /\ planRows = {}
    /\ planExit = Nil

RunPlan ==
    /\ planPhase = "idle"
    /\ planPhase' = "reading"
    /\ plan' \in Plans /\ planFlags' \in PlanFlags
    /\ UNCHANGED <<planned, warnings, planRows, planExit>>

\* No such file, or a --fail-on that is none: 2. Not JSON, no format version or
\* one this build does not read, or a report that cannot be written: 1.
PlanFails ==
    /\ \/ planPhase = "idle" /\ planExit' \in {1, 2}
       \/ planPhase = "parsed" /\ planExit' = 1
    /\ planPhase' = "failed"
    /\ UNCHANGED <<plan, planFlags, planned, warnings, planRows>>

\* Reads of data sources and resources that do not change are dropped.
ParsePlan ==
    /\ planPhase = "reading"
    /\ planPhase' = "parsed"
    /\ LET changes == {i \in DOMAIN plan : /\ plan[i].mode = "managed"
                                           /\ ClassifyActions(plan[i].actions) # "no-op"}
       IN  planned' = [i \in changes |-> ClassifyActions(plan[i].actions)]
    /\ UNCHANGED <<plan, planFlags, warnings, planRows, planExit>>

\* Stateful resources that go, and plans that only delete, which is 0.
PlanWarnings ==
    {i \in DOMAIN planned : IsDestructive(planned[i]) /\ plan[i].stateful}
    \cup {n \in {0} : CountOf({"delete"}) > 0 /\ CountOf({"create", "update", "replace"}) = 0}

\* The table has what destroys, and the rest with --details.
ReportPlan ==
    /\ planPhase = "parsed"
    /\ planPhase' = "reported"
    /\ planRows' = {i \in DOMAIN planned : planFlags.details \/ IsDestructive(planned[i])}
    /\ warnings' = PlanWarnings
    /\ UNCHANGED <<plan, planFlags, planned, planExit>>

\* --max-deletes counts deletes and no replacements. Then --fail-on.
GatePlan ==
    /\ planPhase = "reported"
    /\ planPhase' = "done"
    /\ LET tooMany == planFlags.maxDeletes # Nil /\ CountOf({"delete"}) > planFlags.maxDeletes
           tripped == \/ planFlags.failOn = "any" /\ TotalChanges > 0
                      \/ planFlags.failOn = "destructive" /\ CountOf({"delete", "replace"}) > 0
                      \/ planFlags.failOn = "delete" /\ CountOf({"delete"}) > 0
       IN  planExit' = IF tooMany \/ tripped THEN 3 ELSE 0
    /\ UNCHANGED <<plan, planFlags, planned, warnings, planRows>>

PlanNext == RunPlan \/ PlanFails \/ ParsePlan \/ ReportPlan \/ GatePlan

PlanSpec == PlanInit /\ [][PlanNext]_planVars

-----------------------------------------------------------------------------
(* Properties *)

\* The resources of the plan that something is deleted of.
Doomed == {i \in DOMAIN plan : plan[i].mode = "managed" /\ "delete" \in ToSet(plan[i].actions)}

\* Nothing goes unseen: every resource the plan deletes, for good or to make it
\* anew and in whichever order, is in the table, is warned about when its data
\* goes with it, and trips --fail-on destructive; a gate that passes with "any"
\* has let through a plan that only reads data sources, keeps or forgets.
NothingGoesUnseen ==
    planPhase = "done" =>
        /\ Doomed \subseteq planRows
        /\ {i \in Doomed : plan[i].stateful} = warnings \ {0}
        /\ 0 \in warnings =>
              \A i \in DOMAIN plan : plan[i].mode = "managed" =>
                  ToSet(plan[i].actions) \cap {"create", "update"} = {} \/ "forget" \in ToSet(plan[i].actions)
        /\ planFlags.failOn = "destructive" /\ Doomed # {} => planExit = 3
        /\ planFlags.failOn = "any" /\ planExit = 0 =>
              \A i \in DOMAIN plan :
                  \/ plan[i].mode # "managed"
                  \/ plan[i].actions \in {<<>>, <<"no-op">>}
                  \/ "forget" \in ToSet(plan[i].actions)
=============================================================================
