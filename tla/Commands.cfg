SPECIFICATION MCSpec
CONSTANTS
    Nil = Nil
    IgnoredKeys = {"etag"}
    WeightOf <- MCWeightOf
    Objects <- MCObjects
    Nesting <- MCNesting
    States <- MCStates
    Snapshots <- MCSnapshots
    RuleFiles <- MCRuleFiles
    Invocations <- MCInvocations
    c1 = c1
    c2 = c2
    c3 = c3
    r1 = r1
    r2 = r2
    r3 = r3
    r4 = r4
    RuleKeys = {r1, r2, r3, r4}
    NoAddress = {r4}
    RiskStates <- MCRiskStates
    RiskFlags <- MCRiskFlags
    Plans <- MCPlans
    PlanFlags <- MCPlanFlags
    Capturers = {c1, c2}
    Readers = {"doctor", "scan"}
    InitialFiles <- MCFiles
    MaxClock = 2
    Worlds <- MCWorlds
    WarnAge = 0
    FailAge = 1
    Adds = {c1, c2, c3}
    NewRule <- MCNewRule
    RulesBefore <- MCRulesBefore
    Setups <- MCSetups
    Groups <- MCGroups
    Occurs <- MCOccurs
    scheduled = scheduled
    manual = manual
    Runs = {scheduled, manual}
    Openings = {1, 2}
SYMMETRY Interchangeable
INVARIANTS
    TypeOK
    ReportIsExact
    SuppressionIsHonest
    GateIsHonest
    RiskIsRanked
    NothingGoesUnseen
    SnapshotsAreSafe
    VerdictHolds
    RulesSurvive
    TheRightPeopleHear
    RecordedWasSent
    WholeUnlessSavesOverlap
PROPERTIES
    RemembersUnlessRunsOverlap
CHECK_DEADLOCK FALSE
