SPECIFICATION Spec
CONSTANTS
    Nil = Nil
    c1 = c1
    c2 = c2
    c3 = c3
    ann = ann
    bob = bob
    q = q
    Callers = {c1, c2}
    Objects <- MCObjects
    Nesting <- MCNesting
    Configurations <- MCConfigurations
    Sources = {"console", "unknown"}
    EndsIn <- MCEndsIn
    StartsWith <- MCStartsWith
    Migrators = {c1, c2, c3}
    Ids = {1, 2, 3}
    Severities = {"high"}
    Times = {1, 2}
    Clients = {c1}
    MaxWrites = 2
    Entries <- MCEntries
    Stamps = {1, 2}
    Limits = {0, 1}
    MaxLogged = 3
    MaxLives = 2
    Users = {c1, c2, c3}
    MaxTokens = 4
    Buckets = 2
    Keys <- MCKeys
    Providers <- MCProviders
    Policies = {c1, c2}
    Messages <- MCMessages
    Subscribers <- MCSubscribers
    MaxPublished = 2
    Halters = {c1, c2}
    Verdicts = {"Stop", "Succeed", "Fail"}
    Workers = {c1, c2, c3}
    Total = 2
INVARIANTS
    TypeOK
    OneLoopUntilStopped
    DetectionIsSound
    PagesAreSound
    RecordsHold
    RedisIsSound
    LongCallsAreWhole
    EachTakenOnce
    TerminalIsTidy
PROPERTIES
    DecisionsStick
    ImplementsLease
    CallsReturn
CHECK_DEADLOCK FALSE
