SPECIFICATION Spec
CONSTANTS
    Finding <- TwoResources
    Invocations <- SinkOnly
    AgingAfter = 1
    RenotifyAfter = 1
    Coverable = {}
    SnoozeUntil = {}
    MaxTime = 2
INVARIANTS
    TypeOK
    OpenWasAnnounced
    ResolvedWasAnnounced
PROPERTIES
    ImplementsPromise
CHECK_DEADLOCK FALSE
