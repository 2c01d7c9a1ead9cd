SPECIFICATION Spec
CONSTANTS
    Finding <- TwoResources
    Invocations <- NoSink
    AgingAfter = 2
    RenotifyAfter = 2
    Coverable = {}
    SnoozeUntil = {}
    MaxTime = 2
INVARIANTS
    OpenWasAnnounced
CHECK_DEADLOCK FALSE
