SPECIFICATION Spec
CONSTANTS
    Finding <- TwoResources
    Invocations <- SinkOnly
    AgingAfter = 2
    RenotifyAfter = 2
    Coverable = {}
    SnoozeUntil = {}
    MaxTime = 3
PROPERTIES
    RenotifyWindow
CHECK_DEADLOCK FALSE
