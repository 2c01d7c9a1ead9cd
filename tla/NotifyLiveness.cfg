SPECIFICATION FairSpec
CONSTANTS
    Finding <- OneResource
    Invocations <- SinkOnly
    AgingAfter = 1
    RenotifyAfter = 1
    Coverable = {}
    SnoozeUntil = {}
    MaxTime = 1
PROPERTIES
    PersistentDriftIsRecorded
    VanishedDriftIsClosed
CHECK_DEADLOCK FALSE
