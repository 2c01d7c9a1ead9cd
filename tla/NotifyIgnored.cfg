SPECIFICATION Spec
CONSTANTS
    Finding <- OneResource
    Invocations <- SinkOnly
    AgingAfter = 2
    RenotifyAfter = 2
    Coverable <- BucketOnly
    SnoozeUntil = {}
    MaxTime = 2
INVARIANTS
    ResolvedIsGone
CHECK_DEADLOCK FALSE
