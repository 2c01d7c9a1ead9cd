SPECIFICATION Spec
CONSTANTS
    Finding <- OneFinding
    Invocations <- Delivering
    AgingAfter = 2
    RenotifyAfter = 2
    Coverable <- BucketOnly
    SnoozeUntil = {3}
    MaxTime = 4
INVARIANTS
    AgedWasAnnounced
PROPERTIES
    ImplementsPromise
CHECK_DEADLOCK FALSE
