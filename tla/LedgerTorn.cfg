SPECIFICATION Spec
CONSTANTS
    scheduled = scheduled
    manual = manual
    Runs <- Processes
    Openings = {1, 2}
INVARIANTS
    InterruptedWriteIsHarmless
CHECK_DEADLOCK FALSE
