SPECIFICATION Spec
CONSTANTS
    MaxPending = 1
    MaxRequests = 1
    Faults = TRUE
INVARIANT NothingReleasedAfterPanic
CHECK_DEADLOCK FALSE
