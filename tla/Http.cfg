SPECIFICATION FairSpec
CONSTANTS
    MaxPending = 2
    MaxRequests = 4
    Faults = TRUE
PROPERTIES
    CalledLater
    ImplementsPromise
    Answered
CHECK_DEADLOCK FALSE
