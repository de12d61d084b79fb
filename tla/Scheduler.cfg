SPECIFICATION FairSpec
CONSTANTS
    Intervals = {0, 1}
    Repeats <- MCRepeats
    CallsThrow = TRUE
    MaxTimers = 2
    MaxTime = 3
    MaxRuns = 3
INVARIANTS
    NeverMoreThanRepeats
PROPERTIES
    OncePerTick
    NoCatchUp
    DueTimerRuns
