SPECIFICATION FairSpec
CONSTANTS
    Players = {p1, p2}
    Nobody = Nobody
    KicksDismissed = FALSE
    MaxRuntimes = 2
    MaxDepth = 3
INVARIANTS
    HeldRuntimeExists
    ToldOnce
    EveryoneTold
PROPERTIES
    NoReloadAfterShutdown
    DeferredShutdownRuns
    ReloadRuns
