SPECIFICATION Spec
CONSTANTS
    Ids = {v, b}
    Blips = {b}
    Faults = TRUE
    Modulus = 2
    MaxEntities = 3
    MaxDepth = 2
INVARIANTS
    HandleMatchesEntity
    DataOfThisEntity
    EveryEntityKnown
    NoGhosts
    ReloadTakesOurs
    StaleHandleNeverMatches
    OneHandlePerLifetime
