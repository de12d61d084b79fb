SPECIFICATION Spec
CONSTANTS
    Ids = {v}
    Blips = {}
    Faults = FALSE
    Modulus = 100
    MaxEntities = 3
    MaxDepth = 2
INVARIANTS
    NeverMatchesNewer
