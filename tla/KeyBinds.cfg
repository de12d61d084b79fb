SPECIFICATION BindsSpec
CONSTANTS
    Slots = {0, 1}
    Tags = {t}
    NoTag = NoTag
    MaxLives = 2
INVARIANTS
    TagOfThisBind
PROPERTIES
    OthersBindsStay
    DeadForGood
CHECK_DEADLOCK FALSE
