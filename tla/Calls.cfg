SPECIFICATION CallsSpec
CONSTANTS
    Base = 2
    MaxSize = 7
    Received <- MCReceived
    Numbers <- MCNumbers
    Texts <- MCTexts
    Width = 2
    FieldCount = 4
    Modulus = 100
    Levels = {"info", "debug"}
    Files = {"first", "second"}
    Missing = Missing
    Invalid = Invalid
    MaxLoads = 2
    MaxRuntimes = 3
INVARIANTS
    LibrariesUpWhileRunning
    CallbacksOfStartedPlugin
PROPERTIES
    RoundTrip
    ConfigAppliedWhole
CHECK_DEADLOCK FALSE
