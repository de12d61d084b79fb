SPECIFICATION BindingsSpec
CONSTANTS
    Half = 100
    Words = 80
    Bytes = 50
    Exact = 72
    Scalars <- MCScalars
    Elements <- MCElements
    Turns <- MCTurns
    Keys = {1, 2}
    MaxGiven = 2
    MaxCalls = 2
    Options <- MCOptions
INVARIANTS
    FormsUnderstood
    SentAsAsked
PROPERTIES
    AssignedIsRead
    OthersKept
    TrueMeansDone
CHECK_DEADLOCK FALSE
