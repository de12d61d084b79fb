SPECIFICATION CallsSpec
CONSTANTS
    Ids = {0, 1}
    Values = {0, 2}
    Handlers = 2
    MaxLives = 2
    Letters = {"a", "b"}
    Space = " "
    MaxText = 7
    Names <- MCNames
    Lower <- MCLower
    HeaderValues = {"x", "y"}
    Pieces = {0, 2, 3}
    MaxBody = 4
    MaxLines = 5
    MaxRedirs = 2
INVARIANTS
    RefusedByHandlerOnly
    SplitAsDocumented
    HeadersOfLastResponse
    WholeBody
PROPERTIES
    HandlersGetTheReport
CHECK_DEADLOCK FALSE
