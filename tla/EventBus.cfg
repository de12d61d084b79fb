SPECIFICATION Spec
CONSTANTS
    Events = {e1, e2}
    Builtin = {e1}
    Functions = {f1, f2}
    MaxList = 3
    MaxDepth = 2
SYMMETRY Symmetry
INVARIANTS
    DeadEntriesFlagged
PROPERTIES
    EntriesStayInPlace
    ImplementsDispatch
