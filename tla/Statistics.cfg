SPECIFICATION Spec
CONSTANTS
    Func = {"f", "g"}
    Arg = {"0", "1"}
    Morpheme = {"x", "y"}
    Rows <- MCRows
    Null = Null
INVARIANTS
    SessionInv
    OnlyValidIsQueried
    IdleHoldsNothing
    NothingLeaks
PROPERTIES
    IsWeightStore
    ReleasedInTheEnd
CHECK_DEADLOCK FALSE
