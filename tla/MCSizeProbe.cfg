SPECIFICATION Spec
CONSTANTS
    First = 2
    Bound = 8
    Limit = 5
    Lossy = FALSE
    Early = FALSE
INVARIANTS
    ReportedSizeArrived
CHECK_DEADLOCK FALSE
