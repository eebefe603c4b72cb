SPECIFICATION Spec
CONSTANTS
    Rings = 2
    Pages = 2
    Numbers = 5
    BusyDuring = {"reset"}
    MaxErrors = 1
CHECK_DEADLOCK FALSE
INVARIANTS RestartsWithNoData
