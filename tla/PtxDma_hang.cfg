SPECIFICATION FairSpec
CONSTANTS
    Rings = 2
    Pages = 2
    Numbers = 5
    BusyDuring = {"late"}
    MaxErrors = 1
CHECK_DEADLOCK FALSE
PROPERTIES PolledPageComes
