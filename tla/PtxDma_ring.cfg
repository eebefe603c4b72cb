SPECIFICATION FairSpec
CONSTANTS
    Rings = 3
    Pages = 3
    Numbers = 10
    BusyDuring = {}
    MaxErrors = 1
CHECK_DEADLOCK FALSE
INVARIANTS TypeOK NoPageIsOverwritten PagesAreReadInOrder CreditsAreConserved
PROPERTIES PolledPageComes FilledPageIsEmptied StoppedDaemonLeaves
