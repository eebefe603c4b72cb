SPECIFICATION FairSpec
CONSTANTS
    Readers = {r1}
    Blocks = 3
    Units = 2
    Numbers = 7
    ReadSizes = {1, 3}
    Tries = 2
    None = none
INVARIANTS DataInOrder OverflowIsLogged ResetIsUndisturbed
PROPERTIES BufferIsReleased BoardIsReleased
