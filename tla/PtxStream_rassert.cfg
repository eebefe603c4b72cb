SPECIFICATION Spec
CONSTANTS
    Streams = {"s1"}
    Readers = {"r1", "r2"}
    ChunkNum = 2
    PacketSize = 2
    ChunkSize = 2
    ReadSizes = {2}
    Numbers = 1
    Revoke = FALSE
    MaxSessions = 1
    MaxErrors = 0
INVARIANTS ReaderAssertions
