SPECIFICATION FairSpec
CONSTANTS
    Streams = {"s1", "s2"}
    Readers = {"r1"}
    ChunkNum = 2
    PacketSize = 2
    ChunkSize = 2
    ReadSizes = {2}
    Numbers = 1
    Revoke = FALSE
    MaxSessions = 1
    MaxErrors = 0
PROPERTIES DaemonReturns WaitingReaderIsServed
