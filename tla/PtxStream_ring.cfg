SPECIFICATION Spec
CONSTANTS
    Streams = {"s1"}
    Readers = {"r1"}
    ChunkNum = 3
    PacketSize = 5
    ChunkSize = 10
    ReadSizes = {4, 13}
    Numbers = 4
    Revoke = FALSE
    MaxSessions = 2
    MaxErrors = 1
INVARIANTS ReaderAssertions TypeOK CopiedChunkIsStable StoresStayInChunk WaitingChunksAreWhole NoLostWakeup
PROPERTIES ChunksAreReadToTheEnd ImplementsChunkFifo
