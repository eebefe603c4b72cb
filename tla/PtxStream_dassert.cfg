SPECIFICATION Spec
CONSTANTS
    Streams = {"s1"}
    Readers = {"r1"}
    ChunkNum = 2
    PacketSize = 5
    ChunkSize = 10
    ReadSizes = {10}
    Numbers = 1
    Revoke = FALSE
    MaxSessions = 2
    MaxErrors = 0
INVARIANTS DaemonAssertions
