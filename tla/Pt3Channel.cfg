SPECIFICATION FairSpec
CONSTANTS
    Threads = {a, b}
    Channels = 2
    Tries = 2
    MaxCalls = 3
    MaxErrors = 1
    None = none
CHECK_DEADLOCK FALSE
INVARIANTS SleepStateIsTrue OpenChannelIsAwake TunedAsAsked
PROPERTIES CallsReturn
