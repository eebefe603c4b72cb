SPECIFICATION MCSpec
CONSTANTS
    Addresses = {18, 117}
    Counts = {0, 1, 2, 4}
    Tuners = 2
    Rings = 2
    Pages = 2
    MaxAttach = 2
    PageSizes = {50, 70, 4096}
    Clients = {1, 2}
    Runs = 2
    MemoryBytes = 256
    Threads = {a, b}
    Slots = 4
    Asked = {2}
    Tries = 2
    MaxTunings = 2
    MaxSwitches = 4
    MaxErrors = 1
CONSTANT Values <- MCValues
CONSTANT Amounts <- MCAmounts
CONSTANT Programs <- MCPrograms
CHECK_DEADLOCK FALSE
INVARIANT TablesAreWhole
