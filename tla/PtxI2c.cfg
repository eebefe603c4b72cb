SPECIFICATION FairSpec
CONSTANTS
    Clients = {a, b, c}
    WriteWords = 3
    ReadWords = 5
    MaxPolls = 3
INVARIANTS TypeOK ProgramsAreWhole AnswersBelong NoSleeperForgotten
PROPERTIES BusIsReleased CallsReturn
