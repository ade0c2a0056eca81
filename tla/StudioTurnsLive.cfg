SPECIFICATION FairSpec
CONSTANTS
    Turns = {u1}
    NoTurn = NoTurn
    Tabs = {b1, b2}
    MaxThreads = 2
    MaxLogs = 2
    MaxYields = 2
    ClockMayJump = FALSE
PROPERTIES
    EveryTurnEnds
    EveryChildGoes
CHECK_DEADLOCK FALSE
