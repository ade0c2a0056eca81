SPECIFICATION Spec
CONSTANTS
    Turns = {u1, u2}
    NoTurn = NoTurn
    Tabs = {b1}
    MaxThreads = 1
    MaxLogs = 1
    MaxYields = 2
    ClockMayJump = TRUE
INVARIANTS
    NoChildOutlivesStudio
CHECK_DEADLOCK FALSE
