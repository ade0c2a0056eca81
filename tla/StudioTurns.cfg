SPECIFICATION Spec
CONSTANTS
    Turns = {u1, u2}
    NoTurn = NoTurn
    Tabs = {b1, b2}
    MaxThreads = 2
    MaxLogs = 3
    MaxYields = 1
    ClockMayJump = TRUE
SYMMETRY Symmetry
INVARIANTS
    TypeOK
    NoWedge
    LiveTurnIsNotReentered
    LiveTurnsAreShutDown
PROPERTIES
    EndsWithItsSlot
    PumpedTurnEndsByStopOnly
    RefinesTurnRun
CHECK_DEADLOCK FALSE
