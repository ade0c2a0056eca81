SPECIFICATION Spec
CONSTANTS
    Turns = {u1, u2}
    NoTurn = NoTurn
    Threads = {t1, t2}
    NoThread = NoThread
    ApprovalIds = {i1, i2, i3}
    NoEnvelope = NoEnvelope
    LiveRetention = 2
    DecidedRetention = 2
    MaxRequests = 2
    MaxAsked = 4
    Asking = {FALSE}
SYMMETRY Symmetry
INVARIANTS
    TypeOK
    AtMostOneAnswer
    RegisteredSessionIsOpen
    PatienceWhileBlocked
PROPERTIES
    LiveSessionIsKept
    SecureTurnGetsItsAnswers
    LedgerDropsTheOldest
CHECK_DEADLOCK FALSE
