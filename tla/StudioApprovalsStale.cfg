SPECIFICATION Spec
CONSTANTS
    Turns = {u1, u2}
    NoTurn = NoTurn
    Threads = {t1}
    NoThread = NoThread
    ApprovalIds = {i1, i2}
    NoEnvelope = NoEnvelope
    LiveRetention = 1
    DecidedRetention = 1
    MaxRequests = 2
    MaxAsked = 2
    Asking = {TRUE, FALSE}
INVARIANTS
    AnswerReachesItsAsker
CHECK_DEADLOCK FALSE
