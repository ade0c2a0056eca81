SPECIFICATION Spec
CONSTANTS
    Retention = 3
    Turns = {u1, u2}
    NoTurn = NoTurn
    Clients = {c1}
    MaxSequence = 7
INVARIANTS
    TypeOK
    RenderedWithoutGap
    ServedIsNeverAhead
    NothingCountsAfterTheEnd
PROPERTIES
    RefusedOnlyWhenLost
    RefinesLifecycle
