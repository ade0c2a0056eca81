SPECIFICATION Spec
CONSTANTS
    Runs = {r1, r2}
    Edits = {e1}
    Notes <- MCNotes
    NoRun = NoRun
    NoBackup = NoBackup
    Unseen = Unseen
    MaxQueued = 1
INVARIANTS
    TypeOK
    TouchesAreAuthorized
    RollbackKeepsEdits
    MaterializedStaysInScope
PROPERTIES
    RefinesAuditTrail
    EveryRunEnds
