SPECIFICATION Spec
CONSTANTS
    core = core
    full = full
    p = p
    q = q
    g = g
    m = m
    Pypi = {p, q}
    Github = {g}
    Mcp = {m}
    Versions = {v1, v2}
    None = None
    Foreign = Foreign
    Envs = {core, full}
    FullEnv = full
    Base <- MCBase
    Profile <- MCProfile
    Derived <- MCDerived
    Order <- MCOrder
    MaxRuns = 2
    MaxHands = 1
SYMMETRY Symmetry
INVARIANTS
    TypeOK
    MarkerNamesTheTree
    UpgradesLoseNothing
PROPERTIES
    LockIsEvidence
    RecordTellsTheDisk
CHECK_DEADLOCK FALSE
