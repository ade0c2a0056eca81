SPECIFICATION Spec
CONSTANTS
    a1 = a1
    a2 = a2
    g1 = g1
    Studios = {s1}
    Artifacts = {a1, a2}
    Slugs = {g1}
    SlugOf <- OneSlug
    Revisions = {r1, r2}
    NoProposal = NoProposal
    NoRuling = NoRuling
    MaxPrepared = 2
    MaxRulings = 3
SYMMETRY Symmetry
INVARIANTS
    NothingPendingIsHidden
    VerifiedByTheFirstRuling
PROPERTIES
    RefusedForConflictOnly
    RefinesLedger
