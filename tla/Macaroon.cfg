SPECIFICATION Spec
CONSTANTS
    None = None
    l1 = l1
    v1 = v1
    v2 = v2
    unwrap = unwrap
    Ids = {i1, i2}
    Values = {v1, v2, unwrap}
    Locations = {l1}
    Conditions = {q1}
    Holders = {a, b}
    Contexts <- MCContexts
    MintCaveats <- MCMintCaveats
    MoreCaveats <- MCMoreCaveats
    ForeignTexts <- MCForeignTexts
    CountBits = 16
    TicksPerSecond = 2
    DischargeTtl = 1
    MaxTimestamp = 3
    Timestamps <- MCTimestamps
    MaxCaveats = 5
    MaxKeys = 1
    MaxDischarges = 1
    MaxBusy = 2
    MaxTime = 3
SYMMETRY MCSymmetry
INVARIANTS
    NobodyRemoves
    AddingNarrows
    
    MetIsAccepted
