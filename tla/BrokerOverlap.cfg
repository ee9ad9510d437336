SPECIFICATION Spec
CONSTANTS
    None = None
    p1 = p1
    p2 = p2
    c1 = c1
    c2 = c2
    d1 = d1
    x1 = x1
    x2 = x2
    h1 = h1
    h2 = h2
    Principals = {p1, p2}
    Certs = {c1, c2}
    Digests = {d1}
    Exporters = {x1, x2}
    Handles = {h1, h2}
    Requests = {r1, r2, r3, r4}
    RenewalMax = 1
    Calls <- CallsConcurrent
    Menus <- MenusOverlap
    MaxTtl = 4
    RedeemTtl = 9
    KeyLifetime = None
    MaxLease = 2
    I64Max = 7
    DurationMax = 7
    AllowedDischargers = {}
    AttestedDischarge = FALSE
    Serial = FALSE
    FaultKinds = {"crash", "cancel", "flush"}
    MaxFaults = 1
    MaxTime = 3
CONSTRAINT Fits
SYMMETRY MCSymmetry
INVARIANTS
    DeadNeverServed
    EffectsAuthorized
    CompleteBeforeUse
    LeaseWithinExpiry
