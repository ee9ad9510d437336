SPECIFICATION MCSpec
CONSTANTS
    None = None
    p1 = p1
    c1 = c1
    x1 = x1
    Principals = {p1}
    Certs = {c1}
    Digests = {}
    Exporters = {x1}
    Handles = {h1}
    Requests = {t1, t2}
    RenewalMax = 1
SYMMETRY MCSymmetry
INVARIANTS
    VersionsConsistent
    SealsKept
PROPERTY
    InertForever
