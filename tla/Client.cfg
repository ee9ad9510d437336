CONSTANTS
    t1 = t1
    t2 = t2
    t3 = t3
    p1 = p1
    p2 = p2
    c1 = c1
    d1 = d1
    x1 = x1
    x2 = x2
    Tasks = {t1, t2, t3}
    Principals = {p1, p2}
    Certs = {c1}
    Digests = {d1}
    Exporters = {x1, x2}
    None = None
    Calls <- MCCalls
    Channels <- MCChannels
    ClientPrincipal = p1
    RedeemTtl = 0
    MaxHandles = 3
    MaxFaults = 1
    MaxTime = 1
SPECIFICATION Spec
SYMMETRY MCSymmetry
INVARIANTS
    TakenOnce
    MaterialKept
    EndedForgotten
    PrincipalsAgree
