SPECIFICATION Spec
CONSTANTS
    None = None
    Requests = {r1, r2}
    Calls <- MCCalls
    ConfiguredMax = 3
    HandleTtl = 2
    DefaultTtl = 1
    Grace = 1
    MaxTime = 5
    MaxFaults = 2
SYMMETRY MCSymmetry
INVARIANTS
    RolesLapse
    AnsweredHasRole
    LiveRolesTracked
PROPERTIES
    CleanupSparesLive
