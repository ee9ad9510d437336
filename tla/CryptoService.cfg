SPECIFICATION Spec
CONSTANTS
    None = None
    Tasks <- MCTasks
    Locks <- MCLocks
    Customers = {"a"}
    Calls <- CallsAny
    MaxKeys = 1
    Interval = 1
    MaxTime = 2
    MaxFaults = 1
INVARIANTS
    TypeOK
    GaugeBalanced
    RefusedStaysRefused
    UsageCounted
    RoundTrip
    OpensAgain
    WorkGoesOn
CHECK_DEADLOCK FALSE
