SPECIFICATION FairSpec
CHECK_DEADLOCK FALSE
CONSTANTS
    None = None
    Tasks <- MCTasksRotation
    Locks <- MCLocks
    Customers = {"a"}
    Calls <- CallsRotation
    MaxKeys = 2
    Interval = 1
    MaxTime = 3
    MaxFaults = 0
PROPERTIES
    ExpiredAreRotated
