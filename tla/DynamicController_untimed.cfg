CONSTANTS
    i1 = i1
    i2 = i2
    p1 = p1
    Instances = {i1}
    Parents = {p1}
    ParentOf <- MCParentOf
    Workers = 1
    QueueMaxRetries = 1
    Timers = FALSE
    MaxGeneration = 2
    MaxChild = 1
    MaxFaults = 1
    MaxWrites = 1
SPECIFICATION Spec
INVARIANTS
    WatchesDriveNext
CHECK_DEADLOCK FALSE
