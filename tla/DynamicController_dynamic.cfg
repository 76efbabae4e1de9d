CONSTANTS
    i1 = i1
    i2 = i2
    p1 = p1
    Instances = {i1, i2}
    Parents = {p1}
    ParentOf <- MCParentOf
    Workers = 1
    QueueMaxRetries = 1
    Timers = TRUE
    MaxGeneration = 2
    MaxChild = 1
    MaxFaults = 2
    MaxWrites = 2
SPECIFICATION FairSpec
INVARIANTS
    TypeOK
    NothingForgotten
    ChildEventsDrive
    WatchCountExact
    RetriesReset
PROPERTIES
    Converges
CHECK_DEADLOCK FALSE
