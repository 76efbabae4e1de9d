CONSTANTS
    a = a
    a2 = a2
    b = b
    bad = bad
    NoSpec = NoSpec
    Specs = {a, bad}
    BadSpecs = {bad}
    Hash <- MCHash
    MaxRev = 2
    MaxGraphRevisions = 1
    AllowCRDDeletion = TRUE
    GRWorkers = 1
    UserDeletes = {"rgd", "crd"}
    LostReplies = TRUE
    MaxUid = 1
    MaxEdits = 1
    MaxFaults = 1
SPECIFICATION FairSpec
INVARIANTS
    ControllerHasRGD
PROPERTIES
    Converges
    DeletionCompletes
CHECK_DEADLOCK FALSE
