CONSTANTS
    a = a
    a2 = a2
    b = b
    bad = bad
    NoSpec = NoSpec
    Specs = {a}
    BadSpecs = {}
    Hash <- MCHash
    MaxRev = 2
    MaxGraphRevisions = 1
    AllowCRDDeletion = TRUE
    GRWorkers = 1
    UserDeletes = {"rgd", "gr"}
    LostReplies = FALSE
    MaxUid = 2
    MaxEdits = 0
    MaxFaults = 1
SPECIFICATION Spec
INVARIANTS
    Inv
    NumberIsFree
CHECK_DEADLOCK FALSE
