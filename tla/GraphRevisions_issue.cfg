CONSTANTS
    a = a
    a2 = a2
    b = b
    bad = bad
    NoSpec = NoSpec
    Specs = {a, a2, b}
    BadSpecs = {}
    Hash <- MCHash
    MaxRev = 3
    MaxGraphRevisions = 1
    AllowCRDDeletion = FALSE
    GRWorkers = 1
    UserDeletes = {}
    LostReplies = FALSE
    MaxUid = 1
    MaxEdits = 2
    MaxFaults = 1
SPECIFICATION Spec
INVARIANTS
    LatestIsNewest
    ActiveIsPersisted
PROPERTIES
    NoDuplicateIssue
    RetentionKeepsServed
CHECK_DEADLOCK FALSE
