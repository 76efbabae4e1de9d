CONSTANTS
    k1 = k1
    k2 = k2
    p1 = p1
    p2 = p2
    Keys = {k1, k2}
    Parents = {p1, p2}
    ParentOf <- MCParentOf
    Gvrs = {g1, g2}
    OwnerIDs = {"coordinator"}
    Nodes = {n1}
    Targets = {t1, t2}
    Workers = 2
    SyncTimeouts = TRUE
SPECIFICATION Spec
INVARIANTS
    IndexExact
    InformersRetained
    NothingLeaks
    CommittedStaysActive
SYMMETRY Symmetry
