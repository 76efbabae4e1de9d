SPECIFICATION Spec
CONSTANTS
    g1 = g1
    g2 = g2
    o1 = o1
    o2 = o2
    o3 = o3
    k1 = k1
    Graphs = {g1, g2}
    Subscribers = {g1, g2}
    Objects = {o1, o2, o3}
    Finalizing = {o2}
    MayWrite <- MCMayWrite
    Kinds = {k1}
    MaxCrd = 0
    KindOf <- MCKindOf
    Cases <- Captured
    KroUser = "kro"
PROPERTIES
    UndecidedIsKept
CHECK_DEADLOCK FALSE
