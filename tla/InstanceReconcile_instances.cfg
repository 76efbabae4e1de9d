SPECIFICATION FairSpec
CONSTANTS
    db = db
    app = app
    o1 = o1
    o2 = o2
    o3 = o3
    k1 = k1
    k2 = k2
    home = home
    away = away
    NoGraph = NoGraph
    NoNode = NoNode
    ClusterScope = ClusterScope
    Objects = {o1, o2, o3}
    Kind <- MCKind
    Namespace <- MCNamespace
    ParentNamespace = home
    Nodes = {db, app}
    Graphs <- FiveGraphs
    ReadyWhen = {db}
    Orphaned = {o3}
    Suspends = TRUE
    Faults = {"error", "crash", "pending", "delete", "recreate"}
    MaxEdits = 3
    MaxFaults = 1
INVARIANTS
    TypeOK
    InventoryCovers
    NoOrphans
PROPERTIES
    PruneSparesWanted
    ForeignSpared
    DependentsFirst
    DeletionCompletes
    Converges
CHECK_DEADLOCK FALSE
