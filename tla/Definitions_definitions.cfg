CONSTANTS
    ConservativeCRDComparison = TRUE
    CELOmitFunction = FALSE
    DeletionPolicy = FALSE
    MaxCollectionDimensionSize = 1
    Kinds <- MCKinds
    LowerCamelCase <- MCNames
    Identifiers <- MCNames
    StringLength <- MCStringLength
    Matching <- MCMatching
    Histories <- MCHistories
    Graphs <- MCGraphs
    Specs <- MCSpecs
    Existing <- MCExisting
SPECIFICATION Spec
INVARIANTS
    OrdersAreExact
    AcceptedCompiles
    ProgramsAreClosed
    ServedFits
CHECK_DEADLOCK FALSE
