SPECIFICATION Spec
CONSTANTS
    Functions <- Names
    Programs <- NestedPrograms
    Nodes <- NestedNodes
    HeaderTypedefs <- Header
    Means <- MeansAll
    Unknown <- HookOrG
    MaxDepth = 12
    DefaultRows = 1
    MaxRows = 2
    ListRows = 2
INVARIANTS ContextIsNearest NoReferenceLost CallerIsInnermost FactsMeetSymbols JoinFindsCallbacks
CHECK_DEADLOCK FALSE
