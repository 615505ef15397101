SPECIFICATION Spec
CONSTANTS
    Functions <- Names
    Programs <- AllocPrograms
    Nodes <- AllocNodes
    HeaderTypedefs <- Header
    Means <- MeansAll
    Unknown <- NoneUnknown
    MaxDepth = 12
    DefaultRows = 1
    MaxRows = 2
    ListRows = 2
INVARIANT JoinFindsCallbacks
CHECK_DEADLOCK FALSE
