SPECIFICATION Spec
CONSTANTS
    Builders = {b1, b2}
    NInputs = 2
    Contents <- ThreeContents
    Command <- OneCommand
    MaxEdits = 2
    MaxBuilds = 2
    MaxConns = 1
    Faults <- AllFaults
SYMMETRY BuilderSymmetry
INVARIANTS NothingTorn BuildIsFresh BlockedOnlyByLitter
PROPERTY InterruptedPublishesNothing
CHECK_DEADLOCK FALSE
