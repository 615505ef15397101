SPECIFICATION Spec
CONSTANTS
    Callers = {c1, c2}
    MaxCalls = 2
    Faults <- AllFaults
SYMMETRY CallerSymmetry
INVARIANTS OwnReply NoChannelPanic NoPendingLeak WaiterIsKnown
CHECK_DEADLOCK FALSE
