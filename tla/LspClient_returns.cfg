SPECIFICATION FairSpec
CONSTANTS
    Callers = {c1, c2}
    MaxCalls = 2
    Faults <- DieOrCancel
PROPERTIES EveryCallReturns IndexingSettles
CHECK_DEADLOCK FALSE
