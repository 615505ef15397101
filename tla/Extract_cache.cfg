SPECIFICATION Spec
CONSTANTS
    Entries <- TwoTUs
    Header = "inline.h"
    Linked <- OnlyA
    Jobs = 2
    MaxRuns = 2
    MaxEdits = 1
    Faults <- ButDieOrCancel
INVARIANTS TypeOK QuietSuccessIsComplete CacheMatchesKey
CHECK_DEADLOCK FALSE
