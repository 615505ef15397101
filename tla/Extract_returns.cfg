SPECIFICATION FairSpec
CONSTANTS
    Entries <- Repeated
    Header = "inline.h"
    Linked <- OnlyA
    Jobs = 2
    MaxRuns = 1
    MaxEdits = 0
    Faults <- DieOrCancel
INVARIANTS SuccessCoversPlans NoPhantomCancel EverythingClosed CompleteUnlessClangdDies
PROPERTY RunReturns
CHECK_DEADLOCK FALSE
