SPECIFICATION FairSpec
CONSTANTS
    TUs <- TwoTUs
    Percents <- SomePercents
    MaxRounds = 2
    MaxReports = 1
    MaxPipe = 2
    Faults <- AllFaults
INVARIANTS TypeOK NoClangdLeft EndIsHeard
PROPERTIES LineKeepsOrder BuildReturns
CHECK_DEADLOCK FALSE
