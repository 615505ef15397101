SPECIFICATION FairSpec
CONSTANTS
    MaxVersion = 2
    MaxCrashes = 0
    CrashAt <- NoFaults
    Faults <- Torn
PROPERTY RewriteIsServed
CHECK_DEADLOCK FALSE
