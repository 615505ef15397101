SPECIFICATION FairSpec
CONSTANTS
    MaxVersion = 3
    MaxCrashes = 3
    CrashAt <- Anywhere
    Faults <- AllFaults
INVARIANTS NoLostPulse RestIsFresh OneClangdAtATime NoSpuriousRestart GaveUpAfterThreeCrashes
PROPERTIES ServesVersions CloseTerminates WatchedChangeIsServed
CHECK_DEADLOCK FALSE
