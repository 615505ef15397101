SPECIFICATION Spec
CONSTANTS
    Readers = {r1, r2}
    MaxBuilds = 2
    MaxRestarts = 2
    CrashAt <- Anywhere
SYMMETRY ReaderSymmetry
INVARIANTS OneOpenHandle NeverHalfBuilt NewestIsOnDisk
PROPERTY ReadsAreAtomic
CHECK_DEADLOCK FALSE
