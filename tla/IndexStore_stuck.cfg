SPECIFICATION Spec
CONSTANTS
    Readers = {r1}
    MaxBuilds = 2
    MaxRestarts = 1
    CrashAt <- WhileWriting
SYMMETRY ReaderSymmetry
INVARIANTS RebuildIsFresh
CHECK_DEADLOCK FALSE
