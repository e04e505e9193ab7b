SPECIFICATION Spec
CONSTANTS
    Reader = {a, b}
    Capacity = 1
    MaxPages = 20
    MaxHeight = 2
    MaxTxn = 3
    MaxReopens = 0
    MaxCrashes = 0
    CutCopies = FALSE
SYMMETRY ReaderSymmetry
INVARIANTS SnapshotIsolation
CHECK_DEADLOCK FALSE
