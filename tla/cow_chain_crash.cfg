SPECIFICATION Spec
CONSTANTS
    Reader = {a}
    Capacity = 1
    MaxPages = 20
    MaxHeight = 2
    MaxTxn = 3
    MaxReopens = 0
    MaxCrashes = 1
    CutCopies = FALSE
SYMMETRY ReaderSymmetry
INVARIANTS OldVersionStaysValid
CHECK_DEADLOCK FALSE
