SPECIFICATION Spec
CONSTANTS
    Reader = {a, b}
    Capacity = 1
    MaxPages = 12
    MaxHeight = 2
    MaxTxn = 4
    MaxReopens = 1
    MaxCrashes = 1
    CutCopies = TRUE
SYMMETRY ReaderSymmetry
CONSTRAINT FewTornPuts
INVARIANTS TypeOK ProtectedIsolation RootIsReadable OpensAgain OneOwner NoPageLostWhileOpen
PROPERTIES RestartKeepsCommitted
CHECK_DEADLOCK FALSE
