SPECIFICATION TreeSpec
CONSTANTS
    Key = {1, 2, 3, 4, 5, 6, 7, 8, 9}
    Value = {1, 2, 3}
    KeyLen <- MCKeyLen
    ValLen <- MCValLen
    Reader = {a}
    PageSize = 64
    Capacity = 5
    MaxPages = 13
    MaxHeight = 3
    MaxTxn = 9
    MaxReopens = 1
    MaxCrashes = 1
    CutCopies = TRUE
    Busy = {1, 4, 9}
    WarmUp <- MCWarmUp
INVARIANTS TreeTypeOK TreeIsReal SeparatorsCover
PROPERTIES UsesStore ImplementsMap GetsEnd
CHECK_DEADLOCK FALSE
