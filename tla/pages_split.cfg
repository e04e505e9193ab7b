SPECIFICATION Spec
CONSTANTS
    Key = {1, 2, 3, 4, 5, 6, 7, 8, 9}
    Value = {"empty", "one", "some", "long"}
    KeyLen <- MCKeyLen
    ValLen <- MCValLen
    PageSizes = {49, 64, 43696}
    AnyPage = 1
INVARIANTS TypeOK OffsetsTrue PagesFit KeysInOrder SearchesAgree
PROPERTIES NoEmptyNode
CHECK_DEADLOCK FALSE
