SPECIFICATION FrontSpec
CONSTANTS
    Requests = {q1, q2, q3}
    Keys = {"token", "other"}
    MaxVersion = 2
    KeysAt <- MCKeysAt
    expiration_timeout = 1
    MaxTime = 2
    Triggers = {"t1", "t2"}
    Secured = "t1"
    Segments = {"t1", "t2", "t2_encoded"}
    Decode <- MCDecode
    Names = {"s1"}
    Second = 2
    Options <- MCOptions
    NoPart = NoPart
SYMMETRY MCSymmetry
INVARIANTS
    MonotoneReads
    GlobalCellsShared
    RefusedBySourceOnly
    NeverPlainByMistake
CHECK_DEADLOCK FALSE
