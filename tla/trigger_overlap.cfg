SPECIFICATION Spec
CONSTANTS
    Sources = {s1}
    Runs = {r1, r2}
    MaxCommit = 2
    FileHash <- MCFileHash
    WithFiles = TRUE
    OnChangeOnly = TRUE
    MaxLag = 1
    MaxEdits = 1
    PatchFailures = TRUE
SYMMETRY RunSymmetry
INVARIANTS
    TypeOK
    RecordedWasEnqueued
CHECK_DEADLOCK FALSE
