SPECIFICATION Spec
CONSTANTS
    Sources = {s1}
    Runs = {r1}
    MaxCommit = 1
    FileHash <- MCFileHash
    WithFiles = FALSE
    OnChangeOnly = TRUE
    MaxLag = 2
    MaxEdits = 0
    PatchFailures = FALSE
INVARIANTS
    ActionOnChangeOnly
