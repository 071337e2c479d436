SPECIFICATION FlowSpec
CONSTANTS
    Sources = {s1}
    Runs = {r1}
    MaxCommit = 2
    FileHash <- MCFileHash
    WithFiles = FALSE
    OnChangeOnly = TRUE
    MaxLag = 1
    MaxEdits = 1
    PatchFailures = FALSE
    MaxWaiting = 1
    MaxRestarts = 1
PROPERTIES
    LatestCommitRuns
CHECK_DEADLOCK FALSE
