SPECIFICATION JobSpec
CONSTANTS
    Absent = Absent
    MaxContent = 3
    Parses = {1, 3}
    MaxDesyncs = 1
    Actions <- MCActions
    Specs <- MCSpecs
    Secrets <- MCSecrets
    Certs = {"custom", "unknown"}
    TriggerNs = "ns"
    MaxCommit = 2
    MaxChanges = 1
INVARIANTS
    WorkdirsAgree
    ClonedIsTriggered
    AccessIsJustified
PROPERTIES
    ConfigNeverGoesBack
    LatestConfigLoads
CHECK_DEADLOCK FALSE
