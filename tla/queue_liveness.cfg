SPECIFICATION FairSpec
CONSTANTS
    Jobs = {j1, j2}
    JobSteps = {}
    MaxDesyncs = 1
    Usize = 8
    Limits = {0, 1}
    Timeouts = {0}
    ExpireAfter = {0}
    NoExpire = NoExpire
    MaxTime = 1
    MaxConfigChanges = 1
    LostReplies = FALSE
PROPERTIES
    EveryJobSettles
CHECK_DEADLOCK FALSE
