SPECIFICATION Spec
CONSTANTS
    Jobs = {j1, j2}
    JobSteps = {}
    MaxDesyncs = 1
    Usize = 8
    Limits = {1, 2}
    Timeouts = {1}
    ExpireAfter = {NoExpire, 0}
    NoExpire = NoExpire
    MaxTime = 1
    MaxConfigChanges = 1
    LostReplies = TRUE
SYMMETRY Symmetry
INVARIANTS
    TypeOK
    RecvNeverBlocks
    OvershootBounded
PROPERTIES
    ImplementsWaitingQueue
CHECK_DEADLOCK FALSE
