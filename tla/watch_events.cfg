SPECIFICATION WatchSpec
CONSTANTS
    Jobs = {j1, j2}
    JobSteps <- MCJobSteps
    MaxDesyncs = 2
    Usize = 8
INVARIANTS
    WatchTypeOK
    CounterIsSlots
    KnownUnfinishedHoldSlots
    CaughtUpCount
    CompletedOnce
PROPERTIES
    NoSlotAfterCompletion
    SlotsAreReleased
CHECK_DEADLOCK FALSE
