SPECIFICATION FairSpec
CONSTANTS
    Requests = {q1, q2}
    Keys = {"token"}
    MaxVersion = 1
    KeysAt <- MCKeysAt
    expiration_timeout = 1
    MaxTime = 1
    Names = {"s1"}
    Hooks <- MCHooks
    Headers <- MCHeaders
    MaxEdits = 1
    Attempts = 2
INVARIANTS
    TypeOK
    AcceptedWasAllowed
    AcceptedSurvivesShutdown
PROPERTIES
    EveryRequestAnswered
CHECK_DEADLOCK FALSE
