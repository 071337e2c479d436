SPECIFICATION LeadSpec
CONSTANTS
    Replicas = {p1, p2}
    MaxLeaseMoves = 3
    MaxSignals = 2
INVARIANTS
    NothingLeftBehind
PROPERTIES
    SignalEndsProcess
    DeposedStops
CHECK_DEADLOCK FALSE
