SPECIFICATION Spec
CONSTANTS
    Replicas = {p1}
    Triggers = {t1}
    Schedules = {"hourly", "daily", "broken"}
    Valid = {"hourly", "daily"}
    MaxLeaseMoves = 0
    MaxSignals = 0
    MaxEdits = 3
    MaxFailures = 0
INVARIANTS
    NeverPanics
CHECK_DEADLOCK FALSE
