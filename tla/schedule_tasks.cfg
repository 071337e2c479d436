SPECIFICATION FairSpec
CONSTANTS
    Replicas = {p1, p2}
    Triggers = {t1}
    Schedules = {"hourly", "daily", "broken"}
    Valid = {"hourly", "daily"}
    MaxLeaseMoves = 1
    MaxSignals = 0
    MaxEdits = 2
    MaxFailures = 1
INVARIANTS
    TypeOK
    TasksAreRecorded
    GoneIsUnscheduled
    SchedulesAreActual
PROPERTIES
    ScheduleConverges
    DeletionCompletes
CHECK_DEADLOCK FALSE
