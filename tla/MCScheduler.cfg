CONSTANTS
    Period = 2
    MaxTime = 5
    MaxSchedules = 2
    MaxExits = 2
SPECIFICATION Spec
INVARIANT
    ScheduleConsistent
PROPERTIES
    CronsCatchUp
    OnceFires
CHECK_DEADLOCK FALSE
