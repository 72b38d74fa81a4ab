CONSTANTS
    Period = 2
    MaxTime = 3
    MaxSchedules = 2
    MaxExits = 1
SPECIFICATION Spec
PROPERTY StopStopsFiring
CHECK_DEADLOCK FALSE
