CONSTANTS
    Tasks = {t1, t2}
    Concurrency = 1
    MaxCrashes = 0
SPECIFICATION Spec
INVARIANT CancelWins
CHECK_DEADLOCK FALSE
