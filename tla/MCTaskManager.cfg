CONSTANTS
    Tasks = {t1, t2, t3}
    Concurrency = 2
    MaxCrashes = 1
SPECIFICATION Spec
INVARIANTS
    TypeOK
    PoolExact
    CancelOfStartedIsFinal
    RecoverySparesTheLiving
    ToldAtMostOnce
PROPERTIES
    ImplementsContract
    EveryTaskEnds
CHECK_DEADLOCK FALSE
