CONSTANT MaxTurns = 1
SPECIFICATION Spec
PROPERTY TimeoutEndsRun
CHECK_DEADLOCK FALSE
