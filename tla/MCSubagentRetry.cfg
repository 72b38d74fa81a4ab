CONSTANT MaxTurns = 1
SPECIFICATION Spec
INVARIANT RetryBecomesOutcome
CHECK_DEADLOCK FALSE
