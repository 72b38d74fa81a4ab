CONSTANT MaxTurns = 3
SPECIFICATION AnsweringSpec
INVARIANT
    RunConsistent
PROPERTIES
    CompletedIsGenuine
    RunEnds
CHECK_DEADLOCK FALSE
