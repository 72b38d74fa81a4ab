CONSTANTS
    Messages = {m1, m2, m3}
    Injected = {m2, m3}
    Modes = {ask, yolo}
    NoMode = none
    MaxTurns = 1
    MaxToggles = 1
SPECIFICATION Spec
INVARIANT
    SessionConsistent
PROPERTIES
    ModeOfATurn
    StartsSettle
CHECK_DEADLOCK FALSE
