CONSTANTS
    Messages = {m1, m2}
    Injected = {m2}
    Modes = {ask, yolo}
    NoMode = none
    MaxTurns = 1
    MaxToggles = 0
SPECIFICATION Spec
INVARIANT InjectedTakesATurn
CHECK_DEADLOCK FALSE
