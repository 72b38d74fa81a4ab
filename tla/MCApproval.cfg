CONSTANTS
    Calls = {c1}
    Sessions = {s1, s2}
    NoSession = none
    s1 = s1
    Home <- MCHome
    Clients = {k1, k2}
    InFlight = 1
    MaxViews = 1
    MaxBreaks = 1
SPECIFICATION Spec
INVARIANTS
    ApprovalConsistent
    CaughtUp
PROPERTY
    CardsGoAway
CHECK_DEADLOCK FALSE
