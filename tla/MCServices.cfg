SPECIFICATION MCSpec
CONSTANTS
    \* PlanStore
    Procs = {p1, p2}
    MaxItems = 1
    CompactAfter = 1
    MaxDeaths = 2
    \* LtmBridge
    o1 = o1
    o2 = o2
    f1 = f1
    Obs = {o1, o2}
    ObsFiles = {f1}
    FileOf <- MCFileOf
    MaxEdits = 2
    MaxFaults = 1
    MaxBoots = 2
    \* ToolProcess
    MaxChildren = 2
    OutputCap = 1
    \* PhaseShepherd
    Keys = {1, 2}
    After <- MCAfter
    MaxNoPr = 1
    MaxUpdates = 1
    Ticks = {k1, k2}
    MaxTrouble = 1
    \* Backfill
    Commands = {c1, c2}
    OldFiles = {1, 2}
    Broken = {2}
    MaxServers = 2
INVARIANTS
    ServicesConsistent
    BridgeSound
PROPERTIES
    PlanLockFreed
    LinesGetMirrored
    ToolCallsEnd
    PhaseSound
    BackfillSettles
CHECK_DEADLOCK FALSE
