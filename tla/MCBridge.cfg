SPECIFICATION BridgeSpec
CONSTANTS
    None = None
    Torn = Torn
    Layers = 4
    Heads = 4
    QueryGroups = 2
    Configs <- MCConfigs
    Leavings <- MCLeavings
    MaxRuns = 2
    MaxCollects = 1
    MaxLaunches = 2
    MaxTorn = 1
INVARIANTS
    OutputWhole
    StatusesEarned
    AllAttempted
    RefusalsEarned
CHECK_DEADLOCK FALSE
