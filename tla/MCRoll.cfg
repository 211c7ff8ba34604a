SPECIFICATION FairSpec
CONSTANTS
    None = None
    NVersions = 3
    LivelockRounds = 1
    MemoryMayExceed = FALSE
    MaxRequests = 14
    BatchSize = 2
    MaxStaleness = 1
    MaxInflight = None
INVARIANTS
    StalenessBound
    GroupsMatchLists
PROPERTIES
    TrainingCompletes
    ImplementsWindow
