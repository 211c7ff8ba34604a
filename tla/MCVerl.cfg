SPECIFICATION FairSpec
CONSTANTS
    None = None
    NVersions = 3
    LivelockRounds = 1
    MemoryMayExceed = FALSE
    MaxRequests = 12
    Required = 2
    SyncStep = 2
    MaxRequired = 5
    MaxInflight = 3
INVARIANTS
    WindowAccounts
PROPERTIES
    TrainingCompletes
    ImplementsWindow
