SPECIFICATION FairSpec
CONSTANTS
    None = None
    NVersions = 3
    LivelockRounds = 1
    MemoryMayExceed = FALSE
    MaxRequests = 10
    BatchSize = 2
    MaxStaleness = 1
    MaxInflight = 3
INVARIANTS
    OneFate
    BatchesAccounted
PROPERTIES
    TrainingCompletes
    ImplementsWindow
