SPECIFICATION Spec
CONSTANTS
    None = None
    NVersions = 3
    LivelockRounds = 1
    MemoryMayExceed = FALSE
    MaxRequests = 0
    BatchSize = 1
    MaxStaleness = 2
    MaxInflight = None
INVARIANT
    GcFindsNoFinished
