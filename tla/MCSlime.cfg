SPECIFICATION FairSpec
CONSTANTS
    None = None
    NVersions = 4
    LivelockRounds = 1
    MemoryMayExceed = FALSE
    MaxRequests = 15
    BatchSize = 2
    SampleRoom = 2
    Interval = 2
    PartialRollout = FALSE
    MaxInflight = None
INVARIANTS
    BarrierHolds
PROPERTIES
    TrainingCompletes
    ImplementsWindow
