SPECIFICATION TelemetryFairSpec
CONSTANTS
    None = None
    NoLimit = NoLimit
    NVersions = 2
    LivelockRounds = 1
    MemoryMayExceed = FALSE
    MaxRequests = 5
    NInstances = 2
    BatchSize = 2
    TrainTimes = {2, 5}
    PartialRollout = TRUE
    PromptLengths <- MCPromptLengths
    TargetLengths <- MCTargetLengths
    TokenBudget = 4
    KvBlocks = 8
    BlockSize = 1
    MaxRunning = NoLimit
    MaxConcurrency = NoLimit
    RejectIfKvFull = TRUE
    RejectIfWaiting = FALSE
    RejectIfRunningFull = FALSE
    PrefillTime = 2
    DecodeTime = 1
INVARIANTS
    InflightIsHeld
    TimeOrder
    TrainedAsMeasured
    StreamCommitted
    StreamsAgree
PROPERTIES
    ReservationHolds
    TokensKept
    LoopEnds
