SPECIFICATION TelemetrySpec
CONSTANTS
    None = None
    NoLimit = NoLimit
    NVersions = 1
    LivelockRounds = 1
    MemoryMayExceed = FALSE
    MaxRequests = 3
    NInstances = 2
    BatchSize = 1
    TrainTimes = {2, 5}
    PartialRollout = FALSE
    PromptLengths <- SameLength
    TargetLengths <- SameLength
    TokenBudget = 4
    KvBlocks = 5
    BlockSize = 2
    MaxRunning = NoLimit
    MaxConcurrency = NoLimit
    RejectIfKvFull = TRUE
    RejectIfWaiting = FALSE
    RejectIfRunningFull = FALSE
    PrefillTime = 2
    DecodeTime = 1
INVARIANT NoExtraCompletions
