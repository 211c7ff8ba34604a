SPECIFICATION InstanceFairSpec
CONSTANTS
    NoLimit = NoLimit
    PromptLengths <- MCPromptLengths
    TargetLengths <- MCTargetLengths
    TokenBudget = 3
    KvBlocks = 3
    BlockSize = 2
    MaxRunning = 3
    MaxConcurrency = 2
    RejectIfKvFull = FALSE
    RejectIfWaiting = FALSE
    RejectIfRunningFull = FALSE
    PrefillTime = 2
    DecodeTime = 1
    NRequests = 4
    Interrupts = 2
INVARIANTS
    UndoLeavesNoTrace
    AdvanceAgrees
    BatchFits
PROPERTY
    AllComplete
