SPECIFICATION ExecFairSpec
CONSTANTS
    NGpus = 3
    NoPort = NoPort
    Requests <- MCRequests
    MaxStartups = 1
    Iterations = 1
    MaxFailures = 1
INVARIANTS
    PlanSound
    ResourcesSound
    OutcomesReported
PROPERTIES
    NothingRedone
    PoolDrains
