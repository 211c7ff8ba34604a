SPECIFICATION ExecFairSpec
CONSTANTS
    NGpus = 3
    NoPort = NoPort
    Requests <- OnlyInTurn
    MaxStartups = 1
    Iterations = 2
    MaxFailures = 2
INVARIANT
    RerunRecovers
