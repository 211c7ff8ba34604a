SPECIFICATION CostSpec
CONSTANTS
    Missing = Missing
    ModelParameters = 4
    Profiles <- MCProfiles
    Splits <- MCSplits
    TrainingFits <- MCTrainingFits
    RooflineFits <- MCRooflineFits
    PsrlFitted <- MCPsrlFitted
    Hidden = 1
    Intermediate = 1
    Batches <- MCBatches
    Parallelisms <- MCParallelisms
    Segments <- MCSegments
    DecodeSteps = 6
    Budgets <- MCBudgets
    Seeds <- MCSeeds
INVARIANTS
    HoldoutSound
    ProfiledPointsAnswered
    EstimateCoversRanks
    DecodeTimesAgree
    StepsWithinExact
CHECK_DEADLOCK FALSE
