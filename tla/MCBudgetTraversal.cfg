CONSTANTS
    FamilyCount = 2
    Dimensions <- MCDimensions
    Bound <- MCBound
    AggregateBudget = 5
    PersistentOosLimit = 2
    EarlierTrials = 5
    Evaluations <- MCEvaluations
    Watched = {0, 3}
    Strength <- MCStrength
SPECIFICATION CampaignSpec
INVARIANTS
    OrdinalsCountAttempts
    StopIsProvable
    StopIsEarned
    SurvivorIsEarned
PROPERTIES
    DecidedRowsAreFinal
