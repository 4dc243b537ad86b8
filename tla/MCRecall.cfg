SPECIFICATION RecallFairSpec
CONSTANTS
    Ids = {1, 2, 3, 4}
    DecayScore <- MCDecay
    Importance <- MCImportance
    Frequency <- MCFrequency
    Local = {1, 2, 3}
    Foreign = {4}
    Stale = {3}
    Alike <- MCAlike
    Hidden = {3}
    Limit = 1
    TextLimit = 2
    MeaningLimit = 2
    NearestLimit = 3
    WordScores = 2
    MeaningScores = 1
    MaxChanges = 1
CHECK_DEADLOCK FALSE
INVARIANTS
    NothingWithdrawn
PROPERTIES
    FullPage
    Dominance
    RecallEnds
