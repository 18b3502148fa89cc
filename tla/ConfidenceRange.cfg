SPECIFICATION Spec
CONSTANTS
    Name <- MCName
    EmptyName = ""
    Morpheme <- MCMorpheme
    Split <- MCSplit
    Stem <- MCStem
    DigitSuffix <- MCDigitSuffix
    Unit = 4
    ExistingMorphemeMatchMax = 2
    SwappedMorphemeMatchMin = 3
    StatsSwappedMorphemeThreshold = 3
    StatsSwappedFitnessThreshold = 3
    CoverSwappedStatsVettingThreshold = 3
    MaxArgs = 2
    Sites <- FaultSites
    Checks = {"CoverBased"}
    Databases <- ConfidenceDatabases
    Faults = FALSE
INVARIANTS
    ConfidenceInRange
CHECK_DEADLOCK FALSE
