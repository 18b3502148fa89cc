SPECIFICATION Spec
CONSTANTS
    Name <- MCName
    EmptyName = ""
    Morpheme <- MCMorpheme
    Split <- MCSplit
    Stem <- MCStem
    DigitSuffix <- MCDigitSuffix
    Unit = 4
    ExistingMorphemeMatchMax = 2
    SwappedMorphemeMatchMin = 3
    StatsSwappedMorphemeThreshold = 3
    StatsSwappedFitnessThreshold = 3
    CoverSwappedStatsVettingThreshold = 3
    MaxArgs = 4
    Sites <- CoverSites
    Checks = {"CoverBased"}
    Databases <- NoDatabase
    Faults = FALSE
INVARIANTS
    TypeOK
    ResultsInOrder
    FixSilences
    AccusedOnce
PROPERTY ImplementsContract
CHECK_DEADLOCK FALSE
