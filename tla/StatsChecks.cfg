SPECIFICATION StatsSpec
CONSTANTS
    Name <- MCName
    EmptyName = ""
    Morpheme <- MCMorpheme
    Split <- MCSplit
    Stem <- MCStem
    DigitSuffix <- MCDigitSuffix
    Unit = 4
    ExistingMorphemeMatchMax = 2
    SwappedMorphemeMatchMin = 3
    StatsSwappedMorphemeThreshold = 3
    StatsSwappedFitnessThreshold = 3
    CoverSwappedStatsVettingThreshold = 3
    MaxArgs = 3
    Sites <- StatsSites
    Checks <- AllChecks
    Databases <- StatsDatabases
    Faults = FALSE
INVARIANTS
    FixSilences
    NoMixedSignals
    StatsReportsSingletons
    ScoreInRange
    ContractInv
    ResultsInOrder
PROPERTY ImplementsContract
CHECK_DEADLOCK FALSE
