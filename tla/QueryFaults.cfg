SPECIFICATION FairSpec
CONSTANTS
    Name <- MCName
    EmptyName = ""
    Morpheme <- MCMorpheme
    Split <- MCSplit
    Stem <- MCStem
    DigitSuffix <- MCDigitSuffix
    Unit = 4
    ExistingMorphemeMatchMax = 2
    SwappedMorphemeMatchMin = 3
    StatsSwappedMorphemeThreshold = 3
    StatsSwappedFitnessThreshold = 3
    CoverSwappedStatsVettingThreshold = 3
    MaxArgs = 2
    Sites <- FaultSites
    Checks <- AllChecks
    Databases <- FaultDatabases
    Faults = TRUE
INVARIANTS
    CheckInv
    FaultsNeverAccuse
PROPERTY Returns
CHECK_DEADLOCK FALSE
