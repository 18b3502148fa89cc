SPECIFICATION Spec
CONSTANTS
    Name <- MCName
    EmptyName = ""
    Morpheme <- MCMorpheme
    Split <- MCSplit
    Stem <- MCStem
    DigitSuffix = {}
    Unit = 4
    ExistingMorphemeMatchMax = 2
    SwappedMorphemeMatchMin = 3
    StatsSwappedMorphemeThreshold = 3
    StatsSwappedFitnessThreshold = 3
    CoverSwappedStatsVettingThreshold = 3
    Argvs <- RunnerArgvs
    Dashed <- MCDashed
    Number = {"7"}
INVARIANTS
    NoUsageForTheRunner
CHECK_DEADLOCK FALSE
