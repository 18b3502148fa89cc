SPECIFICATION Spec
CONSTANTS
    Name <- MCName
    EmptyName = ""
    Morpheme <- MCMorpheme
    Split <- MCSplit
    Stem <- MCStem
    DigitSuffix = {}
    Unit = 4
    ExistingMorphemeMatchMax = 2
    SwappedMorphemeMatchMin = 3
    StatsSwappedMorphemeThreshold = 3
    StatsSwappedFitnessThreshold = 3
    CoverSwappedStatsVettingThreshold = 3
    Argvs <- MCArgvs
    Dashed <- MCDashed
    Number = {"7"}
INVARIANTS
    OptionsReadAsGiven
    ExitTellsSwap
CHECK_DEADLOCK FALSE
