SPECIFICATION FairSpec
CONSTANTS
    MaxLen = 6
    Char <- MCChar
    Lower <- MCLower
    Upper <- MCUpper
    Underscore = "_"
    ToLower <- MCToLower
    Inputs <- MCInputs
INVARIANTS
    ScanInv
    SplitIsMorphemes
    NoEmptyMorpheme
    MorphemesAreAtomic
    OnlyUnderscoresVanish
PROPERTY Terminates
CHECK_DEADLOCK FALSE
