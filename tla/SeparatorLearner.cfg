SPECIFICATION FairSpec
CONSTANTS
    N = 3
    Samples <- mcSamples
    Enforceable <- mcEnforceable
INVARIANTS
    Separates
    EverySmallest
    OnlyTwinsDefeat
    AssertionsHold
PROPERTIES
    Ends
