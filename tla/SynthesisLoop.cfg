SPECIFICATION FairSpec
CONSTANTS
    main = main
    help = help
    p = p
    q = q
    fake = fake
    weak = weak
    mid = mid
    strong = strong
    noarg = noarg
    big = big
    Funs <- mcFuns
    Main = main
    Measures = {help}
    Points <- mcPoints
    Fake = fake
    Specs <- mcSpecs
    Admits <- mcAdmits
    Goals <- mcGoals
    Verdict <- mcVerdict
    Tests <- mcTests
    Called <- mcCalled
    Flags <- mcFlags
    IterCap = 6
INVARIANTS
    LoopInv
    NoRelapse
    GivesUpOnlyBlind
PROPERTIES
    ProofKept
    LoopComesBack
