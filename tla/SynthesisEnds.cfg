SPECIFICATION FairSpec
CONSTANTS
    main = main
    help = help
    p = p
    q = q
    fake = fake
    weak = weak
    mid = mid
    strong = strong
    noarg = noarg
    big = big
    Funs <- mcFuns
    Main = main
    Measures = {help}
    Points <- mcPoints
    Fake = fake
    Specs <- mcSpecs
    Admits <- mcAdmits
    Goals <- mcGoals
    Verdict <- mcHopeless
    Tests <- mcTests
    Called <- mcCalled
    Flags <- mcPlain
    IterCap = 6
PROPERTIES
    EndsWithoutNewTest
