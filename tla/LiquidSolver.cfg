SPECIFICATION FairSpec
CONSTANTS
    a = a
    b = b
    c = c
    p = p
    r = r
    d = d
    x = x
    y = y
    none = none
    Subs <- mcSubs
    Wfs <- mcWfs
    Quals <- mcQuals
    Unknowns <- mcUnknowns
    DtyVars <- mcDtyVars
    Locals <- mcLocals
    NoVar = none
    Lhs <- mcLhs
    Rhs <- mcRhs
    Bottoms = {}
    Goal <- mcGoal
    WfVar <- mcWfVar
    WfQuals <- mcWfQuals
    InitQuals <- mcInitQuals
    DtyQuals <- mcDtyQuals
    Offers <- mcOffers
    Rank <- mcRank
    Simple <- mcSimple
    Origin <- mcOrigin
    Entails <- mcEntails
INVARIANTS
    PendIsWorklist
    UnsatIsPending
    StrongestSolution
    OnlyAssertionsFail
    ProvedStaysProved
PROPERTIES
    RanksDescend
    PassEnds
    KeepsPromise
