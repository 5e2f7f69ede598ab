SPECIFICATION Spec
CONSTANTS
    x = x
    y = y
    u = u
    n1 = n1
    n2 = n2
    n3 = n3
    n4 = n4
    bound = bound
    Vars <- mcVars
    Preds <- mcPreds
    Free <- mcFree
    Binders <- mcBinders
    Neg <- mcNeg
    Names <- mcNames
    Quantified = bound
    Contradicts <- mcContradicts
SYMMETRY Symmetric
INVARIANTS
    Balanced
    NothingDangles
    OneName
    AnswersQuestion
