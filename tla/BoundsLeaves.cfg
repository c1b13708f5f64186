SPECIFICATION Spec
CONSTANTS
    Entity = {e1, e2, e3}
    Null = null
    Point <- MCPoint
    Box <- MCBox
    Xf <- MCXf
    NoXf = identity
    Hull <- MCHull
    Apply <- MCApply
    DirtyMoves = FALSE
    DirtyLeaves = TRUE
INVARIANT
    CleanIsExact
