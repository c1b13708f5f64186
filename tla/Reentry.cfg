SPECIFICATION ReentrySpec
CONSTANTS
    Entity = {e1, e2, e3}
    Null = null
    Point <- MCPoint
    Box <- MCBox
    Xf <- MCXf
    NoXf = identity
    Hull <- MCHull
    Apply <- MCApply
    DirtyMoves = FALSE
    DirtyLeaves = FALSE
    MaxPending = 2
    MaxTurned = 1
    EditsRemoved = FALSE
INVARIANTS
    ReentryTypeOK
    DirtyWhenQuiet
    ExactWhenQuiet
SYMMETRY Renaming
