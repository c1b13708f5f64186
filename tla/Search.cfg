SPECIFICATION SearchSpec
CONSTANTS
    N = 3
    Entity <- MCEntity
    Null = 0
    Point <- MCPoint
    Box <- MCBox
    Xf <- MCXf
    NoXf = identity
    Hull <- MCHull
    Apply <- MCApply
    DirtyMoves = FALSE
    DirtyLeaves = FALSE
    Forests <- MCForests
    Sought <- MCSought
    MaxEdits = 2
INVARIANTS
    SearchTypeOK
    FindsAll
    FindsOnly
CHECK_DEADLOCK FALSE
PROPERTY
    SearchesEnd
