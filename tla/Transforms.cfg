SPECIFICATION Spec
CONSTANTS
    Entity = {e1, e2, e3, e4, e5}
    Null = null
    Motion <- MCMotion
    Xf <- MCXf
    NoXf = none
    Identity <- MCIdentity
    Times <- MCTimes
    Undo <- MCUndo
INVARIANTS
    TypeOK
    QueriesAgree
    PathsMeet
    XfBetweenIsExact
    NodeToRootAgrees
SYMMETRY Renaming
