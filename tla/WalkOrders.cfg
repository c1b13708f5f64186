SPECIFICATION Spec
CONSTANTS
    N = 5
    Node <- MCNode
    Root = 1
    None = 0
    Trees <- MCTrees
    Filters <- MCFilters
    RemoveUnseen = FALSE
INVARIANTS
    TypeOK
    YieldsInOrder
    MissesNothing
    SlotsHold
PROPERTY
    WalksEnd
CHECK_DEADLOCK FALSE
