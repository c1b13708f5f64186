SPECIFICATION Spec
CONSTANTS
    N = 5
    Node <- MCNode
    Root = 1
    None = 0
    Trees <- MCTrees
    Filters <- MCFilters
    RemoveUnseen = TRUE
INVARIANT
    GivesNoneTwice
CHECK_DEADLOCK FALSE
