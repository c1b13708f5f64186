SPECIFICATION Spec
CONSTANTS
    Entity = {1, 2, 3, 4}
    Null = 0
    Pos <- MCPos
    ExplicitPos <- MCExplicitPos
    Less <- MCLess
    Under <- MCUnder
    NextPos <- MCNextPos
    PrevPos <- MCPrevPos
    MidPos <- MCMidPos
    FirstPos <- MCFirstPos
    Reuse = TRUE
    Resettling = FALSE
INVARIANT
    EntriesMatchComponents
