SPECIFICATION Spec
CONSTANTS
    Object = {o1, o2, o3}
    Frame = {f1, f2, f3}
    Null = null
    Dead = dead
    Free = free
    Item = {a, b}
    None = none
    Bodies <- MCBodies
    MaxCount = 2
    ReuseFinished = FALSE
INVARIANTS
    TypeOK
    FramesOwnedOnce
    FinishedIsOver
PROPERTY
    ImplementsStream
SYMMETRY Renaming
