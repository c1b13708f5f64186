SPECIFICATION Spec
CONSTANTS
    Base = 4
    SizeMod = 5
    MaxBytes = 3
INVARIANTS
    TypeOK
    NeverZero
    AfterIsNextUp
    BeforeIsNextDown
    MeanIsExact
    MeanSeparates
    OrderFollowsNumbers
CHECK_DEADLOCK FALSE
