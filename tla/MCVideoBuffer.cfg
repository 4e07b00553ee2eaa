CONSTANTS
    Frames = 4
    Chunks = 3
    MaxPending = 2
SPECIFICATION Spec
INVARIANTS
    TypeOK
    LostOnlyWhenCrowded
CHECK_DEADLOCK FALSE
