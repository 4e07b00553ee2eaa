CONSTANTS
    Modulus = 16
    MaxFrames = 4
    MinDepth = 2
    StaleTicks = 1
    MaxDue = 1
    First = 14
    Final = 26
    Reorder = 0
SPECIFICATION LosslessSpec
PROPERTY
    DeliversInSequence
CHECK_DEADLOCK FALSE
