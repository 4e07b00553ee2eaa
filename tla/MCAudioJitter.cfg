CONSTANTS
    Modulus = 64
    MaxFrames = 3
    MinDepth = 2
    StaleTicks = 2
    MaxDue = 2
    First = 0
    Final = 6
    Reorder = 2
SPECIFICATION FairSpec
INVARIANTS
    TypeOK
    BufferWellFormed
PROPERTIES
    DeliversInSequence
    PassesNothingBuffered
    SilentStreamIsDiscardedUnlessHalfFilled
CHECK_DEADLOCK FALSE
