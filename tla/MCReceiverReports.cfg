CONSTANTS
    Modulus = 64
    MaxFrames = 4
    MinDepth = 2
    StaleTicks = 2
    Senders = {s1, s2}
    Period = 3
    Horizon = 13
    MaxLost = 2
SPECIFICATION Spec
SYMMETRY Symmetry
INVARIANTS
    TypeOK
    LossFadesOut
    NoReportToTheDeparted
CHECK_DEADLOCK FALSE
