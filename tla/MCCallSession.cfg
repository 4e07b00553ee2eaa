CONSTANTS
    Calls = {1, 2}
    None = None
    MaxEnds = 2
SPECIFICATION FairSpec
INVARIANTS
    TypeOK
    InterfaceTellsTheTruth
    OneMicrophone
    OnlyFailedCallsLeakPlayout
PROPERTY
    LeftCallComesToRest
CHECK_DEADLOCK FALSE
