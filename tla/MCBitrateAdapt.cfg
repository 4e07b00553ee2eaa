CONSTANTS
    MinBitrate = 2
    MaxBitrate = 8
    DefaultBitrate = 6
    IncreaseStep = 1
    Capacity = 2
SPECIFICATION FairRateSpec
INVARIANT
    RateTypeOK
PROPERTIES
    RaisedOnlyOnGoodNews
    FollowsLastingConditions
CHECK_DEADLOCK FALSE
