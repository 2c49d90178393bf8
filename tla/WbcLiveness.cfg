SPECIFICATION ZFairSpec
CONSTANTS
    StandupModes <- InternalOnly
    BaseSources <- FixedOnly
    StandTime = 1
    HandoverTime = 1
    RampTime = 2
    LieTime = 1
    HomeWait = 1
    LowLimit = 1
    SportLimit = 1
    MoveCmd = 2
PROPERTIES
    StopEnds
    HandoverEnds
    LostViewEndsControl
    ZeroHoldsInRollout
CHECK_DEADLOCK FALSE
