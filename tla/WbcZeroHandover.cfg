SPECIFICATION ZSpec
CONSTANTS
    StandupModes <- InternalOnly
    BaseSources <- FixedOnly
    StandTime = 1
    HandoverTime = 2
    RampTime = 3
    LieTime = 1
    HomeWait = 1
    LowLimit = 1
    SportLimit = 0
    MoveCmd = 3
PROPERTIES
    ZeroHolds
CHECK_DEADLOCK FALSE
