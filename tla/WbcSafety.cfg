SPECIFICATION Spec
CONSTANTS
    StandupModes <- AllStandupModes
    BaseSources <- AllBaseSources
    StandTime = 2
    HandoverTime = 2
    RampTime = 2
    LieTime = 1
    HomeWait = 1
    LowLimit = 1
    SportLimit = 1
    MoveCmd = 2
INVARIANTS
    TypeOK
    BaseMovesOnlyAfterHandover
    PolicyRunsOnStandingLegs
    HardStopIsFinal
    ArmGoesHomeOnce
    HeldLegsAreWatched
PROPERTIES
    StopOnlyMovesForward
    StopNeverSpeedsUp
    LegsNeverDropped
    KeepsStopProtocol
CHECK_DEADLOCK FALSE
