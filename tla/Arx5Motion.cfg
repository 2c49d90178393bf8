SPECIFICATION Spec
CONSTANTS
    NMotors = 2
    PosMax = 4
    VelStep = 1
    JumpThreshold = 0
    OverMax = 0
    SleepPasses = 2
    Feedback = {"ok"}
    ClientGains = {"stiff"}
    RampGain = "soft"
INVARIANTS TypeOK DampedBeforeRead ExitDamped
PROPERTIES NoJumpUnlessRefused
CHECK_DEADLOCK FALSE
