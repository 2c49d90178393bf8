SPECIFICATION Spec
CONSTANTS
    NMotors = 2
    PosMax = 3
    VelStep = 1
    JumpThreshold = 0
    OverMax = 0
    SleepPasses = 2
    Feedback = {"ok"}
    ClientGains = {"zero", "stiff"}
    RampGain = "soft"
PROPERTIES NoJump
CHECK_DEADLOCK FALSE
