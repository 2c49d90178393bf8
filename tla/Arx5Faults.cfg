SPECIFICATION FairSpec
CONSTANTS
    NMotors = 2
    PosMax = 1
    VelStep = 1
    JumpThreshold = 0
    OverMax = 1
    SleepPasses = 2
    Feedback = {"ok", "over", "bad"}
    ClientGains = {"zero", "stiff"}
    RampGain = "soft"
PROPERTIES GainTakesEffect DampingTakesEffect CallsReturn OverCurrentCaught
CHECK_DEADLOCK FALSE
