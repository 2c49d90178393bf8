SPECIFICATION FairSpec
CONSTANTS
    NMotors = 1
    PosMax = 0
    VelStep = 1
    JumpThreshold = 0
    OverMax = 1
    SleepPasses = 2
    Feedback = {"ok", "over", "bad"}
    ClientGains = {"zero", "stiff"}
    RampGain = "soft"
PROPERTIES OverCurrentDamps
CHECK_DEADLOCK FALSE
