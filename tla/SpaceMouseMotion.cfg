SPECIFICATION Spec
CONSTANTS
    get_max_k = 3
    Spare = 1
    get_time_budget = 1
    NumKeys = 2
    MaxPuts = 5
    MaxTime = 2
    sm_watchdog_sec = 1
    MaxEvents = 2
INVARIANTS
    TypeOK
    CopiesWhole
    EachMotionOnce
PROPERTIES
    NoMotionLost
CHECK_DEADLOCK FALSE
