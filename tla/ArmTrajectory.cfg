\* A tick is 25 ms: Half = 1 is avg_window_s / 2, and a trajectory may only
\* start at tick 5.  Calls may come before and after that time.  Near = 1 makes
\* the 1 ms of set_joint_cmd a whole tick, so that commands fall before, inside
\* and after it.
SPECIFICATION Spec
CONSTANTS
    Clients <- MCClients
    Positions <- MCPositions
    StampSet <- MCStamps
    Trajs <- MCTrajs
    Half = 1
    Near = 1
    Preview <- MCPreview
    HomeWait = 2
    StartTime = 4
    MaxTime = 9
    MaxCommands = 3
INVARIANTS
    TypeOK
    LookupDefined
    VelocityWindows
    AppendKeepsEarlier
PROPERTIES
    ContinuesFromHere
    WaypointsReached
CHECK_DEADLOCK FALSE
