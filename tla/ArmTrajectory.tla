--------------------------- MODULE ArmTrajectory ---------------------------
(***************************************************************************)
(* The trajectory commands of the arm SDK (joint_controller.cpp,           *)
(* cartesian_controller.cpp, reset_to_home and set_to_damping of           *)
(* controller_base.cpp) on the controller's interpolator_, while time      *)
(* passes and the background thread reads it.                              *)
(*                                                                         *)
(* One interpolator is used by one of three clients: a joint controller, a *)
(* Cartesian controller, or a program that uses the class by itself (the   *)
(* only one that calls append_waypoint and append_traj).  A command is cut *)
(* where time may pass between its steps: the clock is read first, inverse *)
(* kinematics take time, and cmd_mutex_ is waited for last.  What happens  *)
(* inside cmd_mutex_ is one step.                                          *)
(*                                                                         *)
(* Bounds: MaxTime ends the clock, MaxCommands the commands.               *)
(***************************************************************************)
EXTENDS JointInterpolator

CONSTANTS
    Clients,        \* among "joint", "cartesian" and "interpolator"
    Positions,      \* joint positions a command may ask for; 0 is home
    StampSet,       \* time stamps a command may carry; 0 means not set
    Trajs,          \* trajectories set_*_traj may be given
    Half,           \* avg_window_s / 2, in ticks
    Near,           \* the most ticks that are less than set_joint_cmd's 1e-3 s
    Preview,        \* default_preview_time of each client
    HomeWait,       \* reset_to_home's wait_time, and its last 0.5 s
    StartTime,      \* the time when the constructor is done
    MaxTime, MaxCommands

ASSUME TrajectoryAssumption ==
    /\ Clients \subseteq {"joint", "cartesian", "interpolator"}
    /\ Positions \subseteq Int /\ 0 \in Positions
    /\ StampSet \subseteq Nat
    /\ Trajs \subseteq Seq(Point)
    /\ Half \in Nat \ {0}
    /\ Near \in Nat
    /\ Preview \in [Clients -> Nat]
    /\ HomeWait \in Nat \ {0}
    /\ StartTime \in Nat \ {0}
    /\ MaxTime \in Nat
    /\ MaxCommands \in Nat

Window == 2 * Half
Waypoints == [pos : Positions, timestamp : StampSet]

VARIABLES
    client,         \* who uses the interpolator, fixed
    now,            \* get_timestamp()
    plan,           \* interpolator_.traj_
    bgStamp,        \* the time update_output_cmd_ has read, 0 outside
    pc,             \* where the calling thread is
    start,          \* start_time, or current_time before the lock
    todo,           \* new_traj: waypoints not looked at yet
    built,          \* joint_traj
    prevStamp,      \* prev_timestamp
    target,         \* the single waypoint of a command
    pass, idx,      \* calc_joint_vel's i and its four indices
    commands        \* how many commands were begun

locals == << start, todo, built, prevStamp, target, pass, idx >>
vars == << client, now, plan, bgStamp, pc, locals, commands >>

Controllers == {"joint", "cartesian"}
Nowhere == At(0, 0)
FirstIdx == << 1, 1, 1, 1 >>

\* init_robot_ has fixed the interpolator where the arm is; the class by
\* itself starts without a trajectory.
Init ==
    /\ client \in Clients
    /\ now = StartTime
    /\ IF client = "interpolator" THEN plan = << >>
       ELSE \E p \in Positions : plan = init_fixed(At(p, StartTime))
    /\ bgStamp = 0 /\ pc = "idle" /\ start = 0
    /\ todo = << >> /\ built = << >> /\ prevStamp = 0
    /\ target = Nowhere /\ pass = 0 /\ idx = FirstIdx
    /\ commands = 0

-----------------------------------------------------------------------------
(* Time and the background thread. *)

Tick ==
    /\ now < MaxTime
    /\ now' = now + 1
    /\ UNCHANGED << client, plan, bgStamp, pc, locals, commands >>

\* update_output_cmd_ reads the clock, then waits for cmd_mutex_ and looks the
\* position up.  An exception here would end the process: see LookupDefined.
BgReadClock ==
    /\ client # "interpolator" /\ bgStamp = 0
    /\ bgStamp' = now
    /\ UNCHANGED << client, now, plan, pc, locals, commands >>

BgLookup ==
    /\ bgStamp # 0
    /\ bgStamp' = 0
    /\ UNCHANGED << client, now, plan, pc, locals, commands >>

-----------------------------------------------------------------------------
(* Single waypoints. *)

Begin(users) ==
    /\ pc = "idle" /\ client \in users /\ commands < MaxCommands
    /\ commands' = commands + 1

Reset == /\ start' = 0 /\ todo' = << >> /\ built' = << >> /\ prevStamp' = 0
         /\ target' = Nowhere /\ pass' = 0 /\ idx' = FirstIdx

WithStamp(w) == IF w.timestamp = 0 THEN [w EXCEPT !.timestamp = now + Preview[client]] ELSE w

set_joint_cmd(w) ==
    /\ Begin({"joint"})
    /\ start' = now
    /\ target' = WithStamp(w)
    /\ pc' = "lockCmd"
    /\ UNCHANGED << client, now, plan, bgStamp, todo, built, prevStamp, pass, idx >>

set_eef_cmd(w) ==
    /\ Begin({"cartesian"})
    /\ target' = w
    /\ pc' = "solveCmd"
    /\ UNCHANGED << client, now, plan, bgStamp, start, todo, built, prevStamp, pass, idx >>

\* multi_trial_ik has an answer: the stamp is set after it, and a failure is
\* only logged.
SolveCmd ==
    /\ pc = "solveCmd"
    /\ \/ /\ target' = WithStamp(target)
          /\ pc' = "lockCmd"
          /\ UNCHANGED << start, todo, built, prevStamp, pass, idx >>
       \/ pc' = "idle" /\ Reset
    /\ UNCHANGED << client, now, plan, bgStamp, commands >>

\* abs(new_cmd.timestamp - current_time) < 1e-3, in set_joint_cmd only: the last
\* waypoint of reset_to_home is locked with start = 0.
IsNear ==
    /\ client = "joint" /\ start # 0
    /\ target.timestamp - start <= Near /\ start - target.timestamp <= Near

\* A target near the time read first replaces the whole trajectory with its own
\* stamp, which may still lie ahead; any other target throws when it is late by
\* now, or when the trajectory itself still lies ahead.
LockCmd ==
    /\ pc = "lockCmd"
    /\ plan' = IF IsNear
               THEN init_fixed(target)
               ELSE IF WaypointRefused(plan, now, target) THEN plan
               ELSE override_waypoint(plan, now, target)
    /\ pc' = "idle" /\ Reset
    /\ UNCHANGED << client, now, bgStamp, commands >>

\* reset_to_home: the target's stamp is taken before the lock; init throws
\* when the wait was longer than the motion.
reset_to_home ==
    /\ Begin(Controllers)
    /\ target' = At(0, now + HomeWait)
    /\ pc' = "lockHome"
    /\ UNCHANGED << client, now, plan, bgStamp, start, todo, built, prevStamp, pass, idx >>

LockHome ==
    /\ pc = "lockHome"
    /\ IF target.timestamp <= now
       THEN plan' = plan /\ pc' = "idle" /\ Reset
       ELSE /\ \E p \in Positions : plan' = init(At(p, now), target)
            /\ pc' = "homing"
            /\ UNCHANGED locals
    /\ UNCHANGED << client, now, bgStamp, commands >>

\* The gain ramp of reset_to_home is over.
HomeReached ==
    /\ pc = "homing"
    /\ target' = At(0, now + HomeWait)
    /\ pc' = "lockCmd"
    /\ UNCHANGED << client, now, plan, bgStamp, start, todo, built, prevStamp, pass, idx, commands >>

\* Or set_gain throws in the ramp: the trajectory home stays, the rest of
\* reset_to_home is not executed.
HomeRefused ==
    /\ pc = "homing"
    /\ pc' = "idle" /\ Reset
    /\ UNCHANGED << client, now, plan, bgStamp, commands >>

set_to_damping ==
    /\ Begin(Controllers)
    /\ \E p \in Positions : plan' = init_fixed(At(p, now))
    /\ UNCHANGED << client, now, bgStamp, pc, locals >>

-----------------------------------------------------------------------------
(* Trajectories. *)

\* Three points of the old trajectory start the new one; interpolate throws
\* when the first of them would be at or before time 0.
BeginTraj(new) ==
    /\ Begin(Controllers)
    /\ IF now - 2 * Window <= 0
       THEN UNCHANGED << pc, locals >>
       ELSE /\ start' = now
            /\ built' = << CurrentState(plan, now - 2 * Window),
                           CurrentState(plan, now - Window), CurrentState(plan, now) >>
            /\ todo' = new /\ prevStamp' = 0
            /\ pc' = "collect"
            /\ UNCHANGED << target, pass, idx >>
    /\ UNCHANGED << client, now, plan, bgStamp >>

\* One turn of the loop over new_traj: a point that is not after start_time is
\* skipped (one without a stamp too), one out of order throws, one without a
\* solution is skipped.  The joint controller needs no solution.
Collect_AnyOrder ==
    /\ pc = "collect" /\ todo # << >>
    /\ LET w == Head(todo)
           next == todo' = Tail(todo) /\ UNCHANGED << pc, start, target, pass, idx >>
       IN  IF w.timestamp <= start THEN next /\ UNCHANGED << built, prevStamp >>
           ELSE \/ next /\ built' = Append(built, w) /\ prevStamp' = w.timestamp
                \/ client = "cartesian" /\ next /\ UNCHANGED << built, prevStamp >>
    /\ UNCHANGED << client, now, plan, bgStamp, commands >>

Collect ==
    /\ pc = "collect" /\ todo # << >>
    /\ LET w == Head(todo)
           next == todo' = Tail(todo) /\ UNCHANGED << pc, start, target, pass, idx >>
       IN  IF w.timestamp <= start THEN next /\ UNCHANGED << built, prevStamp >>
           ELSE IF w.timestamp <= prevStamp THEN pc' = "idle" /\ Reset
           ELSE \/ next /\ built' = Append(built, w) /\ prevStamp' = w.timestamp
                \/ client = "cartesian" /\ next /\ UNCHANGED << built, prevStamp >>
    /\ UNCHANGED << client, now, plan, bgStamp, commands >>

Collected ==
    /\ pc = "collect" /\ todo = << >>
    /\ pc' = "velocity" /\ pass' = 1
    /\ idx' = calc_joint_vel(built, 1, FirstIdx, Half)
    /\ UNCHANGED << client, now, plan, bgStamp, start, todo, built, prevStamp, target, commands >>

NextVelocity ==
    /\ pc = "velocity" /\ pass < Len(built)
    /\ pass' = pass + 1
    /\ idx' = calc_joint_vel(built, pass + 1, idx, Half)
    /\ UNCHANGED << client, now, plan, bgStamp, pc, start, todo, built, prevStamp, target, commands >>

\* set_eef_traj reads the clock for override_traj before it waits for the lock.
VelocityDone ==
    /\ pc = "velocity" /\ pass = Len(built)
    /\ pc' = "lockTraj"
    /\ start' = now
    /\ UNCHANGED << client, now, plan, bgStamp, todo, built, prevStamp, target, pass, idx, commands >>

\* set_joint_traj reads it inside the lock.
TrajTime == IF client = "cartesian" THEN start ELSE now

LockTraj ==
    /\ pc = "lockTraj"
    /\ plan' = IF TrajRefused(plan, TrajTime, built) \/ TrajIgnored(TrajTime, built)
               THEN plan
               ELSE override_traj(plan, TrajTime, built)
    /\ pc' = "idle" /\ Reset
    /\ UNCHANGED << client, now, bgStamp, commands >>

-----------------------------------------------------------------------------
(* The class used by itself. *)

UseInit(p, w) ==
    /\ Begin({"interpolator"})
    /\ plan' = IF w.timestamp <= now THEN plan ELSE init(At(p, now), w)
    /\ UNCHANGED << client, now, bgStamp, pc, locals >>

UseWaypoint(w) ==
    /\ Begin({"interpolator"})
    /\ IF WaypointRefused(plan, now, w) THEN plan' = plan
       ELSE plan' \in {append_waypoint(plan, now, w), override_waypoint(plan, now, w)}
    /\ UNCHANGED << client, now, bgStamp, pc, locals >>

UseTraj(new) ==
    /\ Begin({"interpolator"})
    /\ IF TrajRefused(plan, now, new) \/ TrajIgnored(now, new) THEN plan' = plan
       ELSE plan' \in {append_traj(plan, now, new), override_traj(plan, now, new)}
    /\ UNCHANGED << client, now, bgStamp, pc, locals >>

Next ==
    \/ Tick \/ BgReadClock \/ BgLookup
    \/ \E w \in Waypoints : set_joint_cmd(w) \/ set_eef_cmd(w) \/ UseWaypoint(w)
    \/ SolveCmd \/ LockCmd
    \/ reset_to_home \/ LockHome \/ HomeReached \/ HomeRefused \/ set_to_damping
    \/ \E new \in Trajs : BeginTraj(new) \/ UseTraj(new)
    \/ Collect \/ Collected \/ NextVelocity \/ VelocityDone \/ LockTraj
    \/ \E p \in Positions, w \in Waypoints : UseInit(p, w)

Spec == Init /\ [][Next]_vars

-----------------------------------------------------------------------------
(* What the commands guarantee. *)

Indices == Nat \ {0}
TypeOK ==
    /\ client \in Clients
    /\ now \in Nat \ {0} /\ plan \in Seq(Point) /\ bgStamp \in Nat
    /\ pc \in {"idle", "solveCmd", "lockCmd", "lockHome", "homing",
               "collect", "velocity", "lockTraj"}
    /\ start \in Nat /\ todo \in Seq(Point) /\ built \in Seq(Point)
    /\ prevStamp \in Int /\ target \in Point
    /\ pass \in Nat /\ idx \in Indices \X Indices \X Indices \X Indices
    /\ commands \in Nat

Defined(traj, t) ==
    \/ Len(traj) = 1 \/ t <= traj[1].timestamp \/ t >= Final(traj).timestamp
    \/ \E i \in 1 .. Len(traj) - 1 :
          /\ Covers(traj, i, t)
          /\ \A j \in 1 .. i - 1 : ~Covers(traj, j, t)
          /\ traj[i].timestamp < traj[i + 1].timestamp

\* Whatever sequence of commands was given, and however long ago the time was
\* read, looking up a position neither fails ("Interpolation failed", "Empty
\* trajectory": an exception in the background thread ends the process) nor
\* divides by the length of a segment that takes no time, and the trajectory
\* stays in the order of time.  Equal time stamps, which append_traj and
\* override_traj let pass, must never be the segment that interpolate picks.
LookupDefined ==
    /\ client # "interpolator" => plan # << >>
    /\ Ascending(plan)
    /\ plan # << >> => \A t \in 1 .. MaxTime : Defined(plan, t)

\* The assertion of calc_joint_vel holds on every trajectory that set_joint_traj
\* and set_eef_traj build, in every pass: the windows are ordered, so the
\* divisions have a denominator above zero.
VelocityWindows ==
    pc = "velocity" =>
        /\ idx[1] <= idx[2] /\ idx[2] < idx[3] /\ idx[3] <= idx[4]
        /\ idx[4] <= Len(built)
        /\ built[idx[2]].timestamp < built[idx[3]].timestamp
        /\ built[idx[1]].timestamp < built[idx[4]].timestamp

\* The position one is told to go to just after time t.
After(traj, t) ==
    IF t < traj[1].timestamp THEN traj[1].pos
    ELSE IF t >= Final(traj).timestamp THEN Final(traj).pos
    ELSE LET k == Leading(traj, t + 1) IN OnSegment(traj[k], traj[k + 1], t)

Reached(traj, w) == After(traj, w.timestamp) = w.pos

\* A waypoint or trajectory command never makes the arm jump: at the time it
\* works with, the new trajectory starts where the old one is, unless the
\* caller asks for a position at exactly that time.
ContinuesFromHere ==
    [][ (plan' # plan /\ pc \in {"lockCmd", "lockTraj"} /\ Len(plan') > 1)
        => LET t == IF pc = "lockTraj" THEN TrajTime ELSE now
           IN  \/ After(plan', t) = interpolate(plan, t)
               \/ plan'[2].timestamp = t ]_vars

\* A trajectory that passed the checks, however long its solutions took, is
\* followed to the letter: at the time of each waypoint that is still to come
\* when the lock is taken, the command is that waypoint.  The lock refuses it in
\* one case only ("Current time must be no less than start time"): set_joint_cmd
\* has just fixed a position whose stamp is not due for another Near ticks at
\* most, and that position stays.
WaypointsReached ==
    [][ (pc = "lockTraj" /\ pc' = "idle")
        => IF TrajRefused(plan, TrajTime, built)
           THEN /\ client = "joint" /\ Len(plan) = 1 /\ plan' = plan
                /\ TrajTime < plan[1].timestamp /\ plan[1].timestamp <= TrajTime + Near
           ELSE \A i \in 1 .. Len(built) :
                 built[i].timestamp >= TrajTime => Reached(plan', built[i]) ]_vars

\* Appending leaves the commands before the new points alone and then follows
\* them, whatever the trajectory was.
AppendKeepsEarlier ==
    (client = "interpolator" /\ plan # << >>) =>
        /\ \A w \in Waypoints : ~WaypointRefused(plan, now, w) =>
              LET new == append_waypoint(plan, now, w)
              IN  /\ Reached(new, w)
                  /\ \A t \in now + 1 .. w.timestamp - 1 : \A i \in 1 .. Len(plan) :
                        plan[i].timestamp = t => After(new, t) = After(plan, t)
        /\ \A traj \in Trajs : (~TrajRefused(plan, now, traj) /\ ~TrajIgnored(now, traj)) =>
              LET pending == Pending(now, traj)
                  new == append_traj(plan, now, traj)
              IN  /\ Reached(new, Final(pending))
                  /\ \A t \in now + 1 .. pending[1].timestamp - 1 : \A i \in 1 .. Len(plan) :
                        plan[i].timestamp = t => After(new, t) = After(plan, t)
=============================================================================
