----------------------------- MODULE WbcControl -----------------------------
(***************************************************************************)
(* The leg controller of the robot: the ROS 2 node of                      *)
(* real-wbc/modules/wbc_node_leg12_arm_passthrough.py.  rclpy.spin runs one *)
(* callback at a time, so every callback is one atomic action here:         *)
(*                                                                         *)
(*   LowState, SportState   the subscriptions on the robot's state          *)
(*   PressL1 .. PressY      joy_stick_cb, one action per button             *)
(*   PolicyTimer            policy_timer_callback (1 ms)                    *)
(*   MotorTimer             motor_timer_callback (2 ms)                     *)
(*   Tick                   time.monotonic() advances                       *)
(*   Interrupt              Ctrl-C ends rclpy.spin                          *)
(*                                                                         *)
(* Time is counted in abstract units.  Where the code keeps a timestamp and *)
(* compares its age with a limit, the model keeps the age.  It stops        *)
(* counting at the limit, which the code does not: past it no comparison of *)
(* the code changes its answer, and the state space stays finite.           *)
(* A leg command is named by the branch that wrote it (joint targets and    *)
(* gains are left out) and the base command is one number instead of        *)
(* (vx, vy, yaw).                                                           *)
(*                                                                         *)
(* An operator Op_Variant is Op with a slip a programmer could make; no     *)
(* action uses it.  With it in Op's place TLC finds a property violated.    *)
(***************************************************************************)
EXTENDS Integers

CONSTANTS
    StandupModes,   \* the values of --standup-mode to consider
    BaseSources,    \* the values of --base-command-source to consider
    StandTime,      \* active_getup_total_time
    HandoverTime,   \* policy_handover_duration
    RampTime,       \* policy_command_ramp_duration
    LieTime,        \* getup_stand_time + getup_hold_time
    HomeWait,       \* graceful_arm_home_wait_time
    LowLimit,       \* lowstate_watchdog_sec
    SportLimit,     \* sport_state_watchdog_sec
    MoveCmd         \* policy_move_commands, also the largest joystick command

ASSUME ModesAssumption ==
    /\ StandupModes \subseteq {"internal", "pose_test"}
    /\ BaseSources \subseteq {"fixed", "wireless_joystick"}

ASSUME TimesAssumption ==
    /\ StandTime \in Nat \ {0} /\ HandoverTime \in Nat /\ RampTime \in Nat
    /\ LieTime \in Nat \ {0} /\ HomeWait \in Nat \ {0}
    /\ LowLimit \in Nat /\ SportLimit \in Nat

ASSUME MoveCmdAssumption == MoveCmd \in Nat

VARIABLES
    standupMode, baseSource,   \* read once from the command line
    phase,                     \* graceful_stop_phase
    startPolicy, alignActive, poseTest, motionStarted,
    standAge,                  \* age of start_time; -1 stands for start_time = -1.0
    policyAge,                 \* age of start_policy_time
    stopAge, zeroTime,         \* graceful_stop_start_time, .._zero_duration
    cmd,                       \* fixed_commands, what the policy is told to walk
    cmdStart, cmdTarget,       \* policy_command_start, policy_command_target
    rampAge, rampTime,         \* policy_command_ramp_start_time, .._current_ramp_duration
    inhibited,                 \* command_safety_filter.joystick_inhibited
    tick,                      \* latest_tick # -1
    lowAge,                    \* age of last_lowstate_time
    sport, sportAge,           \* the last SportModeState and its age
    faulted,                   \* safety_stop_reason # ""
    buffer,                    \* cmd_msg: the leg command waiting to be sent
    out,                       \* the last leg command on the wire
    homes,                     \* /arm/home messages published
    estop,                     \* /safety/estop was published
    exited                     \* the process has ended

config  == <<standupMode, baseSource>>
request == <<startPolicy, alignActive, poseTest, motionStarted, standAge, policyAge>>
stop    == <<phase, stopAge, zeroTime>>
ramp    == <<cmdStart, cmdTarget, rampAge, rampTime>>
sensed  == <<tick, lowAge, sport, sportAge>>
wire    == <<buffer, out>>
sent    == <<homes, estop>>
vars    == <<config, request, stop, cmd, ramp, inhibited, sensed, faulted, wire,
             sent, exited>>

StopPhases == {"zeroing", "lying_down", "arm_home", "complete"}
Phases     == StopPhases \cup {"idle", "hard_stop"}

\* The branches that fill the leg command.  "posstop" has no gains at all,
\* "passive" only damping, and the others hold the legs with a position loop.
Stiff    == {"stand", "pose", "align", "policy", "lie"}
Commands == Stiff \cup {"posstop", "passive"}

TypeOK ==
    /\ standupMode \in StandupModes /\ baseSource \in BaseSources
    /\ phase \in Phases
    /\ startPolicy \in BOOLEAN /\ alignActive \in BOOLEAN /\ poseTest \in BOOLEAN
    /\ motionStarted \in BOOLEAN /\ inhibited \in BOOLEAN
    /\ standAge \in -1 .. StandTime
    /\ policyAge \in 0 .. HandoverTime
    /\ stopAge \in Nat /\ zeroTime \in {0, RampTime}
    /\ cmd \in Int /\ cmdStart \in Int /\ cmdTarget \in Int
    /\ rampAge \in 0 .. RampTime /\ rampTime \in {0, RampTime}
    /\ tick \in BOOLEAN /\ lowAge \in 0 .. LowLimit + 1
    /\ sport \in {"unseen", "clear", "conflict"} /\ sportAge \in 0 .. SportLimit + 1
    /\ faulted \in BOOLEAN
    /\ buffer \in Commands /\ out \in Commands \cup {"none"}
    /\ homes \in Nat /\ estop \in BOOLEAN /\ exited \in BOOLEAN

Init ==
    /\ standupMode \in StandupModes /\ baseSource \in BaseSources
    /\ phase = "idle" /\ stopAge = 0 /\ zeroTime = 0
    /\ startPolicy = FALSE /\ alignActive = FALSE /\ poseTest = FALSE
    /\ motionStarted = FALSE
    /\ standAge = -1 /\ policyAge = 0
    /\ cmd = 0 /\ cmdStart = 0 /\ cmdTarget = 0
    /\ rampAge = 0 /\ rampTime = RampTime
    /\ inhibited = FALSE
    /\ tick = FALSE /\ lowAge = LowLimit + 1
    /\ sport = "unseen" /\ sportAge = SportLimit + 1
    /\ faulted = FALSE
    /\ buffer = "posstop" /\ out = "none"
    /\ homes = 0 /\ estop = FALSE /\ exited = FALSE

-----------------------------------------------------------------------------
(* Conditions the callbacks share.                                         *)

Between(a, b) == IF a <= b THEN a .. b ELSE b .. a

\* The age of a timestamp one unit later.  Stopping at the limit is the model's.
Older(age, limit) == IF age < limit THEN age + 1 ELSE age

Requested == startPolicy \/ alignActive \/ poseTest \/ standAge # -1

low_level_control_active ==
    \/ Requested
    \/ phase \in StopPhases
    \/ standupMode = "internal" /\ tick /\ ~faulted

is_low_level_control_safe_Ignored == TRUE

\* A SportModeState counts against the node only while it is fresh.
is_low_level_control_safe == sport = "conflict" => sportAge > SportLimit

check_runtime_control_gates == lowAge <= LowLimit /\ is_low_level_control_safe

ready_to_start_policy_AnyStand == tick

ready_to_start_policy ==
    tick /\ (standupMode = "internal" => standAge >= StandTime)

\* smoothstep(k / d) in fractions of d^3, and the blend built on it.
Smooth(k, d) == k * k * (3 * d - 2 * k)
Blend(a, b, k, d) == IF k >= d THEN b ELSE a + ((b - a) * Smooth(k, d)) \div (d * d * d)

-----------------------------------------------------------------------------
(* trigger_safety_stop.  It leaves the ramp, the stop's clock, the joystick *)
(* inhibition and the subscriptions' state to the caller.                   *)

trigger_safety_stop ==
    /\ faulted' = TRUE
    /\ phase' = "hard_stop"
    /\ startPolicy' = FALSE /\ alignActive' = FALSE /\ poseTest' = FALSE
    /\ motionStarted' = FALSE
    /\ standAge' = -1
    /\ cmd' = 0
    /\ buffer' = "posstop" /\ out' = "posstop"
    /\ estop' = TRUE
    /\ UNCHANGED <<config, policyAge, stopAge, zeroTime, homes, exited>>

GateFault ==
    /\ ~check_runtime_control_gates
    /\ trigger_safety_stop
    /\ UNCHANGED <<ramp, inhibited, sensed>>

-----------------------------------------------------------------------------
(* Subscriptions.                                                          *)

\* The message passes every check of lowlevel_state_cb.
LowStateGood ==
    /\ tick' = TRUE /\ lowAge' = 0
    /\ UNCHANGED <<config, request, stop, cmd, ramp, inhibited, sport, sportAge,
                   faulted, wire, sent, exited>>

\* It fails one: too few motors (before latest_tick is set), a bad value
\* (before last_lowstate_time is set), or the velocity estimate (after both).
LowStateBad(check) ==
    /\ trigger_safety_stop
    /\ tick' = (tick \/ check # "motor_count")
    /\ lowAge' = IF check = "estimate" THEN 0 ELSE lowAge
    /\ UNCHANGED <<ramp, inhibited, sport, sportAge>>

LowState ==
    /\ ~exited
    /\ \/ LowStateGood
       \/ \E check \in {"motor_count", "value", "estimate"} : LowStateBad(check)

SportState ==
    /\ ~exited
    /\ sport' \in {"clear", "conflict"} /\ sportAge' = 0
    /\ UNCHANGED <<config, request, stop, cmd, ramp, inhibited, tick, lowAge,
                   faulted, wire, sent, exited>>

-----------------------------------------------------------------------------
(* Buttons.  joy_stick_cb debounces each; a press here is one that passed.  *)

\* Once a stop has begun every button but L1 is ignored.
ButtonsLive_Always == ~exited
ButtonsLive == ~exited /\ phase = "idle"

set_policy_command_target(start, target, duration) ==
    /\ cmdStart' = start /\ cmdTarget' = target
    /\ rampAge' = 0 /\ rampTime' = duration

\* start(): R1 begins the internal stand-up, or repeats a finished one.
PressR1 ==
    /\ ButtonsLive /\ standupMode = "internal"
    /\ tick /\ is_low_level_control_safe
    /\ ~startPolicy
    /\ standAge = -1 \/ standAge >= StandTime
    /\ standAge' = 0
    /\ UNCHANGED <<config, startPolicy, alignActive, poseTest, motionStarted, policyAge,
                   stop, cmd, ramp, inhibited, sensed, faulted, wire, sent, exited>>

PressR2_ForgetsStand ==
    /\ ButtonsLive
    /\ startPolicy' = FALSE /\ alignActive' = FALSE /\ poseTest' = FALSE
    /\ motionStarted' = FALSE
    /\ standAge' = -1
    /\ cmd' = 0 /\ cmdStart' = 0
    /\ UNCHANGED <<config, policyAge, stop, cmdTarget, rampAge, rampTime,
                   inhibited, sensed, faulted, wire, sent, exited>>

PressR2 ==
    /\ ButtonsLive
    /\ startPolicy' = FALSE /\ alignActive' = FALSE /\ poseTest' = FALSE
    /\ motionStarted' = FALSE
    /\ cmd' = 0 /\ cmdStart' = 0
    /\ UNCHANGED <<config, standAge, policyAge, stop, cmdTarget, rampAge, rampTime,
                   inhibited, sensed, faulted, wire, sent, exited>>

\* L2 during a fixed-speed rollout, once the handover is over.
ResumeMoving ==
    /\ startPolicy /\ baseSource = "fixed" /\ motionStarted
    /\ set_policy_command_target(cmd, MoveCmd, RampTime)
    /\ UNCHANGED <<request, cmd>>

start_pose_test ==
    /\ ~startPolicy /\ ~poseTest /\ ~alignActive
    /\ standupMode = "pose_test"
    /\ tick /\ is_low_level_control_safe
    /\ poseTest' = TRUE
    /\ UNCHANGED <<startPolicy, alignActive, motionStarted, standAge, policyAge, cmd, ramp>>

start_policy_alignment ==
    /\ ~startPolicy /\ ~poseTest /\ ~alignActive
    /\ standupMode = "internal" /\ ready_to_start_policy
    /\ is_low_level_control_safe
    /\ alignActive' = TRUE /\ motionStarted' = FALSE
    /\ cmd' = 0 /\ cmdStart' = 0 /\ cmdTarget' = 0 /\ rampAge' = 0
    /\ UNCHANGED <<startPolicy, poseTest, standAge, policyAge, rampTime>>

\* Both starts also ask that the arm is ready (is_arm_state_ready_for_rl): an
\* L2 refused for that is a step that does nothing, and is left out.
PressL2 ==
    /\ ButtonsLive
    /\ ResumeMoving \/ start_pose_test \/ start_policy_alignment
    /\ UNCHANGED <<config, stop, inhibited, sensed, faulted, wire, sent, exited>>

PressY ==
    /\ ButtonsLive
    /\ \/ /\ baseSource = "wireless_joystick"
          /\ inhibited' = TRUE
          /\ UNCHANGED ramp
       \/ /\ baseSource = "fixed"
          /\ set_policy_command_target(cmd, 0, RampTime)
          /\ UNCHANGED inhibited
    /\ UNCHANGED <<config, request, stop, cmd, sensed, faulted, wire, sent, exited>>

StopAtRest_KeepsZeroing ==
    /\ startPolicy' = FALSE /\ standAge' = -1 /\ cmd' = 0
    /\ buffer' = IF tick THEN "passive" ELSE buffer
    /\ homes' = homes + 1
    /\ phase' = "zeroing"

\* request_graceful_stop with nothing to lower: passive legs, the arm goes home.
StopAtRest ==
    /\ startPolicy' = FALSE /\ standAge' = -1 /\ cmd' = 0
    /\ buffer' = IF tick THEN "passive" ELSE buffer
    /\ homes' = homes + 1
    /\ phase' = "complete"

StopInMotion_SendsHome ==
    /\ phase' = "zeroing" /\ homes' = homes + 1
    /\ UNCHANGED <<startPolicy, standAge, cmd, buffer>>

\* request_graceful_stop while the legs are held: first ramp the base to zero.
StopInMotion ==
    /\ phase' = "zeroing"
    /\ UNCHANGED <<startPolicy, standAge, cmd, buffer, homes>>

request_graceful_stop ==
    /\ phase = "idle"
    /\ LET duration == IF startPolicy THEN RampTime ELSE 0
       IN  zeroTime' = duration /\ set_policy_command_target(cmd, 0, duration)
    /\ stopAge' = 0
    /\ alignActive' = FALSE /\ poseTest' = FALSE
    /\ IF tick /\ Requested THEN StopInMotion ELSE StopAtRest
    /\ UNCHANGED <<config, motionStarted, policyAge, inhibited, sensed, faulted, out,
                   estop, exited>>

\* The second L1: estop is published and the process exits on the spot.
emergency_stop ==
    /\ phase # "idle"
    /\ estop' = TRUE /\ exited' = TRUE
    /\ UNCHANGED <<config, request, stop, cmd, ramp, inhibited, sensed, faulted, wire,
                   homes>>

PressL1 == ~exited /\ (request_graceful_stop \/ emergency_stop)

-----------------------------------------------------------------------------
(* policy_timer_callback, in the order of its branches.                    *)

PolicyTimerIdle_DuringPolicy ==
    standupMode = "internal" /\ ~alignActive /\ phase = "idle"

\* Nothing was asked of the internal stand-up yet: the callback returns early.
PolicyTimerIdle ==
    /\ standupMode = "internal"
    /\ standAge = -1 /\ ~startPolicy /\ ~alignActive /\ phase = "idle"

\* advance_graceful_stop: the base stands still, lie down from here.
BeginLieDown ==
    /\ phase = "zeroing" /\ stopAge >= zeroTime
    /\ phase' = "lying_down" /\ stopAge' = 0
    /\ startPolicy' = FALSE /\ motionStarted' = FALSE /\ standAge' = -1
    /\ cmd' = 0 /\ cmdStart' = 0 /\ cmdTarget' = 0
    /\ buffer' = "lie"
    /\ UNCHANGED <<alignActive, poseTest, policyAge, zeroTime, rampAge, rampTime, homes>>

KeepLying ==
    /\ \/ phase = "lying_down" /\ stopAge < LieTime
       \/ phase = "arm_home" /\ stopAge < HomeWait
    /\ buffer' = "lie"
    /\ UNCHANGED <<stop, request, cmd, ramp, homes>>

\* run_graceful_lie_down reaches its end: the arm may move now.
SendArmHome ==
    /\ phase = "lying_down" /\ stopAge >= LieTime
    /\ phase' = "arm_home" /\ stopAge' = 0
    /\ buffer' = "lie"
    /\ homes' = homes + 1
    /\ UNCHANGED <<zeroTime, request, cmd, ramp>>

CompleteStop_Misspelt ==
    /\ phase = "arm_home" /\ stopAge >= HomeWait
    /\ phase' = "completed"
    /\ standAge' = -1
    /\ buffer' = "passive"
    /\ UNCHANGED <<startPolicy, alignActive, poseTest, motionStarted, policyAge, stopAge,
                   zeroTime, cmd, ramp, homes>>

CompleteStop ==
    /\ phase = "arm_home" /\ stopAge >= HomeWait
    /\ phase' = "complete"
    /\ standAge' = -1
    /\ buffer' = "passive"
    /\ UNCHANGED <<startPolicy, alignActive, poseTest, motionStarted, policyAge, stopAge,
                   zeroTime, cmd, ramp, homes>>

advance_graceful_stop_NoEnd ==
    /\ BeginLieDown \/ KeepLying \/ SendArmHome
    /\ UNCHANGED inhibited

advance_graceful_stop ==
    /\ BeginLieDown \/ KeepLying \/ SendArmHome \/ CompleteStop
    /\ UNCHANGED inhibited

NotStopping_AfterHardStop ==
    phase \in {"idle", "hard_stop"} \/ (phase = "zeroing" /\ stopAge < zeroTime)

\* advance_graceful_stop lets the rest of the callback run.
NotStopping == phase = "idle" \/ (phase = "zeroing" /\ stopAge < zeroTime)

PoseTestStep ==
    /\ poseTest /\ ~startPolicy
    /\ buffer' = "pose"
    /\ UNCHANGED <<request, stop, cmd, ramp, inhibited, homes>>

\* align_to_policy_duration and .._hold_time are 0.0: one step, then the policy.
AlignStep ==
    /\ alignActive /\ ~poseTest /\ ~startPolicy
    /\ buffer' = "align"
    /\ alignActive' = FALSE /\ motionStarted' = FALSE
    /\ startPolicy' = TRUE /\ policyAge' = 0
    /\ cmd' = 0 /\ set_policy_command_target(0, 0, 0)
    /\ UNCHANGED <<poseTest, standAge, stop, inhibited, homes>>

FixStandStep ==
    /\ ~startPolicy /\ ~alignActive /\ ~poseTest
    /\ buffer' = "stand"
    /\ UNCHANGED <<request, stop, cmd, ramp, inhibited, homes>>

HandoverDone_NoWait     == phase = "idle" /\ ~motionStarted
HandoverDone_InStop     == ~motionStarted /\ policyAge >= HandoverTime
HandoverDone == phase = "idle" /\ ~motionStarted /\ policyAge >= HandoverTime
InHandover   == phase = "idle" /\ ~motionStarted /\ policyAge < HandoverTime

UpdateTarget_Retargets ==
    IF phase = "idle" /\ policyAge >= HandoverTime /\ baseSource = "fixed"
          /\ cmdTarget # MoveCmd
      THEN set_policy_command_target(cmd, MoveCmd, RampTime)
      ELSE UNCHANGED ramp

\* update_policy_commands: what it does to the ramp.  When the handover ends in
\* fixed mode the target becomes the configured speed.
UpdateTarget ==
    IF HandoverDone /\ baseSource = "fixed"
      THEN set_policy_command_target(0, MoveCmd, RampTime)
      ELSE UNCHANGED ramp

\* CommandSafetyFilter.update: the stick position, or zero if the gate is shut,
\* the sticks are inhibited or the input is not valid, approached at the
\* acceleration limit (any value on the way).  A fresh handover restarts at 0.
JoystickCommand(stick, valid, centred) ==
    LET last    == IF HandoverDone THEN 0 ELSE cmd
        gate    == ready_to_start_policy /\ ~alignActive
        desired == IF gate /\ valid /\ ~inhibited' THEN stick ELSE 0
    IN  /\ inhibited' = (inhibited /\ ~centred)
        /\ cmd' \in Between(last, desired)

\* update_policy_commands: what it does to the base command.
UpdateCommand ==
    IF InHandover
      THEN cmd' = 0 /\ UNCHANGED inhibited
    ELSE IF phase = "idle" /\ baseSource = "wireless_joystick"
      THEN \E stick \in 0 .. MoveCmd, valid, centred \in BOOLEAN :
              /\ centred => stick = 0
              /\ JoystickCommand(stick, valid, centred)
      ELSE cmd' = Blend(cmdStart', cmdTarget', rampAge', rampTime') /\ UNCHANGED inhibited

\* The policy branch when its period is due and the output is sound ...
PolicyStep ==
    /\ startPolicy
    /\ UpdateTarget /\ UpdateCommand
    /\ motionStarted' = (motionStarted \/ HandoverDone)
    /\ buffer' = "policy"
    /\ UNCHANGED <<startPolicy, alignActive, poseTest, standAge, policyAge, stop, homes>>

\* ... and when an action or target is not finite.
PolicyFault ==
    /\ startPolicy
    /\ UpdateTarget
    /\ IF phase = "idle" /\ ~InHandover /\ baseSource = "wireless_joystick"
         THEN inhibited' \in {FALSE, inhibited}
         ELSE UNCHANGED inhibited
    /\ trigger_safety_stop
    /\ UNCHANGED sensed

\* Of the checks that a leg command is finite only those of the policy step can
\* fail (PolicyFault): the targets of the other branches blend constants with
\* joint positions that LowState has checked.
PolicyTimer ==
    /\ ~exited /\ ~PolicyTimerIdle
    /\ \/ low_level_control_active /\ GateFault
       \/ /\ low_level_control_active => check_runtime_control_gates
          /\ \/ advance_graceful_stop
             \/ NotStopping /\ (PoseTestStep \/ AlignStep \/ FixStandStep \/ PolicyStep)
          /\ UNCHANGED <<config, sensed, faulted, out, estop, exited>>
       \/ check_runtime_control_gates /\ NotStopping /\ PolicyFault

-----------------------------------------------------------------------------
(* motor_timer_callback.                                                   *)

PassiveWanted_ForgetsStand ==
    \/ phase = "complete"
    \/ phase = "idle" /\ standupMode = "internal" /\ ~startPolicy /\ ~alignActive

\* Nobody asks the legs to be held: damping only, from the measured pose.
PassiveWanted ==
    \/ phase = "complete"
    \/ phase = "idle" /\ standupMode = "internal" /\ ~Requested

Publish ==
    /\ check_runtime_control_gates
    /\ buffer' = IF PassiveWanted THEN "passive" ELSE buffer
    /\ out' = buffer'
    /\ UNCHANGED <<config, request, stop, cmd, ramp, inhibited, sensed, faulted, sent,
                   exited>>

MotorTimer == ~exited /\ low_level_control_active /\ (GateFault \/ Publish)

-----------------------------------------------------------------------------

\* stopAge counts up to the longest wait of the stop sequence.
StopAgeBound == RampTime + LieTime + HomeWait

Tick ==
    /\ ~exited
    /\ standAge' = IF standAge = -1 THEN -1 ELSE Older(standAge, StandTime)
    /\ policyAge' = Older(policyAge, HandoverTime)
    /\ stopAge' = Older(stopAge, StopAgeBound)
    /\ rampAge' = Older(rampAge, RampTime)
    /\ lowAge' = Older(lowAge, LowLimit + 1)
    /\ sportAge' = Older(sportAge, SportLimit + 1)
    /\ UNCHANGED <<config, startPolicy, alignActive, poseTest, motionStarted, phase,
                   zeroTime, cmd, cmdStart, cmdTarget, rampTime, inhibited, tick, sport,
                   faulted, wire, sent, exited>>

\* Ctrl-C: the finally clause of run_wbc_leg12.py sends nothing to the legs.
Interrupt ==
    /\ ~exited
    /\ exited' = TRUE
    /\ UNCHANGED <<config, request, stop, cmd, ramp, inhibited, sensed, faulted, wire, sent>>

Next ==
    \/ LowState \/ SportState
    \/ PressL1 \/ PressR1 \/ PressR2 \/ PressL2 \/ PressY
    \/ PolicyTimer \/ MotorTimer
    \/ Tick \/ Interrupt

Spec == Init /\ [][Next]_vars

\* rclpy.spin keeps calling the timers, and a policy step comes due every
\* policy_dt.  Nothing is assumed of the buttons or of the robot's messages.
Fairness == WF_vars(Tick) /\ WF_vars(PolicyTimer) /\ WF_vars(MotorTimer)

FairSpec == Spec /\ Fairness

-----------------------------------------------------------------------------
(* Safety.                                                                 *)

\* The robot is told to walk only while the policy runs and its zero-speed
\* handover is over: every other way out of the rollout (R2, the stop, a
\* fault, a new L2) has put fixed_commands back to zero.
BaseMovesOnlyAfterHandover ==
    cmd # 0 => startPolicy /\ motionStarted /\ policyAge >= HandoverTime

\* The policy and its alignment run only on legs that R1 stood up and that
\* nothing has let go of since.
PolicyRunsOnStandingLegs == startPolicy \/ alignActive => standAge >= 0

\* A hard stop is final: the legs last heard PosStop without gains, the arm
\* was told to stop, and no callback, late message or button undoes it.
HardStopIsFinal ==
    phase = "hard_stop" => /\ out = "posstop" /\ buffer = "posstop" /\ estop
                           /\ ~Requested /\ cmd = 0

\* At most one /arm/home is sent, only by a stop that has let the legs rest.
ArmGoesHomeOnce ==
    /\ homes <= 1
    /\ phase \in {"arm_home", "complete"} <=> homes = 1 /\ phase # "hard_stop"

\* Legs that hold a position are watched: both timers get as far as the
\* watchdogs of check_runtime_control_gates, whatever buttons, faults and stops
\* have cleared since the command was sent.  R2 out of a pose test is the one
\* exception: nothing is active then, and the pose is no longer sent.
HeldLegsAreWatched ==
    out \in Stiff /\ ~exited =>
        \/ low_level_control_active /\ ~PolicyTimerIdle
        \/ standupMode = "pose_test" /\ phase = "idle" /\ ~Requested

(* What a step may never do.                                               *)

\* After the first L1 the stop only moves forward; neither the buttons nor a
\* timer starts the policy, the pose test or a stand-up again.
StopRank(p) ==
    CASE p = "idle" -> 0 [] p = "zeroing" -> 1 [] p = "lying_down" -> 2
      [] p = "arm_home" -> 3 [] p = "complete" -> 4 [] p = "hard_stop" -> 5

StopOnlyMovesForward ==
    [][/\ StopRank(phase') >= StopRank(phase)
       /\ phase # "idle" =>
            /\ startPolicy' => startPolicy
            /\ standAge' # -1 => standAge # -1
            /\ ~alignActive' /\ ~poseTest']_vars

\* While it stops, the robot is never told to walk faster.
StopNeverSpeedsUp == [][phase # "idle" => cmd' <= cmd]_vars

\* The arm is not sent home after the emergency channel was used.
NoHomeAfterEstop == [][homes' # homes => ~estop]_vars

\* Legs that hold the robot up are never handed over to plain damping: only
\* the lie-down comes before it.  (With --standup-mode internal; see README.)
LegsNeverDropped ==
    [][standupMode = "internal" /\ buffer' = "passive"
         => buffer \in {"posstop", "passive", "lie"}]_vars

-----------------------------------------------------------------------------
(* The controller implements StopProtocol.                                  *)

Stage ==
    CASE exited -> "off"
      [] ~exited /\ phase = "idle" -> "run"
      [] ~exited /\ phase \in {"zeroing", "lying_down"} -> "stopping"
      [] ~exited /\ phase \in {"arm_home", "complete"} -> "homed"
      [] ~exited /\ phase = "hard_stop" -> "hard"

Promise == INSTANCE StopProtocol WITH stage <- Stage, moving <- cmd # 0

\* Every step of the node is a step of the stop protocol, or changes nothing
\* the rest of the robot can see.
KeepsStopProtocol == Promise!Spec

-----------------------------------------------------------------------------
(* Liveness, under Fairness.                                               *)

Ended == phase \in {"complete", "hard_stop"} \/ exited

\* A stop that has begun ends, whatever messages are lost on the way.
StopEnds == (phase # "idle") ~> Ended

\* A policy that was started gets to move, unless it is stopped first.
HandoverEnds == startPolicy ~> (motionStarted \/ ~startPolicy \/ phase # "idle" \/ exited)

\* A controller that is active does not outlive its view of the robot: when
\* LowState stops arriving, or a fresh SportModeState reports that another
\* controller has the motors, the view comes back, the operator releases the
\* legs, or control ends.  A conflict that has aged past the watchdog does not
\* count.
ViewLost ==
    lowAge > LowLimit \/ (sport = "conflict" /\ sportAge <= SportLimit)

LostViewEndsControl ==
    (low_level_control_active /\ ViewLost)
        ~> (~ViewLost \/ ~low_level_control_active \/ Ended)

=============================================================================
