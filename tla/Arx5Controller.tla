--------------------------- MODULE Arx5Controller ---------------------------
(***************************************************************************)
(* The motor controller of the arm SDK, arx5-sdk/src/app/controller_base   *)
(* .cpp: the background thread that runs over-current protection, sanity   *)
(* check and send_recv_ in a loop, and one foreground thread that calls    *)
(* the API (spacemouse_arm_node.py calls it from one executor).            *)
(*                                                                         *)
(* Steps are cut where another thread can get in between: a critical       *)
(* section of cmd_mutex_ or state_mutex_ that is entered and left again    *)
(* without blocking in between is one step, guarded by the mutex being     *)
(* free.  A mutex appears as held only across steps.                       *)
(*                                                                         *)
(* Data: the joint vector is one position 0 .. PosMax (the joint with the  *)
(* largest error); kp is "zero", "soft" (at most kp_threshold) or "stiff"; *)
(* the interpolator is the interval of positions it may still return.      *)
(* Feedback of a pass is "ok", "over" (a torque above joint_torque_max) or *)
(* "bad" (fails the sanity check).                                         *)
(*                                                                         *)
(* Operators named X_Variant (OverCount_OffByOne, ...) are plausible wrong *)
(* versions of the operator X, used only to test the properties.           *)
(***************************************************************************)
EXTENDS Naturals

CONSTANTS
    NMotors,        \* joints of the arm, sent one CAN frame each
    PosMax,         \* positions are 0 .. PosMax, home is 0
    VelStep,        \* joint_vel_max * controller_dt
    JumpThreshold,  \* pos_error_threshold of set_gain
    OverMax,        \* over_current_cnt_max
    SleepPasses,    \* background passes that fit in sleep_ms(10) and sleep_ms(2000)
    Feedback,       \* what the motors may report: "ok", "over", "bad"
    ClientGains,    \* the kp a program passes to set_gain: "zero", "stiff"
    RampGain        \* the kp of the first step of reset_to_home's ramp from zero

ASSUME ControllerAssumption ==
    /\ NMotors \in Nat \ {0}
    /\ PosMax \in Nat
    /\ VelStep \in Nat
    /\ JumpThreshold \in Nat
    /\ OverMax \in Nat
    /\ SleepPasses \in Nat /\ SleepPasses >= 2
    /\ Feedback \subseteq {"ok", "over", "bad"} /\ "ok" \in Feedback
    /\ ClientGains \subseteq {"zero", "stiff"}
    /\ RampGain \in {"soft", "stiff"}

Motors == 1 .. NMotors
Positions == 0 .. PosMax
Gains == {"zero", "soft", "stiff"}
Home == 0

VARIABLES
    cmdMutex, stateMutex,  \* "free", or the thread that holds it across steps
    running, destroyed,    \* background_send_recv_running_, destroy_background_threads_
    gain,                  \* gain_.kp
    plan,                  \* interpolator_: << least, greatest >> position it may return
    out, prevOut,          \* output_joint_cmd_.pos and update_output_cmd_'s copy of it
    joint, load,           \* joint_state_.pos; what the last feedback says
    arm,                   \* where the arm really is
    motor,                 \* the kp each motor was last sent
    overCnt,               \* over_current_cnt_
    bgPc, nextMotor,       \* the background thread
    fgPc, fgArg, fgRead, fgRunning, \* the foreground thread and its locals
    fgReturn,              \* where set_gain returns to
    passes,                \* passes of the background thread since a sleep began
    refused                \* set_gain has thrown

mutexes == << cmdMutex, stateMutex >>
flags == << running, destroyed >>
command == << gain, plan >>
output == << out, prevOut >>
feedback == << joint, load, arm >>
background == << bgPc, nextMotor, overCnt >>
call == << fgArg, fgRead, fgRunning, fgReturn >>
vars == << mutexes, flags, command, output, feedback, motor, background,
           fgPc, call, passes, refused >>

Distance(p, q) == IF p > q THEN p - q ELSE q - p
Near(p) == {q \in Positions : Distance(p, q) <= 1}
Between(p, q) == IF p < q THEN << p, q >> ELSE << q, p >>
Fixed(p) == << p, p >>
PlanPositions == {p \in Positions : plan[1] <= p /\ p <= plan[2]}

\* The constructor has run: init_robot_ has set damping gains, fixed the
\* interpolator at the measured position and sent ten passes.
Init ==
    /\ cmdMutex = "free" /\ stateMutex = "free"
    /\ running = TRUE /\ destroyed = FALSE
    /\ gain = "zero"
    /\ arm \in Positions
    /\ joint = arm /\ out = arm /\ plan = Fixed(arm)
    /\ prevOut = 0
    /\ load = "ok" /\ overCnt = 0
    /\ motor = [m \in Motors |-> "zero"]
    /\ bgPc = "top" /\ nextMotor = 1
    /\ fgPc = "idle" /\ fgArg = "zero" /\ fgRead = 0
    /\ fgRunning = TRUE /\ fgReturn = "idle"
    /\ passes = 0 /\ refused = FALSE

-----------------------------------------------------------------------------
(* The background thread. *)

MinNat(a, b) == IF a < b THEN a ELSE b
PassDone == passes' = MinNat(passes + 1, SleepPasses)

\* running is false: the loop only sleeps.  The arm is moved from outside and
\* no feedback is decoded.
BgIdle ==
    /\ bgPc = "top" /\ ~destroyed /\ ~running
    /\ arm' \in Near(arm)
    /\ PassDone
    /\ UNCHANGED << mutexes, flags, command, output, joint, load, motor,
                    background, fgPc, call, refused >>

BgExit ==
    /\ bgPc = "top" /\ destroyed
    /\ bgPc' = "exited"
    /\ UNCHANGED << mutexes, flags, command, output, feedback, motor,
                    nextMotor, overCnt, fgPc, call, passes, refused >>

OverCount_OffByOne == IF load = "over" /\ overCnt < OverMax THEN overCnt + 1 ELSE 0
OverCount == IF load = "over" THEN overCnt + 1 ELSE 0

over_current_protection_ ==
    /\ bgPc = "top" /\ ~destroyed /\ running
    /\ overCnt' = OverCount
    /\ bgPc' = IF overCnt' > OverMax THEN "emergency" ELSE "sanity"
    /\ UNCHANGED << mutexes, flags, command, output, feedback, motor,
                    nextMotor, fgPc, call, passes, refused >>

\* check_joint_state_sanity_ keeps state_mutex_ while it takes cmd_mutex_ for
\* the interpolator, and while it enters the emergency state.
SanityState ==
    /\ bgPc = "sanity" /\ stateMutex = "free"
    /\ stateMutex' = "bg"
    /\ bgPc' = IF load = "bad" THEN "emergency" ELSE "sanityCmd"
    /\ UNCHANGED << cmdMutex, flags, command, output, feedback, motor,
                    nextMotor, overCnt, fgPc, call, passes, refused >>

SanityCommand ==
    /\ bgPc = "sanityCmd" /\ cmdMutex = "free"
    /\ stateMutex' = "free"
    /\ bgPc' = "interpolate"
    /\ UNCHANGED << cmdMutex, flags, command, output, feedback, motor,
                    nextMotor, overCnt, fgPc, call, passes, refused >>

\* enter_emergency_state_ locks cmd_mutex_ and then calls set_gain, which locks
\* it again.  std::mutex is not recursive: the thread waits for itself at
\* "stuck" and nothing behind that line runs.
enter_emergency_state_ ==
    /\ bgPc = "emergency" /\ cmdMutex = "free"
    /\ cmdMutex' = "bg"
    /\ bgPc' = "stuck"
    /\ UNCHANGED << stateMutex, flags, command, output, feedback, motor,
                    nextMotor, overCnt, fgPc, call, passes, refused >>

\* update_output_cmd_, first half: cmd_mutex_ covers only the interpolation.
Interpolate ==
    /\ bgPc = "interpolate" /\ cmdMutex = "free"
    /\ prevOut' = out
    /\ out' \in PlanPositions
    /\ bgPc' = "clip"
    /\ UNCHANGED << mutexes, flags, command, feedback, motor, nextMotor,
                    overCnt, fgPc, call, passes, refused >>

Toward(p, q) == IF Distance(p, q) <= VelStep THEN q
                ELSE IF q > p THEN p + VelStep ELSE p - VelStep
ClippedOutput_NoFollow == Toward(prevOut, out)
ClippedOutput == IF gain = "zero" THEN joint ELSE Toward(prevOut, out)

\* update_output_cmd_, second half: with kp = 0 the command follows the arm,
\* otherwise it moves by at most VelStep per pass.
ClipOutput ==
    /\ bgPc = "clip" /\ stateMutex = "free"
    /\ out' = ClippedOutput
    /\ prevOut' = 0
    /\ bgPc' = "send" /\ nextMotor' = 1
    /\ UNCHANGED << mutexes, flags, command, feedback, motor, overCnt,
                    fgPc, call, passes, refused >>

SendMotor_SkipsLast ==
    /\ bgPc = "send" /\ cmdMutex = "free"
    /\ motor' = IF nextMotor < NMotors THEN [motor EXCEPT ![nextMotor] = gain] ELSE motor
    /\ IF nextMotor < NMotors
       THEN nextMotor' = nextMotor + 1 /\ bgPc' = "send"
       ELSE nextMotor' = 1 /\ bgPc' = "receive"
    /\ UNCHANGED << mutexes, flags, command, output, feedback, overCnt,
                    fgPc, call, passes, refused >>

SendMotor_OneTooMany ==
    /\ bgPc = "send" /\ cmdMutex = "free"
    /\ motor' = [motor EXCEPT ![nextMotor] = gain]
    /\ IF nextMotor <= NMotors
       THEN nextMotor' = nextMotor + 1 /\ bgPc' = "send"
       ELSE nextMotor' = 1 /\ bgPc' = "receive"
    /\ UNCHANGED << mutexes, flags, command, output, feedback, overCnt,
                    fgPc, call, passes, refused >>

\* One motor's frame: the gain is read anew for each motor.
SendMotor ==
    /\ bgPc = "send" /\ cmdMutex = "free"
    /\ motor' = [motor EXCEPT ![nextMotor] = gain]
    /\ IF nextMotor < NMotors
       THEN nextMotor' = nextMotor + 1 /\ bgPc' = "send"
       ELSE nextMotor' = 1 /\ bgPc' = "receive"
    /\ UNCHANGED << mutexes, flags, command, output, feedback, overCnt,
                    fgPc, call, passes, refused >>

\* update_joint_state_: the feedback of this pass, wherever load and
\* operator have taken the arm meanwhile.
update_joint_state_ ==
    /\ bgPc = "receive" /\ stateMutex = "free"
    /\ arm' \in Near(arm)
    /\ joint' = arm'
    /\ load' \in Feedback
    /\ bgPc' = "top"
    /\ PassDone
    /\ UNCHANGED << mutexes, flags, command, output, motor, nextMotor,
                    overCnt, fgPc, call, refused >>

Background ==
    \/ BgIdle \/ BgExit \/ over_current_protection_
    \/ SanityState \/ SanityCommand \/ enter_emergency_state_
    \/ Interpolate \/ ClipOutput \/ SendMotor \/ update_joint_state_

-----------------------------------------------------------------------------
(* The foreground thread: calls of the API, one at a time. *)

Emergency == bgPc \in {"emergency", "stuck"}

bgUnchanged == UNCHANGED << mutexes, destroyed, output, feedback, motor, background >>

\* Entering set_gain(g), to continue at ret when it returns.  The guard against
\* a jump is only evaluated when kp goes from zero to non-zero.
EnterSetGain(g, ret) ==
    /\ fgArg' = g
    /\ fgReturn' = ret
    /\ fgPc' = IF gain = "zero" /\ g # "zero" THEN "guardState" ELSE "gainWrite"

CallSetGain ==
    /\ fgPc = "idle"
    /\ \E g \in ClientGains : EnterSetGain(g, "idle")
    /\ bgUnchanged
    /\ UNCHANGED << running, command, fgRead, fgRunning, passes, refused >>

GuardReadState ==
    /\ fgPc = "guardState" /\ stateMutex = "free"
    /\ fgRead' = joint
    /\ fgPc' = "guardCmd"
    /\ bgUnchanged
    /\ UNCHANGED << running, command, fgArg, fgRunning, fgReturn, passes, refused >>

TooFar == Distance(fgRead, out) > JumpThreshold /\ fgArg = "stiff"

\* set_gain throws when the command is far from the arm, and stops the
\* background thread's work before it does.
GuardRefuses ==
    /\ fgPc = "guardCmd" /\ cmdMutex = "free" /\ TooFar
    /\ running' = FALSE
    /\ refused' = TRUE
    /\ fgPc' = "idle" /\ fgArg' = "zero" /\ fgRead' = 0 /\ fgReturn' = "idle"
    /\ bgUnchanged
    /\ UNCHANGED << command, fgRunning, passes >>

GuardAccepts ==
    /\ fgPc = "guardCmd" /\ cmdMutex = "free" /\ ~TooFar
    /\ fgPc' = "gainWrite"
    /\ fgRead' = 0
    /\ bgUnchanged
    /\ UNCHANGED << running, command, fgArg, fgRunning, fgReturn, passes, refused >>

\* gain_ is assigned and set_gain returns; a sleep of the caller starts here.
GainWrite ==
    /\ fgPc = "gainWrite" /\ cmdMutex = "free"
    /\ gain' = fgArg
    /\ fgPc' = fgReturn
    /\ fgArg' = "zero" /\ fgReturn' = "idle"
    /\ passes' = 0
    /\ bgUnchanged
    /\ UNCHANGED << running, plan, fgRead, fgRunning, refused >>

\* sleep_ms: passes of the background thread go by, unless it no longer makes any.
SleepOver_Skipped == TRUE
SleepOver == passes >= SleepPasses \/ bgPc \in {"stuck", "exited"}

\* set_to_damping: set_gain, a sleep, and the interpolator fixed at the position
\* the arm has then.
CallSetToDamping ==
    /\ fgPc = "idle"
    /\ EnterSetGain("zero", "dampSleep")
    /\ bgUnchanged
    /\ UNCHANGED << running, command, fgRead, fgRunning, passes, refused >>

DampRead ==
    /\ fgPc = "dampSleep" /\ SleepOver /\ stateMutex = "free"
    /\ fgRead' = joint
    /\ fgPc' = "dampFix"
    /\ bgUnchanged
    /\ UNCHANGED << running, command, fgArg, fgRunning, fgReturn, passes, refused >>

DampFix ==
    /\ fgPc = "dampFix" /\ cmdMutex = "free"
    /\ plan' = Fixed(fgRead)
    /\ fgPc' = "idle" /\ fgRead' = 0
    /\ bgUnchanged
    /\ UNCHANGED << running, gain, fgArg, fgRunning, fgReturn, passes, refused >>

\* set_joint_cmd and set_eef_cmd read the state, then override the rest of the
\* trajectory from wherever the interpolator is now.
CallSetCommand ==
    /\ fgPc = "idle" /\ stateMutex = "free"
    /\ fgRead' \in Positions
    /\ fgPc' = "cmdWrite"
    /\ bgUnchanged
    /\ UNCHANGED << running, command, fgArg, fgRunning, fgReturn, passes, refused >>

CommandWrite ==
    /\ fgPc = "cmdWrite" /\ cmdMutex = "free"
    /\ \E p \in PlanPositions : plan' = Between(p, fgRead)
    /\ fgPc' = "idle" /\ fgRead' = 0
    /\ bgUnchanged
    /\ UNCHANGED << running, gain, fgArg, fgRunning, fgReturn, passes, refused >>

\* The inverse kinematics fails, or the waypoint's time has passed: the caller
\* sees a warning or an exception and the old trajectory stays in force.
CommandDropped ==
    /\ fgPc = "cmdWrite"
    /\ fgPc' = "idle" /\ fgRead' = 0
    /\ bgUnchanged
    /\ UNCHANGED << running, command, fgArg, fgRunning, fgReturn, passes, refused >>

\* reset_to_home: remember position, gain and whether the background thread
\* works; make it work; plan the way home; ramp the gain; put the flag back.
CallResetToHome ==
    /\ fgPc = "idle" /\ stateMutex = "free"
    /\ fgRead' = joint
    /\ fgPc' = "homeGain"
    /\ bgUnchanged
    /\ UNCHANGED << running, command, fgArg, fgRunning, fgReturn, passes, refused >>

HomeGain ==
    /\ fgPc = "homeGain" /\ cmdMutex = "free"
    /\ fgArg' = gain
    /\ fgRunning' = running
    /\ running' = TRUE
    /\ fgPc' = "homePlan"
    /\ bgUnchanged
    /\ UNCHANGED << command, fgRead, fgReturn, passes, refused >>

HomePlan ==
    /\ fgPc = "homePlan" /\ cmdMutex = "free"
    /\ plan' = Between(fgRead, Home)
    /\ fgPc' = "gainWrite" /\ fgReturn' = "ramp"
    /\ fgRead' = 0
    /\ bgUnchanged
    /\ UNCHANGED << running, gain, fgArg, fgRunning, passes, refused >>

\* The first step of the ramp is 1/250 of default_kp or less: at most kp_threshold
\* unless default_kp exceeds 250.
NextGain == IF gain = "zero" THEN RampGain ELSE "stiff"

\* One iteration of the ramp: from zero, through gains up to kp_threshold if there
\* are any, to the default ones; the sleep of controller_dt between two iterations
\* is a pass.
HomeRamp ==
    /\ fgPc = "ramp" /\ gain # "stiff" /\ (passes > 0 \/ SleepOver)
    /\ EnterSetGain(NextGain, "ramp")
    /\ bgUnchanged
    /\ UNCHANGED << running, command, fgRead, fgRunning, passes, refused >>

HomeHold_StopsThread ==
    /\ fgPc = "ramp" /\ gain = "stiff" /\ cmdMutex = "free"
    /\ plan' = Fixed(Home)
    /\ running' = FALSE
    /\ fgRunning' = TRUE
    /\ fgPc' = "idle"
    /\ bgUnchanged
    /\ UNCHANGED << gain, fgArg, fgRead, fgReturn, passes, refused >>

HomeHold ==
    /\ fgPc = "ramp" /\ gain = "stiff" /\ cmdMutex = "free"
    /\ plan' = Fixed(Home)
    /\ running' = fgRunning
    /\ fgRunning' = TRUE
    /\ fgPc' = "idle"
    /\ bgUnchanged
    /\ UNCHANGED << gain, fgArg, fgRead, fgReturn, passes, refused >>

\* The destructor: damping gains, the command fixed, the background thread made
\* to work whatever it did before, two seconds for it to send, then join.
CallDestroy ==
    /\ fgPc = "idle"
    /\ EnterSetGain("zero", "destroyFix")
    /\ bgUnchanged
    /\ UNCHANGED << running, command, fgRead, fgRunning, passes, refused >>

DestroyFix_LeavesRunning ==
    /\ fgPc = "destroyFix" /\ cmdMutex = "free"
    /\ plan' = Fixed(out)
    /\ passes' = 0
    /\ fgPc' = "destroySleep"
    /\ bgUnchanged
    /\ UNCHANGED << running, gain, call, refused >>

DestroyFix ==
    /\ fgPc = "destroyFix" /\ cmdMutex = "free"
    /\ plan' = Fixed(out)
    /\ running' = TRUE
    /\ passes' = 0
    /\ fgPc' = "destroySleep"
    /\ bgUnchanged
    /\ UNCHANGED << gain, call, refused >>

DestroyFlag_JoinFirst ==
    /\ fgPc = "destroySleep" /\ SleepOver
    /\ fgPc' = "join"
    /\ bgUnchanged
    /\ UNCHANGED << running, command, call, passes, refused >>

DestroyFlag ==
    /\ fgPc = "destroySleep" /\ SleepOver
    /\ destroyed' = TRUE
    /\ fgPc' = "join"
    /\ UNCHANGED << mutexes, running, command, output, feedback, motor,
                    background, call, passes, refused >>

Join ==
    /\ fgPc = "join" /\ bgPc = "exited"
    /\ fgPc' = "gone"
    /\ bgUnchanged
    /\ UNCHANGED << running, command, call, passes, refused >>

Calls ==
    \/ CallSetGain \/ CallSetToDamping \/ CallSetCommand
    \/ CallResetToHome \/ CallDestroy

Continue ==
    \/ GuardReadState \/ GuardRefuses \/ GuardAccepts \/ GainWrite
    \/ DampRead \/ DampFix \/ CommandWrite \/ CommandDropped
    \/ HomeGain \/ HomePlan \/ HomeRamp \/ HomeHold
    \/ DestroyFix \/ DestroyFlag \/ Join

Next == Background \/ Calls \/ Continue

Spec == Init /\ [][Next]_vars

\* The background thread is a loop that always comes round again.  A call that
\* has been entered goes on; it may find a mutex taken again and again, but the
\* background thread sleeps for most of controller_dt with both of them free.
\* Nothing obliges a client to call anything.
FairSpec == Spec /\ WF_vars(Background) /\ SF_vars(Continue)

-----------------------------------------------------------------------------
(* Properties. *)

\* Every variable has its type.
TypeOK ==
    /\ cmdMutex \in {"free", "bg"} /\ stateMutex \in {"free", "bg"}
    /\ running \in BOOLEAN /\ destroyed \in BOOLEAN
    /\ gain \in Gains
    /\ plan \in Positions \X Positions
    /\ out \in Positions /\ prevOut \in Positions
    /\ joint \in Positions /\ arm \in Positions /\ load \in Feedback
    /\ motor \in [Motors -> Gains]
    /\ overCnt \in 0 .. OverMax + 1
    /\ bgPc \in {"top", "sanity", "sanityCmd", "emergency", "stuck",
                 "interpolate", "clip", "send", "receive", "exited"}
    /\ nextMotor \in Motors
    /\ fgPc \in {"idle", "guardState", "guardCmd", "gainWrite", "dampSleep",
                 "dampFix", "cmdWrite", "homeGain", "homePlan", "ramp",
                 "destroyFix", "destroySleep", "join", "gone"}
    /\ fgArg \in Gains /\ fgRead \in Positions /\ fgRunning \in BOOLEAN
    /\ fgReturn \in {"idle", "dampSleep", "ramp", "destroyFix"}
    /\ passes \in 0 .. SleepPasses
    /\ refused \in BOOLEAN

AllDamped == \A m \in Motors : motor[m] = "zero"
AllStiff == \A m \in Motors : motor[m] = "stiff"

\* When set_to_damping reads the position it will hold, every motor has really
\* been sent damping gains (controller_base.cpp 262-268): otherwise the position
\* read is one the motors are still pulling away from.
DampedBeforeRead ==
    fgPc = "dampFix" /\ ~refused /\ ~Emergency => AllDamped

\* The destructor leaves no motor with a position gain, also after a refused
\* set_gain has stopped the background thread (controller_base.cpp 79-110).
ExitDamped == fgPc = "gone" => AllDamped

\* "Make sure the robot doesn't jump when setting kp to non-zero"
\* (controller_base.cpp 146): when a motor goes from no position gain to the
\* full one, the command it gets is near the arm: no further away than set_gain
\* accepts, plus what command and arm move in the pass that is under way.
JumpFree == \A m \in Motors :
    motor[m] = "zero" /\ motor'[m] = "stiff"
        => Distance(out, arm) <= JumpThreshold + VelStep + 1
NoJump == [][JumpFree]_vars
\* The same as long as set_gain has not refused a call.  (For programs that
\* leave position control through set_to_damping only, as the arm node does;
\* see README.)
NoJumpUnlessRefused == [][~refused => JumpFree]_vars

\* A position gain that set_gain has accepted reaches every motor, unless the
\* caller changes it again, the emergency state is entered or set_gain has
\* refused an earlier call (controller_base.cpp 144-169, 757-773).
GainTakesEffect ==
    fgPc = "idle" /\ gain = "stiff" ~> AllStiff \/ fgPc # "idle" \/ Emergency \/ refused

\* Damping is never merely noted: once gain_ is zero and no call is in progress,
\* the motors get it (controller_base.cpp 262-275).
DampingTakesEffect ==
    fgPc = "idle" /\ gain = "zero" ~> AllDamped \/ fgPc # "idle" \/ Emergency \/ refused

\* No two mutexes are waited for in opposite orders: a call that was entered
\* returns, unless the emergency state is entered (controller_base.cpp 144-275
\* against 357-400 and 501-512).
CallsReturn == fgPc # "idle" ~> fgPc \in {"idle", "gone"} \/ Emergency

\* An over-current that does not go away stops the arm (controller_base.cpp 402-433).
OverCurrentCaught ==
    (<>[](load = "over" /\ running /\ ~destroyed)) => <>Emergency

\* "Over current detected, robot is set to damping. Please restart the program."
\* (controller_base.cpp 424): once the count has passed over_current_cnt_max the
\* motors get damping.
OverCurrentDamps == overCnt > OverMax ~> AllDamped
=============================================================================
