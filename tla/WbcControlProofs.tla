-------------------------- MODULE WbcControlProofs --------------------------
(***************************************************************************)
(* Theorems about WbcControl, for every stand-up mode, command source and   *)
(* duration.  TLC checks the same invariants on small instances.            *)
(***************************************************************************)
EXTENDS WbcControl, TLAPS

-----------------------------------------------------------------------------
(* The ramp of the base command.                                           *)

\* A ramp between whole commands is a number (the divisor is not zero where
\* the ramp has not ended).
LEMMA BlendType ==
    ASSUME NEW a \in Int, NEW b \in Int, NEW k \in Nat, NEW d \in Nat
    PROVE  Blend(a, b, k, d) \in Int
<1>1. CASE k >= d
  BY <1>1 DEF Blend
<1>2. CASE k < d
  <2>1. d * d \in Nat /\ d * d > 0
    BY <1>2
  <2>2. d * d * d \in Nat /\ d * d * d > 0
    BY <1>2, <2>1
  <2>3. (b - a) * Smooth(k, d) \in Int
    BY DEF Smooth
  <2> QED
    BY <1>2, <2>2, <2>3 DEF Blend
<1> QED
  BY <1>1, <1>2

\* A ramp from rest to rest stays at rest.
LEMMA BlendAtRest ==
    ASSUME NEW k \in Nat, NEW d \in Nat
    PROVE  Blend(0, 0, k, d) = 0
<1>1. CASE k >= d
  BY <1>1 DEF Blend
<1>2. CASE k < d
  <2>1. d * d \in Nat /\ d * d > 0
    BY <1>2
  <2>2. d * d * d \in Nat /\ d * d * d > 0
    BY <1>2, <2>1
  <2>3. Smooth(k, d) \in Int
    BY DEF Smooth
  <2>4. (0 - 0) * Smooth(k, d) = 0
    BY <2>3
  <2> QED
    BY <1>2, <2>2, <2>4 DEF Blend
<1> QED
  BY <1>1, <1>2

-----------------------------------------------------------------------------
(* The inductive invariant.  The safety properties are not inductive: each  *)
(* needs to know what the earlier phases left behind.                       *)

\* Before the handover ends the ramp rests at zero; without a policy there
\* is no speed at all.
CommandInv ==
    /\ ~startPolicy => cmd = 0
    /\ startPolicy /\ motionStarted => policyAge >= HandoverTime
    /\ startPolicy /\ ~motionStarted => cmd = 0 /\ cmdStart = 0 /\ cmdTarget = 0

\* A policy, or the alignment before it, implies a stand-up.
StandInv ==
    /\ startPolicy \/ alignActive => standAge # -1 /\ standupMode = "internal"
    /\ poseTest => standupMode = "pose_test"
    /\ standAge # -1 => standupMode = "internal"

\* What each phase of the stop has switched off, and the final state of all.
PhaseInv ==
    /\ phase # "idle" => ~alignActive /\ ~poseTest
    /\ phase \in {"lying_down", "arm_home", "complete", "hard_stop"}
         => ~startPolicy /\ standAge = -1
    /\ faulted <=> phase = "hard_stop"
    /\ phase = "hard_stop" => out = "posstop" /\ buffer = "posstop" /\ estop
    /\ estop => phase = "hard_stop" \/ exited

\* /arm/home is sent on the way into "arm_home" or straight into "complete".
HomeInv ==
    /\ phase \in {"idle", "zeroing", "lying_down"} => homes = 0
    /\ phase \in {"arm_home", "complete"} => homes = 1
    /\ homes <= 1

IndInv == TypeOK /\ CommandInv /\ StandInv /\ PhaseInv /\ HomeInv

LEMMA InitInv == Init => IndInv
<1> SUFFICES ASSUME Init PROVE IndInv
  OBVIOUS
<1>0. /\ startPolicy \in BOOLEAN /\ alignActive \in BOOLEAN /\ poseTest \in BOOLEAN
      /\ motionStarted \in BOOLEAN /\ inhibited \in BOOLEAN /\ tick \in BOOLEAN
      /\ faulted \in BOOLEAN /\ estop \in BOOLEAN /\ exited \in BOOLEAN
  BY DEF Init
<1>1. TypeOK
  BY <1>0, TimesAssumption DEF Init, TypeOK, Phases, StopPhases, Commands, Stiff
<1>2. CommandInv /\ StandInv /\ HomeInv
  BY DEF Init, CommandInv, StandInv, HomeInv
<1>3. PhaseInv
  BY DEF Init, PhaseInv
<1> QED
  BY <1>1, <1>2, <1>3 DEF IndInv

\* A safety stop establishes the invariant from any state that satisfies it,
\* whatever it leaves to its caller.
LEMMA SafetyStopInv ==
    ASSUME IndInv, trigger_safety_stop,
           cmdStart' \in Int, cmdTarget' \in Int,
           rampAge' \in 0 .. RampTime, rampTime' \in {0, RampTime},
           inhibited' \in BOOLEAN, tick' \in BOOLEAN,
           lowAge' \in 0 .. LowLimit + 1,
           sport' \in {"unseen", "clear", "conflict"},
           sportAge' \in 0 .. SportLimit + 1
    PROVE  IndInv'
<1>0. /\ startPolicy' \in BOOLEAN /\ alignActive' \in BOOLEAN /\ poseTest' \in BOOLEAN
      /\ motionStarted' \in BOOLEAN /\ faulted' \in BOOLEAN /\ estop' \in BOOLEAN
      /\ exited' \in BOOLEAN
  BY DEF IndInv, TypeOK, trigger_safety_stop
<1>a. standAge' \in -1 .. StandTime /\ cmd' \in Int
  BY TimesAssumption DEF trigger_safety_stop
<1>1. TypeOK'
  BY <1>0, <1>a
  DEF IndInv, TypeOK, trigger_safety_stop, config, Phases, StopPhases, Commands, Stiff
<1>2. CommandInv' /\ StandInv' /\ PhaseInv'
  BY DEF IndInv, CommandInv, StandInv, PhaseInv, trigger_safety_stop, config
<1>3. HomeInv'
  BY DEF IndInv, HomeInv, PhaseInv, TypeOK, Phases, StopPhases, trigger_safety_stop
<1> QED
  BY <1>1, <1>2, <1>3 DEF IndInv

LEMMA GateFaultInv == IndInv /\ GateFault => IndInv'
  BY SafetyStopInv DEF GateFault, IndInv, TypeOK, ramp, sensed

LEMMA LowStateInv == IndInv /\ LowState => IndInv'
<1> SUFFICES ASSUME IndInv, LowState PROVE IndInv'
  OBVIOUS
<1>1. CASE LowStateGood
  <2>1. TypeOK'
    BY <1>1, TimesAssumption
    DEF LowStateGood, IndInv, TypeOK, config, request, stop, ramp, wire, sent
  <2>2. CommandInv' /\ StandInv' /\ HomeInv'
    BY <1>1
    DEF LowStateGood, IndInv, CommandInv, StandInv, HomeInv, config, request, stop,
        ramp, sent
  <2>3. PhaseInv'
    BY <1>1 DEF LowStateGood, IndInv, PhaseInv, request, stop, wire, sent
  <2> QED
    BY <2>1, <2>2, <2>3 DEF IndInv
<1>2. ASSUME NEW check \in {"motor_count", "value", "estimate"}, LowStateBad(check)
      PROVE  IndInv'
  <2>1. /\ trigger_safety_stop
        /\ tick' \in BOOLEAN /\ lowAge' \in 0 .. LowLimit + 1
    BY <1>2, TimesAssumption DEF LowStateBad, IndInv, TypeOK
  <2> QED
    BY <1>2, <2>1, SafetyStopInv DEF LowStateBad, IndInv, TypeOK, ramp
<1> QED
  BY <1>1, <1>2 DEF LowState

LEMMA SportStateInv == IndInv /\ SportState => IndInv'
<1> SUFFICES ASSUME IndInv, SportState PROVE IndInv'
  OBVIOUS
<1>1. TypeOK'
  BY TimesAssumption
  DEF SportState, IndInv, TypeOK, config, request, stop, ramp, wire, sent
<1>2. CommandInv' /\ StandInv' /\ HomeInv'
  BY DEF SportState, IndInv, CommandInv, StandInv, HomeInv, config, request, stop, ramp,
         sent
<1>3. PhaseInv'
  BY DEF SportState, IndInv, PhaseInv, request, stop, wire, sent
<1> QED
  BY <1>1, <1>2, <1>3 DEF IndInv

LEMMA PressR1Inv == IndInv /\ PressR1 => IndInv'
<1> SUFFICES ASSUME IndInv, PressR1 PROVE IndInv'
  OBVIOUS
<1>1. TypeOK'
  BY TimesAssumption
  DEF PressR1, IndInv, TypeOK, config, stop, ramp, sensed, wire, sent
<1>2. CommandInv' /\ StandInv' /\ HomeInv'
  BY DEF PressR1, IndInv, CommandInv, StandInv, HomeInv, config, stop, ramp, sent
<1>3. PhaseInv'
  BY DEF PressR1, ButtonsLive, IndInv, PhaseInv, stop, wire, sent
<1> QED
  BY <1>1, <1>2, <1>3 DEF IndInv

LEMMA PressR2Inv == IndInv /\ PressR2 => IndInv'
<1> SUFFICES ASSUME IndInv, PressR2 PROVE IndInv'
  OBVIOUS
<1>0. /\ startPolicy' \in BOOLEAN /\ alignActive' \in BOOLEAN /\ poseTest' \in BOOLEAN
      /\ motionStarted' \in BOOLEAN
  BY DEF PressR2
<1>a. cmd' \in Int /\ cmdStart' \in Int
  BY DEF PressR2
<1>1. TypeOK'
  BY <1>0, <1>a DEF PressR2, IndInv, TypeOK, config, stop, sensed, wire, sent
<1>2. CommandInv' /\ StandInv' /\ HomeInv'
  BY DEF PressR2, IndInv, CommandInv, StandInv, HomeInv, config, stop, sent
<1>3. PhaseInv'
  BY DEF PressR2, IndInv, PhaseInv, stop, wire, sent
<1> QED
  BY <1>1, <1>2, <1>3 DEF IndInv

LEMMA PressL2Inv == IndInv /\ PressL2 => IndInv'
<1> SUFFICES ASSUME IndInv, PressL2 PROVE IndInv'
  OBVIOUS
<1> USE DEF IndInv, PressL2, ButtonsLive, config, stop, sensed, wire, sent
<1>1. TypeOK'
  <2>1. /\ startPolicy' \in BOOLEAN /\ alignActive' \in BOOLEAN /\ poseTest' \in BOOLEAN
        /\ motionStarted' \in BOOLEAN
    BY DEF TypeOK, ResumeMoving, start_pose_test, start_policy_alignment, request
  <2>2. /\ cmd' \in Int /\ cmdStart' \in Int /\ cmdTarget' \in Int
        /\ rampAge' \in 0 .. RampTime /\ rampTime' \in {0, RampTime}
    BY TimesAssumption, MoveCmdAssumption
    DEF TypeOK, ResumeMoving, set_policy_command_target, start_pose_test,
        start_policy_alignment, ramp
  <2>3. standAge' = standAge /\ policyAge' = policyAge
    BY DEF ResumeMoving, start_pose_test, start_policy_alignment, request
  <2> QED
    BY <2>1, <2>2, <2>3 DEF TypeOK
<1>2. CommandInv'
  BY DEF CommandInv, TypeOK, ResumeMoving, set_policy_command_target, start_pose_test,
         start_policy_alignment, request, ramp
<1>3. StandInv'
  BY TimesAssumption
  DEF StandInv, TypeOK, ResumeMoving, start_pose_test, start_policy_alignment,
      ready_to_start_policy, request
<1>4. PhaseInv'
  BY DEF PhaseInv, ResumeMoving, start_pose_test, start_policy_alignment, request
<1>5. HomeInv'
  BY DEF HomeInv
<1> QED
  BY <1>1, <1>2, <1>3, <1>4, <1>5

LEMMA PressYInv == IndInv /\ PressY => IndInv'
<1> SUFFICES ASSUME IndInv, PressY PROVE IndInv'
  OBVIOUS
<1>0. inhibited' \in BOOLEAN
  BY DEF PressY, IndInv, TypeOK
<1>a. /\ cmdStart' \in Int /\ cmdTarget' \in Int
      /\ rampAge' \in 0 .. RampTime /\ rampTime' \in {0, RampTime}
  BY TimesAssumption DEF PressY, set_policy_command_target, IndInv, TypeOK, ramp
<1>1. TypeOK'
  BY <1>0, <1>a DEF PressY, IndInv, TypeOK, config, request, stop, sensed, wire, sent
<1>2. CommandInv'
  BY DEF PressY, set_policy_command_target, IndInv, CommandInv, config, request, ramp
<1>3. StandInv' /\ HomeInv'
  BY DEF PressY, IndInv, StandInv, HomeInv, config, request, stop, sent
<1>4. PhaseInv'
  BY DEF PressY, IndInv, PhaseInv, request, stop, wire, sent
<1> QED
  BY <1>1, <1>2, <1>3, <1>4 DEF IndInv

LEMMA PressL1Inv == IndInv /\ PressL1 => IndInv'
<1> SUFFICES ASSUME IndInv, PressL1 PROVE IndInv'
  OBVIOUS
<1> USE TimesAssumption
<1>1. CASE request_graceful_stop
  <2>a. startPolicy' \in BOOLEAN /\ alignActive' \in BOOLEAN /\ poseTest' \in BOOLEAN
    BY <1>1 DEF request_graceful_stop, StopInMotion, StopAtRest, IndInv, TypeOK
  <2>c. standAge' \in -1 .. StandTime /\ homes' \in Nat
    BY <1>1 DEF request_graceful_stop, StopInMotion, StopAtRest, IndInv, TypeOK
  <2>d. phase' \in Phases /\ buffer' \in Commands
    BY <1>1
    DEF request_graceful_stop, StopInMotion, StopAtRest, IndInv, TypeOK, Phases,
        StopPhases, Commands, Stiff
  <2>b. /\ stopAge' \in Nat /\ zeroTime' \in {0, RampTime} /\ cmd' \in Int
        /\ cmdStart' \in Int /\ cmdTarget' \in Int
        /\ rampAge' \in 0 .. RampTime /\ rampTime' \in {0, RampTime}
    BY <1>1
    DEF request_graceful_stop, set_policy_command_target, StopInMotion, StopAtRest,
        IndInv, TypeOK
  <2>1. TypeOK'
    BY <1>1, <2>a, <2>b, <2>c, <2>d DEF request_graceful_stop, IndInv, TypeOK, config, sensed
  <2>2. CommandInv' /\ StandInv'
    BY <1>1
    DEF request_graceful_stop, set_policy_command_target, StopInMotion, StopAtRest,
        IndInv, TypeOK, CommandInv, StandInv, config, sensed
  <2>3. PhaseInv' /\ HomeInv'
    BY <1>1
    DEF request_graceful_stop, StopInMotion, StopAtRest, IndInv, TypeOK, PhaseInv,
        HomeInv, config, sensed
  <2> QED
    BY <2>1, <2>2, <2>3 DEF IndInv
<1>2. CASE emergency_stop
  <2>1. TypeOK'
    BY <1>2
    DEF emergency_stop, IndInv, TypeOK, config, request, stop, ramp, sensed, wire
  <2>2. CommandInv' /\ StandInv' /\ HomeInv'
    BY <1>2
    DEF emergency_stop, IndInv, CommandInv, StandInv, HomeInv, config, request, stop, ramp
  <2>3. PhaseInv'
    BY <1>2 DEF emergency_stop, IndInv, PhaseInv, request, stop, wire
  <2> QED
    BY <2>1, <2>2, <2>3 DEF IndInv
<1> QED
  BY <1>1, <1>2 DEF PressL1

LEMMA AdvanceInv ==
    IndInv /\ advance_graceful_stop /\ UNCHANGED <<config, sensed, faulted, out, estop, exited>>
        => IndInv'
<1> SUFFICES ASSUME IndInv, advance_graceful_stop,
                    UNCHANGED <<config, sensed, faulted, out, estop, exited>>
             PROVE  IndInv'
  OBVIOUS
<1> USE DEF IndInv, advance_graceful_stop, config, sensed
<1>1. CASE BeginLieDown
  <2>1. startPolicy' \in BOOLEAN /\ motionStarted' \in BOOLEAN
    BY <1>1 DEF BeginLieDown
  <2>2. /\ cmd' \in Int /\ cmdStart' \in Int /\ cmdTarget' \in Int
        /\ standAge' \in -1 .. StandTime
    BY <1>1, TimesAssumption DEF BeginLieDown
  <2>3. TypeOK'
    BY <1>1, <2>1, <2>2 DEF BeginLieDown, TypeOK, Phases, StopPhases, Commands, Stiff
  <2>4. CommandInv' /\ StandInv' /\ HomeInv'
    BY <1>1 DEF BeginLieDown, CommandInv, StandInv, PhaseInv, HomeInv
  <2>5. PhaseInv'
    BY <1>1 DEF BeginLieDown, PhaseInv
  <2> QED
    BY <2>3, <2>4, <2>5
<1>2. CASE KeepLying
  <2>1. TypeOK'
    BY <1>2 DEF KeepLying, TypeOK, Commands, Stiff, stop, request, ramp
  <2>2. CommandInv' /\ StandInv' /\ HomeInv'
    BY <1>2 DEF KeepLying, CommandInv, StandInv, HomeInv, stop, request, ramp
  <2>3. PhaseInv'
    BY <1>2 DEF KeepLying, PhaseInv, stop, request
  <2> QED
    BY <2>1, <2>2, <2>3
<1>3. CASE SendArmHome
  <2>1. TypeOK'
    BY <1>3 DEF SendArmHome, TypeOK, Phases, StopPhases, Commands, Stiff, request, ramp
  <2>2. CommandInv' /\ StandInv'
    BY <1>3 DEF SendArmHome, CommandInv, StandInv, request, ramp
  <2>3. HomeInv'
    BY <1>3 DEF SendArmHome, HomeInv
  <2>4. PhaseInv'
    BY <1>3 DEF SendArmHome, PhaseInv, request
  <2> QED
    BY <2>1, <2>2, <2>3, <2>4
<1>4. CASE CompleteStop
  <2>1. standAge' \in -1 .. StandTime
    BY <1>4, TimesAssumption DEF CompleteStop
  <2>2. TypeOK'
    BY <1>4, <2>1 DEF CompleteStop, TypeOK, Phases, StopPhases, Commands, Stiff, ramp
  <2>3. CommandInv' /\ StandInv' /\ HomeInv'
    BY <1>4 DEF CompleteStop, CommandInv, StandInv, PhaseInv, HomeInv, ramp
  <2>4. PhaseInv'
    BY <1>4 DEF CompleteStop, PhaseInv
  <2> QED
    BY <2>2, <2>3, <2>4
<1> QED
  BY <1>1, <1>2, <1>3, <1>4

\* The branches of policy_timer_callback that fill the leg command.
LEMMA HoldLegsInv ==
    /\ IndInv /\ NotStopping /\ (PoseTestStep \/ AlignStep \/ FixStandStep)
    /\ UNCHANGED <<config, sensed, faulted, out, estop, exited>>
    => IndInv'
<1> SUFFICES ASSUME IndInv, NotStopping, PoseTestStep \/ AlignStep \/ FixStandStep,
                    UNCHANGED <<config, sensed, faulted, out, estop, exited>>
             PROVE  IndInv'
  OBVIOUS
<1> USE DEF IndInv, config, sensed, stop
<1>1. CASE PoseTestStep \/ FixStandStep
  <2>1. /\ buffer' \in Commands /\ inhibited' = inhibited
        /\ UNCHANGED <<request, stop, cmd, ramp, homes>>
    BY <1>1 DEF PoseTestStep, FixStandStep, Commands, Stiff
  <2>2. TypeOK'
    BY <2>1 DEF TypeOK, request, ramp
  <2>3. CommandInv' /\ StandInv' /\ HomeInv'
    BY <2>1 DEF CommandInv, StandInv, HomeInv, request, ramp
  <2>4. PhaseInv'
    BY <2>1 DEF PhaseInv, NotStopping, request
  <2> QED
    BY <2>2, <2>3, <2>4
<1>2. CASE AlignStep
  <2>1. /\ alignActive' \in BOOLEAN /\ motionStarted' \in BOOLEAN
        /\ startPolicy' \in BOOLEAN
    BY <1>2 DEF AlignStep
  <2>2. /\ policyAge' \in 0 .. HandoverTime /\ cmd' \in Int /\ cmdStart' \in Int
        /\ cmdTarget' \in Int /\ rampAge' \in 0 .. RampTime /\ rampTime' \in {0, RampTime}
    BY <1>2, TimesAssumption DEF AlignStep, set_policy_command_target
  <2>3. TypeOK'
    BY <1>2, <2>1, <2>2 DEF AlignStep, TypeOK, Commands, Stiff
  <2>4. CommandInv' /\ StandInv' /\ HomeInv'
    BY <1>2 DEF AlignStep, set_policy_command_target, CommandInv, StandInv, HomeInv
  <2>5. PhaseInv'
    BY <1>2 DEF AlignStep, PhaseInv, NotStopping
  <2> QED
    BY <2>3, <2>4, <2>5
<1> QED
  BY <1>1, <1>2

\* One policy step: the base command leaves zero only with the handover's end.
LEMMA PolicyStepInv ==
    /\ IndInv /\ NotStopping /\ PolicyStep
    /\ UNCHANGED <<config, sensed, faulted, out, estop, exited>>
    => IndInv'
<1> SUFFICES ASSUME IndInv, NotStopping, PolicyStep,
                    UNCHANGED <<config, sensed, faulted, out, estop, exited>>
             PROVE  IndInv'
  OBVIOUS
<1> USE DEF IndInv, config, sensed, stop
<1>1. /\ cmdStart' \in Int /\ cmdTarget' \in Int
      /\ rampAge' \in 0 .. RampTime /\ rampTime' \in {0, RampTime}
  BY TimesAssumption, MoveCmdAssumption
  DEF PolicyStep, UpdateTarget, set_policy_command_target, TypeOK, ramp
<1>2. Blend(cmdStart', cmdTarget', rampAge', rampTime') \in Int
  <2>1. rampAge' \in Nat /\ rampTime' \in Nat
    BY <1>1, TimesAssumption
  <2> QED
    BY <1>1, <2>1, BlendType
<1>3. cmd' \in Int /\ inhibited' \in BOOLEAN
  <2>1. CASE InHandover
    BY <2>1 DEF PolicyStep, UpdateCommand, TypeOK
  <2>2. CASE ~InHandover /\ phase = "idle" /\ baseSource = "wireless_joystick"
    <3>1. PICK stick \in 0 .. MoveCmd, valid \in BOOLEAN, centred \in BOOLEAN :
              JoystickCommand(stick, valid, centred)
      BY <2>2 DEF PolicyStep, UpdateCommand
    <3>2. inhibited' \in BOOLEAN
      BY <3>1 DEF JoystickCommand, TypeOK
    <3>3. cmd' \in Int
      BY <3>1, MoveCmdAssumption DEF JoystickCommand, Between, TypeOK
    <3> QED
      BY <3>2, <3>3
  <2>3. CASE ~InHandover /\ ~(phase = "idle" /\ baseSource = "wireless_joystick")
    BY <2>3, <1>2 DEF PolicyStep, UpdateCommand, TypeOK
  <2> QED
    BY <2>1, <2>2, <2>3
<1>4. motionStarted' \in BOOLEAN
  BY DEF PolicyStep, TypeOK
<1>5. TypeOK'
  BY <1>1, <1>3, <1>4 DEF PolicyStep, TypeOK, Commands, Stiff
<1>6. CommandInv'
  <2>1. startPolicy /\ startPolicy' /\ policyAge' = policyAge
    BY DEF PolicyStep
  <2>2. motionStarted' => policyAge' >= HandoverTime
    BY <2>1 DEF PolicyStep, HandoverDone, CommandInv
  <2>3. ASSUME ~motionStarted' PROVE cmd' = 0 /\ cmdStart' = 0 /\ cmdTarget' = 0
    <3>1. ~motionStarted /\ ~HandoverDone
      BY <2>3 DEF PolicyStep
    <3>2. cmdStart' = 0 /\ cmdTarget' = 0
      BY <2>1, <3>1 DEF PolicyStep, UpdateTarget, CommandInv, ramp
    <3>3. CASE InHandover
      BY <3>2, <3>3 DEF PolicyStep, UpdateCommand
    <3>4. CASE ~InHandover
      <4>1. phase # "idle"
        BY <3>1, <3>4, TimesAssumption DEF InHandover, HandoverDone, TypeOK
      <4>2. cmd' = Blend(0, 0, rampAge', rampTime')
        BY <3>2, <3>4, <4>1 DEF PolicyStep, UpdateCommand
      <4> QED
        BY <1>1, <3>2, <4>2, BlendAtRest, TimesAssumption
    <3> QED
      BY <3>3, <3>4
  <2> QED
    BY <2>1, <2>2, <2>3 DEF CommandInv
<1>7. StandInv' /\ HomeInv'
  BY DEF PolicyStep, StandInv, HomeInv
<1>8. PhaseInv'
  BY DEF PolicyStep, PhaseInv, NotStopping
<1> QED
  BY <1>5, <1>6, <1>7, <1>8

LEMMA PolicyTimerInv == IndInv /\ PolicyTimer => IndInv'
<1> SUFFICES ASSUME IndInv, PolicyTimer PROVE IndInv'
  OBVIOUS
<1>1. CASE GateFault
  BY <1>1, GateFaultInv
<1>2. ASSUME UNCHANGED <<config, sensed, faulted, out, estop, exited>>,
             \/ advance_graceful_stop
             \/ NotStopping /\ (PoseTestStep \/ AlignStep \/ FixStandStep \/ PolicyStep)
      PROVE  IndInv'
  BY <1>2, AdvanceInv, HoldLegsInv, PolicyStepInv
<1>3. CASE PolicyFault
  <2>1. /\ cmdStart' \in Int /\ cmdTarget' \in Int
        /\ rampAge' \in 0 .. RampTime /\ rampTime' \in {0, RampTime}
    BY <1>3, TimesAssumption, MoveCmdAssumption
    DEF PolicyFault, UpdateTarget, set_policy_command_target, IndInv, TypeOK, ramp
  <2>2. inhibited' \in BOOLEAN
    BY <1>3 DEF PolicyFault, IndInv, TypeOK
  <2> QED
    BY <1>3, <2>1, <2>2, SafetyStopInv DEF PolicyFault, sensed, IndInv, TypeOK
<1> QED
  BY <1>1, <1>2, <1>3 DEF PolicyTimer

LEMMA MotorTimerInv == IndInv /\ MotorTimer => IndInv'
<1> SUFFICES ASSUME IndInv, MotorTimer PROVE IndInv'
  OBVIOUS
<1>1. CASE GateFault
  BY <1>1, GateFaultInv
<1>2. CASE Publish
  <2>1. TypeOK'
    BY <1>2
    DEF Publish, IndInv, TypeOK, Commands, Stiff, config, request, stop, ramp, sensed, sent
  <2>2. CommandInv' /\ StandInv' /\ HomeInv'
    BY <1>2
    DEF Publish, IndInv, CommandInv, StandInv, HomeInv, config, request, stop, ramp, sent
  <2>3. phase # "hard_stop"
    BY DEF MotorTimer, low_level_control_active, Requested, IndInv, PhaseInv, StopPhases
  <2>4. PhaseInv'
    BY <1>2, <2>3 DEF Publish, IndInv, PhaseInv, request, stop, sent
  <2> QED
    BY <2>1, <2>2, <2>4 DEF IndInv
<1> QED
  BY <1>1, <1>2 DEF MotorTimer

LEMMA ClockInv == IndInv /\ (Tick \/ Interrupt) => IndInv'
<1> SUFFICES ASSUME IndInv, Tick \/ Interrupt PROVE IndInv'
  OBVIOUS
<1>1. CASE Tick
  <2>1. /\ standAge' \in -1 .. StandTime /\ policyAge' \in 0 .. HandoverTime
        /\ policyAge' >= policyAge /\ (standAge = -1 <=> standAge' = -1)
    BY <1>1, TimesAssumption DEF Tick, Older, IndInv, TypeOK
  <2>2. /\ stopAge' \in Nat /\ rampAge' \in 0 .. RampTime
        /\ lowAge' \in 0 .. LowLimit + 1 /\ sportAge' \in 0 .. SportLimit + 1
    BY <1>1, TimesAssumption DEF Tick, Older, StopAgeBound, IndInv, TypeOK
  <2>3. TypeOK'
    BY <1>1, <2>1, <2>2 DEF Tick, IndInv, TypeOK, config, wire, sent
  <2>4. CommandInv'
    BY <1>1, <2>1, TimesAssumption DEF Tick, IndInv, CommandInv, TypeOK
  <2>5. StandInv' /\ HomeInv'
    BY <1>1, <2>1 DEF Tick, IndInv, StandInv, HomeInv, config, sent
  <2>6. PhaseInv'
    BY <1>1, <2>1 DEF Tick, IndInv, PhaseInv, wire, sent
  <2> QED
    BY <2>3, <2>4, <2>5, <2>6 DEF IndInv
<1>2. CASE Interrupt
  <2>1. TypeOK'
    BY <1>2
    DEF Interrupt, IndInv, TypeOK, config, request, stop, ramp, sensed, wire, sent
  <2>2. CommandInv' /\ StandInv' /\ HomeInv'
    BY <1>2
    DEF Interrupt, IndInv, CommandInv, StandInv, HomeInv, config, request, stop, ramp, sent
  <2>3. PhaseInv'
    BY <1>2 DEF Interrupt, IndInv, PhaseInv, request, stop, wire, sent
  <2> QED
    BY <2>1, <2>2, <2>3 DEF IndInv
<1> QED
  BY <1>1, <1>2

LEMMA StutterInv == IndInv /\ UNCHANGED vars => IndInv'
<1> SUFFICES ASSUME IndInv, UNCHANGED vars PROVE IndInv'
  OBVIOUS
<1>1. TypeOK'
  BY DEF IndInv, TypeOK, vars, config, request, stop, ramp, sensed, wire, sent
<1>2. CommandInv' /\ StandInv' /\ HomeInv'
  BY DEF IndInv, CommandInv, StandInv, HomeInv, vars, config, request, stop, ramp, sent
<1>3. PhaseInv'
  BY DEF IndInv, PhaseInv, vars, request, stop, wire, sent
<1> QED
  BY <1>1, <1>2, <1>3 DEF IndInv

LEMMA StepInv == IndInv /\ [Next]_vars => IndInv'
  BY LowStateInv, SportStateInv, PressL1Inv, PressR1Inv, PressR2Inv, PressL2Inv,
     PressYInv, PolicyTimerInv, MotorTimerInv, ClockInv, StutterInv
  DEF Next

-----------------------------------------------------------------------------
(* The theorems.                                                           *)

THEOREM Invariance == Spec => []IndInv
<1>1. Init => IndInv
  BY InitInv
<1>2. IndInv /\ [Next]_vars => IndInv'
  BY StepInv
<1> QED
  BY <1>1, <1>2, PTL DEF Spec

\* The state of the leg controller is always well formed.
THEOREM TypeCorrect == Spec => []TypeOK
<1>1. IndInv => TypeOK
  BY DEF IndInv
<1> QED
  BY <1>1, Invariance, PTL

\* For every handover and ramp duration, and with either source of the base
\* command: the robot is told to walk only in a rollout past its handover.
THEOREM BaseGated == Spec => []BaseMovesOnlyAfterHandover
<1>1. IndInv => BaseMovesOnlyAfterHandover
  BY DEF IndInv, CommandInv, BaseMovesOnlyAfterHandover
<1> QED
  BY <1>1, Invariance, PTL

\* The policy never runs on legs that were not stood up.
THEOREM PolicyNeedsStand == Spec => []PolicyRunsOnStandingLegs
<1>1. IndInv => PolicyRunsOnStandingLegs
  BY TimesAssumption DEF IndInv, StandInv, TypeOK, PolicyRunsOnStandingLegs
<1> QED
  BY <1>1, Invariance, PTL

\* Nothing follows a hard stop.
THEOREM HardStopFinal == Spec => []HardStopIsFinal
<1>1. IndInv => HardStopIsFinal
  BY DEF IndInv, PhaseInv, CommandInv, HardStopIsFinal, Requested
<1> QED
  BY <1>1, Invariance, PTL

\* A stop sends the arm home at most once.
THEOREM ArmHomeOnce == Spec => []ArmGoesHomeOnce
<1>1. IndInv => ArmGoesHomeOnce
  BY DEF IndInv, TypeOK, Phases, StopPhases, HomeInv, ArmGoesHomeOnce
<1> QED
  BY <1>1, Invariance, PTL

\* Only an unexited node in the phases before a hard stop sends the arm home, and
\* there the emergency channel has not been used (PhaseInv).
THEOREM NoLateHome == Spec => NoHomeAfterEstop
<1>1. IndInv /\ [Next]_vars => [homes' # homes => ~estop]_vars
  <2> SUFFICES ASSUME IndInv, Next, homes' # homes
               PROVE  ~estop
    OBVIOUS
  <2>1. CASE PressL1
    <3>1. phase = "idle" /\ ~exited
      BY <2>1 DEF PressL1, request_graceful_stop, emergency_stop
    <3> QED
      BY <3>1 DEF IndInv, PhaseInv
  <2>2. CASE PolicyTimer
    <3>1. ~exited
      BY <2>2 DEF PolicyTimer
    <3>2. SendArmHome
      BY <2>2 DEF PolicyTimer, GateFault, trigger_safety_stop, advance_graceful_stop, BeginLieDown,
         KeepLying, CompleteStop, PoseTestStep, AlignStep, FixStandStep, PolicyStep, PolicyFault
    <3> QED
      BY <3>1, <3>2 DEF IndInv, PhaseInv, SendArmHome
  <2>3. CASE ~PressL1 /\ ~PolicyTimer
    BY <2>3 DEF Next, LowState, LowStateGood, LowStateBad, SportState, PressR1, PressR2, PressL2,
       PressY, ResumeMoving, start_pose_test, start_policy_alignment, MotorTimer, Publish,
       GateFault, trigger_safety_stop, Tick, Interrupt, sent
  <2> QED
    BY <2>1, <2>2, <2>3
<1> QED
  BY <1>1, Invariance, PTL DEF Spec, NoHomeAfterEstop

\* A stop that has begun is never undone: buttons are masked (ButtonsLive), the
\* timer only walks on through the phases, and what the stop switched off
\* (PhaseInv) cannot switch itself on.
THEOREM StopForward == Spec => StopOnlyMovesForward
<1> DEFINE Forward ==
      /\ StopRank(phase') >= StopRank(phase)
      /\ phase # "idle" => /\ startPolicy' => startPolicy
                           /\ standAge' # -1 => standAge # -1
                           /\ ~alignActive' /\ ~poseTest'
<1>1. IndInv /\ [Next]_vars => [Forward]_vars
  <2> SUFFICES ASSUME IndInv, Next PROVE Forward
    OBVIOUS
  <2>0. phase \in Phases
    BY DEF IndInv, TypeOK
  <2>1. ASSUME phase' = phase, UNCHANGED request \/ phase = "idle" PROVE Forward
    BY <2>0, <2>1 DEF StopRank, Phases, StopPhases, request, IndInv, PhaseInv
  <2>2. ASSUME trigger_safety_stop PROVE Forward
    BY <2>0, <2>2 DEF StopRank, Phases, StopPhases, trigger_safety_stop
  <2>3. CASE LowState \/ SportState
    BY <2>1, <2>2, <2>3 DEF LowState, LowStateGood, LowStateBad, SportState, stop
  <2>4. CASE PressR1 \/ PressR2 \/ PressL2 \/ PressY
    BY <2>1, <2>4 DEF PressR1, PressR2, PressL2, PressY, ButtonsLive, stop
  <2>5. CASE PressL1
    <3>1. CASE request_graceful_stop
      BY <3>1 DEF request_graceful_stop, StopInMotion, StopAtRest, StopRank
    <3>2. CASE emergency_stop
      BY <2>1, <3>2 DEF emergency_stop, stop
    <3> QED
      BY <2>5, <3>1, <3>2 DEF PressL1
  <2>6. CASE PolicyTimer
    <3>1. CASE GateFault \/ PolicyFault
      BY <2>2, <3>1 DEF GateFault, PolicyFault
    <3>2. CASE BeginLieDown \/ SendArmHome \/ CompleteStop
      BY <3>2 DEF BeginLieDown, SendArmHome, CompleteStop, StopRank, request, IndInv, PhaseInv
    <3>3. CASE KeepLying
      BY <2>1, <3>3 DEF KeepLying, stop
    <3>4. CASE NotStopping /\ (PoseTestStep \/ AlignStep \/ FixStandStep)
      <4>1. phase' = phase
        BY <3>4 DEF PoseTestStep, AlignStep, FixStandStep, stop
      <4>2. UNCHANGED request \/ phase = "idle"
        BY <3>4 DEF PoseTestStep, AlignStep, FixStandStep, IndInv, PhaseInv
      <4> QED
        BY <2>1, <4>1, <4>2
    <3>5. CASE NotStopping /\ PolicyStep
      BY <2>0, <3>5 DEF PolicyStep, stop, StopRank, Phases, StopPhases, IndInv, PhaseInv
    <3> QED
      BY <2>6, <3>1, <3>2, <3>3, <3>4, <3>5 DEF PolicyTimer, advance_graceful_stop
  <2>7. CASE MotorTimer
    BY <2>1, <2>2, <2>7 DEF MotorTimer, GateFault, Publish, stop
  <2>8. CASE Tick
    BY <2>0, <2>8 DEF Tick, Older, StopRank, Phases, StopPhases, IndInv, PhaseInv
  <2>9. CASE Interrupt
    BY <2>1, <2>9 DEF Interrupt, stop
  <2> QED
    BY <2>3, <2>4, <2>5, <2>6, <2>7, <2>8, <2>9 DEF Next
<1> QED
  BY <1>1, Invariance, PTL DEF Spec, StopOnlyMovesForward

-----------------------------------------------------------------------------
(* Legs that hold a position are watched.  The invariant follows a command   *)
(* from the buffer to the wire: with the internal stand-up nothing fills the *)
(* buffer before R1, and until a stop begins nothing forgets R1.             *)

WatchInv ==
    standupMode = "internal" /\ phase = "idle" /\ (buffer \in Stiff \/ out \in Stiff)
        => standAge # -1

\* A step that sends nothing new and forgets no stand-up keeps it.
LEMMA WatchKept ==
    ASSUME IndInv, WatchInv, standupMode' = standupMode,
           phase' = "idle" => phase = "idle",
           phase = "idle" /\ standAge # -1 => standAge' # -1,
           buffer' = buffer \/ buffer' \notin Stiff \/ standAge # -1,
           out' = out \/ out' \notin Stiff \/ out' = buffer'
    PROVE  WatchInv'
<1> SUFFICES ASSUME standupMode' = "internal", phase' = "idle",
                    buffer' \in Stiff \/ out' \in Stiff
             PROVE  standAge' # -1
  BY DEF WatchInv
<1>1. standAge # -1
  BY DEF WatchInv, Stiff
<1> QED
  BY <1>1

LEMMA WatchInitially == Init => WatchInv
  BY DEF Init, WatchInv, Stiff

LEMMA WatchPolicyTimer == IndInv /\ WatchInv /\ PolicyTimer => WatchInv'
<1> SUFFICES ASSUME IndInv, WatchInv, PolicyTimer PROVE WatchInv'
  OBVIOUS
<1>1. CASE GateFault \/ PolicyFault
  BY <1>1 DEF GateFault, PolicyFault, trigger_safety_stop, WatchInv
<1>2. CASE advance_graceful_stop
  BY <1>2 DEF advance_graceful_stop, BeginLieDown, KeepLying, SendArmHome, CompleteStop,
     WatchInv, stop
<1>3. CASE /\ UNCHANGED <<config, sensed, faulted, out, estop, exited>>
           /\ NotStopping /\ (PoseTestStep \/ AlignStep \/ FixStandStep \/ PolicyStep)
  <2>1. standupMode' = standupMode /\ phase' = phase /\ standAge' = standAge /\ out' = out
    BY <1>3 DEF PoseTestStep, AlignStep, FixStandStep, PolicyStep, config, request, stop
  <2>2. standupMode = "internal" /\ phase = "idle" => standAge # -1
    BY DEF PolicyTimer, PolicyTimerIdle, IndInv, StandInv
  <2> QED
    BY <2>1, <2>2 DEF WatchInv
<1> QED
  BY <1>1, <1>2, <1>3 DEF PolicyTimer

LEMMA WatchButtons ==
    IndInv /\ WatchInv /\ (PressL1 \/ PressR1 \/ PressR2 \/ PressL2 \/ PressY) => WatchInv'
<1> SUFFICES ASSUME IndInv, WatchInv, PressL1 \/ PressR1 \/ PressR2 \/ PressL2 \/ PressY
             PROVE  WatchInv'
  OBVIOUS
<1>1. CASE PressL1
  <2>1. phase' # "idle"
    BY <1>1 DEF PressL1, request_graceful_stop, StopInMotion, StopAtRest, emergency_stop, stop
  <2> QED
    BY <2>1 DEF WatchInv
<1>2. CASE PressR1
  BY <1>2, WatchKept DEF PressR1, config, stop, wire
<1>3. CASE PressR2 \/ PressY
  BY <1>3, WatchKept DEF PressR2, PressY, config, request, stop, wire
<1>4. CASE PressL2
  BY <1>4, WatchKept
  DEF PressL2, ResumeMoving, start_pose_test, start_policy_alignment, config, request, stop,
      wire
<1> QED
  BY <1>1, <1>2, <1>3, <1>4

LEMMA WatchStep == IndInv /\ WatchInv /\ [Next]_vars => WatchInv'
<1> SUFFICES ASSUME IndInv, WatchInv, [Next]_vars PROVE WatchInv'
  OBVIOUS
<1>1. CASE LowState \/ SportState
  <2>1. CASE trigger_safety_stop
    BY <2>1 DEF trigger_safety_stop, WatchInv
  <2>2. CASE LowStateGood \/ SportState
    BY <2>2, WatchKept DEF LowStateGood, SportState, config, request, stop, wire
  <2> QED
    BY <1>1, <2>1, <2>2 DEF LowState, LowStateBad
<1>2. CASE MotorTimer
  <2>1. CASE GateFault
    BY <2>1 DEF GateFault, trigger_safety_stop, WatchInv
  <2>2. CASE Publish
    BY <2>2, WatchKept DEF Publish, Stiff, config, request, stop
  <2> QED
    BY <1>2, <2>1, <2>2 DEF MotorTimer
<1>3. CASE Tick
  <2>1. standAge # -1 => standAge' # -1
    BY <1>3, TimesAssumption DEF Tick, Older, IndInv, TypeOK
  <2> QED
    BY <1>3, <2>1, WatchKept DEF Tick, config, wire
<1>4. CASE Interrupt \/ UNCHANGED vars
  BY <1>4, WatchKept DEF Interrupt, vars, config, request, stop, wire
<1> QED
  BY <1>1, <1>2, <1>3, <1>4, WatchPolicyTimer, WatchButtons DEF Next

\* For every mode and duration: while the legs hold a position, both timers
\* reach their watchdogs, whatever was pressed, lost or stopped since.
THEOREM LegsWatched == Spec => []HeldLegsAreWatched
<1>1. IndInv /\ WatchInv => HeldLegsAreWatched
  <2> SUFFICES ASSUME IndInv, WatchInv, out \in Stiff,
                      ~(standupMode = "pose_test" /\ phase = "idle" /\ ~Requested)
               PROVE  low_level_control_active /\ ~PolicyTimerIdle
    BY DEF HeldLegsAreWatched
  <2>1. standupMode \in {"internal", "pose_test"}
    BY ModesAssumption DEF IndInv, TypeOK
  <2>2. CASE phase = "idle" /\ standupMode = "internal"
    BY <2>2 DEF WatchInv, low_level_control_active, Requested, PolicyTimerIdle
  <2>3. CASE phase = "idle" /\ standupMode = "pose_test"
    BY <2>3 DEF low_level_control_active, PolicyTimerIdle
  <2>4. CASE phase # "idle"
    <3>1. phase # "hard_stop"
      BY DEF IndInv, PhaseInv, Stiff
    <3> QED
      BY <2>4, <3>1 DEF IndInv, TypeOK, Phases, low_level_control_active, PolicyTimerIdle
  <2> QED
    BY <2>1, <2>2, <2>3, <2>4
<1>2. Init => WatchInv
  BY WatchInitially
<1>3. IndInv /\ WatchInv /\ [Next]_vars => WatchInv'
  BY WatchStep
<1> QED
  BY <1>1, <1>2, <1>3, Invariance, PTL DEF Spec
=============================================================================
