---------------------------- MODULE WbcStopProofs ----------------------------
(***************************************************************************)
(* The leg controller implements StopProtocol, never speeds up while it     *)
(* stops and never drops legs that hold the robot: for every stand-up mode, *)
(* command source and duration.                                             *)
(*                                                                         *)
(* What is new against WbcControlProofs is the ramp: its cubic falls from   *)
(* the speed at the first L1 to zero without turning back, however it is    *)
(* rounded.                                                                 *)
(***************************************************************************)
EXTENDS WbcControlProofs

-----------------------------------------------------------------------------
(* The cubic. *)

\* Division rounds down.
LEMMA DivFloor ==
    ASSUME NEW x \in Int, NEW n \in Nat \ {0}
    PROVE  /\ x \div n \in Int
           /\ n * (x \div n) <= x /\ x < n * (x \div n) + n
OBVIOUS

\* A bound on a dividend bounds the quotient.
LEMMA DivAtLeast ==
    ASSUME NEW x \in Int, NEW n \in Nat \ {0}, NEW c \in Int, n * c <= x
    PROVE  c <= x \div n
<1> DEFINE q == x \div n
<1>1. q \in Int /\ x < n * q + n BY DivFloor
<1> HIDE DEF q
<1> SUFFICES ASSUME q + 1 <= c PROVE FALSE BY <1>1 DEF q
<1>2. n * (q + 1) <= n * c BY <1>1
<1>3. n * (q + 1) = n * q + n BY <1>1
<1>4. n * q \in Int /\ n * c \in Int BY <1>1
<1> QED BY <1>1, <1>2, <1>3, <1>4

\* A greater dividend has no smaller quotient.
LEMMA DivGrows ==
    ASSUME NEW x \in Int, NEW y \in Int, NEW n \in Nat \ {0}, x <= y
    PROVE  x \div n <= y \div n
<1> DEFINE q == x \div n
<1>1. q \in Int /\ n * q <= x BY DivFloor
<1>2. n * q \in Int BY <1>1
<1> HIDE DEF q
<1>3. n * q <= y BY <1>1, <1>2
<1> QED BY <1>1, <1>3, DivAtLeast DEF q

\* The cubic stays between nothing and all.
LEMMA SmoothBounds ==
    ASSUME NEW k \in Nat, NEW d \in Nat, k <= d
    PROVE  Smooth(k, d) \in Int /\ 0 <= Smooth(k, d) /\ Smooth(k, d) <= d * d * d
<1> DEFINE e == d - k
<1>1. e \in Nat /\ d = k + e OBVIOUS
<1> HIDE DEF e
<1>2. Smooth(k, d) = k * k * (k + 3 * e) BY <1>1 DEF Smooth
<1>3. k * k \in Nat /\ k + 3 * e \in Nat BY <1>1
<1>4. k * k * (k + 3 * e) \in Nat BY <1>3
<1>5. d * d * d - Smooth(k, d) = e * e * (3 * k + e)
  BY <1>1, <1>2
<1>6. e * e * (3 * k + e) \in Nat
  <2>1. e * e \in Nat /\ 3 * k + e \in Nat BY <1>1
  <2> QED BY <2>1
<1>7. d * d * d \in Int OBVIOUS
<1> QED BY <1>2, <1>4, <1>5, <1>6, <1>7

\* It rises from one step to the next.
LEMMA SmoothGrows ==
    ASSUME NEW k \in Nat, NEW d \in Nat, k < d
    PROVE  Smooth(k, d) <= Smooth(k + 1, d)
<1> DEFINE e == d - k - 1
<1>1. e \in Nat /\ d = k + 1 + e OBVIOUS
<1> HIDE DEF e
<1>2. Smooth(k + 1, d) - Smooth(k, d) = 6 * (k * e) + 3 * k + 3 * e + 1
  BY <1>1 DEF Smooth
<1>3. k * e \in Nat BY <1>1
<1>4. Smooth(k + 1, d) \in Int /\ Smooth(k, d) \in Int BY DEF Smooth
<1> QED BY <1>1, <1>2, <1>3, <1>4

\* A ramp between two commands that are not negative is not negative.
LEMMA BlendNat ==
    ASSUME NEW a \in Nat, NEW b \in Nat, NEW k \in Nat, NEW d \in Nat
    PROVE  Blend(a, b, k, d) \in Nat
<1>1. CASE k >= d
  BY <1>1 DEF Blend
<1>2. CASE k < d
  <2> DEFINE n == d * d * d
             s == Smooth(k, d)
             x == (b - a) * s
  <2>1. n \in Nat \ {0}
    <3>1. d * d \in Nat \ {0} BY <1>2
    <3> QED BY <1>2, <3>1
  <2>2. s \in Nat /\ n - s \in Nat
    BY <1>2, <2>1, SmoothBounds
  <2>3. Blend(a, b, k, d) = a + x \div n
    BY <1>2 DEF Blend
  <2> HIDE DEF n, s
  <2>4. x - n * (0 - a) = b * s + a * (n - s)
    BY <2>1, <2>2
  <2>5. b * s \in Nat /\ a * (n - s) \in Nat
    BY <2>2
  <2>6. x \in Int /\ n * (0 - a) \in Int
    BY <2>1, <2>2
  <2> HIDE DEF x
  <2>7. n * (0 - a) <= x
    BY <2>4, <2>5, <2>6
  <2>8. 0 - a <= x \div n
    BY <2>1, <2>6, <2>7, DivAtLeast
  <2>9. x \div n \in Int
    BY <2>1, <2>6, DivFloor
  <2> QED
    BY <2>3, <2>8, <2>9
<1> QED
  BY <1>1, <1>2

\* A ramp to zero starts no faster than its first command.
LEMMA BlendStarts ==
    ASSUME NEW a \in Nat, NEW d \in Nat
    PROVE  Blend(a, 0, 0, d) <= a
<1>1. CASE d = 0
  BY <1>1 DEF Blend
<1>2. CASE d # 0
  <2>1. d * d * d \in Nat \ {0}
    <3>1. d * d \in Nat \ {0} BY <1>2
    <3> QED BY <1>2, <3>1
  <2>2. (0 - a) * Smooth(0, d) = 0
    BY DEF Smooth
  <2>3. 0 \div (d * d * d) = 0
    BY <2>1
  <2> QED
    BY <1>2, <2>2, <2>3 DEF Blend
<1> QED
  BY <1>1, <1>2

\* A ramp to zero never turns back.
LEMMA BlendFalls ==
    ASSUME NEW a \in Nat, NEW k \in Nat, NEW d \in Nat
    PROVE  Blend(a, 0, k + 1, d) <= Blend(a, 0, k, d)
<1>1. CASE k + 1 >= d
  <2>1. Blend(a, 0, k, d) \in Nat
    BY BlendNat
  <2> QED
    BY <1>1, <2>1 DEF Blend
<1>2. CASE k + 1 < d
  <2> DEFINE n == d * d * d
             s == Smooth(k, d)
             t == Smooth(k + 1, d)
             x == (0 - a) * s
             y == (0 - a) * t
  <2>1. n \in Nat \ {0}
    <3>1. d * d \in Nat \ {0} BY <1>2
    <3> QED BY <1>2, <3>1
  <2>2. s \in Int /\ t \in Int /\ s <= t
    BY <1>2, SmoothGrows DEF Smooth
  <2>3. Blend(a, 0, k, d) = a + x \div n /\ Blend(a, 0, k + 1, d) = a + y \div n
    BY <1>2 DEF Blend
  <2> HIDE DEF n, s, t
  <2>4. x - y = a * (t - s) /\ t - s \in Nat
    BY <2>2
  <2>5. a * (t - s) \in Nat /\ x \in Int /\ y \in Int
    BY <2>2, <2>4
  <2> HIDE DEF x, y
  <2>6. y <= x
    BY <2>4, <2>5
  <2>7. y \div n <= x \div n
    BY <2>1, <2>5, <2>6, DivGrows
  <2>8. y \div n \in Int /\ x \div n \in Int
    BY <2>1, <2>5, DivFloor
  <2> QED
    BY <2>3, <2>7, <2>8
<1> QED
  BY <1>1, <1>2

-----------------------------------------------------------------------------
(* What the stop relies on, next to IndInv.                                 *)

\* The robot only ever walks forward.
RangeInv == cmd \in Nat /\ cmdStart \in Nat /\ cmdTarget \in Nat

\* While the base is brought to rest, the ramp has come down at least as far
\* as the command.
ZeroInv ==
    phase = "zeroing" => cmdTarget = 0 /\ Blend(cmdStart, 0, rampAge, rampTime) <= cmd

\* Nothing is asked of a robot that was never heard.
TickInv == Requested => tick

\* Legs nobody asked to stand were not held; a stop ends from the lie-down.
BufferInv ==
    standupMode = "internal" =>
        /\ phase = "idle" /\ standAge = -1 => buffer \in {"posstop", "passive"}
        /\ phase = "arm_home" => buffer = "lie"
        /\ phase = "complete" => buffer \in {"posstop", "passive"}

StopInv == RangeInv /\ ZeroInv /\ TickInv /\ BufferInv

LEMMA InitStop == Init => StopInv
  BY DEF Init, StopInv, RangeInv, ZeroInv, TickInv, BufferInv, Requested

\* What most steps do to the state the invariant reads: nothing.
LEMMA StopFrame ==
    ASSUME StopInv, tick => tick',
           UNCHANGED <<config, request, phase, cmd, ramp, buffer>>
    PROVE  StopInv'
<1> USE DEF config, request, ramp
<1>1. RangeInv'
  BY DEF StopInv, RangeInv
<1>2. ZeroInv'
  BY DEF StopInv, ZeroInv
<1>3. TickInv' /\ BufferInv'
  BY DEF StopInv, TickInv, BufferInv, Requested
<1> QED
  BY <1>1, <1>2, <1>3 DEF StopInv

\* A safety stop leaves nothing to stop.
LEMMA SafetyStopStop ==
    ASSUME trigger_safety_stop, cmdStart' \in Nat, cmdTarget' \in Nat
    PROVE  StopInv'
  BY DEF trigger_safety_stop, config, StopInv, RangeInv, ZeroInv, TickInv, BufferInv,
         Requested

LEMMA GateFaultStop == StopInv /\ GateFault => StopInv'
  BY SafetyStopStop DEF GateFault, ramp, StopInv, RangeInv

LEMMA MessageStop == IndInv /\ StopInv /\ (LowState \/ SportState) => StopInv'
<1> SUFFICES ASSUME IndInv, StopInv, LowState \/ SportState PROVE StopInv'
  OBVIOUS
<1>1. CASE LowStateGood
  BY <1>1, StopFrame DEF LowStateGood, stop, wire
<1>2. ASSUME NEW check \in {"motor_count", "value", "estimate"}, LowStateBad(check)
      PROVE  StopInv'
  BY <1>2, SafetyStopStop DEF LowStateBad, ramp, StopInv, RangeInv
<1>3. CASE SportState
  BY <1>3, StopFrame DEF SportState, stop, wire
<1> QED
  BY <1>1, <1>2, <1>3 DEF LowState

\* The buttons of an idle controller.
LEMMA ButtonStop ==
    IndInv /\ StopInv /\ (PressR1 \/ PressR2 \/ PressL2 \/ PressY) => StopInv'
<1> SUFFICES ASSUME IndInv, StopInv, PressR1 \/ PressR2 \/ PressL2 \/ PressY
             PROVE  StopInv'
  OBVIOUS
<1> USE DEF ButtonsLive, config, stop, sensed, wire
<1>1. phase = "idle" /\ phase' = "idle" /\ tick' = tick /\ buffer' = buffer
      /\ standupMode' = standupMode
  BY DEF PressR1, PressR2, PressL2, PressY
<1>2. RangeInv'
  BY MoveCmdAssumption
  DEF PressR1, PressR2, PressL2, PressY, ResumeMoving, set_policy_command_target,
      start_pose_test, start_policy_alignment, ramp, StopInv, RangeInv
<1>3. ZeroInv'
  BY <1>1 DEF ZeroInv
<1>4. TickInv'
  BY <1>1
  DEF PressR1, PressR2, PressL2, PressY, ResumeMoving, start_pose_test,
      start_policy_alignment, ready_to_start_policy, request, StopInv, TickInv, Requested
<1>5. standAge' = -1 => standAge = -1
  BY DEF PressR1, PressR2, PressL2, PressY, ResumeMoving, start_pose_test,
         start_policy_alignment, request
<1>6. BufferInv'
  BY <1>1, <1>5 DEF StopInv, BufferInv
<1> QED
  BY <1>2, <1>3, <1>4, <1>6 DEF StopInv

LEMMA PressL1Stop == IndInv /\ StopInv /\ PressL1 => StopInv'
<1> SUFFICES ASSUME IndInv, StopInv, PressL1 PROVE StopInv'
  OBVIOUS
<1>1. CASE emergency_stop
  BY <1>1, StopFrame DEF emergency_stop, stop, sensed, wire
<1>2. CASE request_graceful_stop
  <2>1. RangeInv'
    BY <1>2
    DEF request_graceful_stop, set_policy_command_target, StopInMotion, StopAtRest,
        StopInv, RangeInv
  <2>2. ZeroInv'
    <3>1. CASE StopAtRest
      BY <3>1 DEF StopAtRest, ZeroInv
    <3>2. CASE StopInMotion
      <4>1. /\ cmdStart' = cmd /\ cmdTarget' = 0 /\ rampAge' = 0 /\ cmd' = cmd
            /\ rampTime' \in Nat /\ cmd \in Nat
        BY <1>2, <3>2, TimesAssumption
        DEF request_graceful_stop, set_policy_command_target, StopInMotion, StopInv, RangeInv
      <4> QED
        BY <4>1, BlendStarts DEF ZeroInv
    <3> QED
      BY <1>2, <3>1, <3>2 DEF request_graceful_stop
  <2>3. TickInv'
    BY <1>2
    DEF request_graceful_stop, StopInMotion, StopAtRest, sensed, StopInv, TickInv, Requested
  <2>4. BufferInv'
    <3>1. CASE StopAtRest
      <4>1. standAge = -1 /\ phase = "idle"
        <5>1. ~(tick /\ Requested) \/ ~Requested
          BY <1>2, <3>1 DEF request_graceful_stop, StopAtRest, StopInMotion
        <5> QED
          BY <1>2, <5>1 DEF StopInv, TickInv, request_graceful_stop, Requested
      <4> QED
        BY <1>2, <3>1, <4>1
        DEF request_graceful_stop, StopAtRest, config, StopInv, BufferInv
    <3>2. CASE StopInMotion
      BY <3>2 DEF StopInMotion, BufferInv
    <3> QED
      BY <1>2, <3>1, <3>2 DEF request_graceful_stop
  <2> QED
    BY <2>1, <2>2, <2>3, <2>4 DEF StopInv
<1> QED
  BY <1>1, <1>2 DEF PressL1

LEMMA AdvanceStop ==
    /\ IndInv /\ StopInv /\ advance_graceful_stop
    /\ UNCHANGED <<config, sensed, faulted, out, estop, exited>>
    => StopInv'
<1> SUFFICES ASSUME IndInv, StopInv, advance_graceful_stop,
                    UNCHANGED <<config, sensed, faulted, out, estop, exited>>
             PROVE  StopInv'
  OBVIOUS
<1> USE DEF config, sensed, stop, request, ramp
<1>1. RangeInv'
  BY DEF advance_graceful_stop, BeginLieDown, KeepLying, SendArmHome, CompleteStop,
         StopInv, RangeInv
<1>2. ZeroInv'
  BY DEF advance_graceful_stop, BeginLieDown, KeepLying, SendArmHome, CompleteStop, ZeroInv
<1>3. TickInv'
  BY DEF advance_graceful_stop, BeginLieDown, KeepLying, SendArmHome, CompleteStop,
         StopInv, TickInv, Requested
<1>4. BufferInv'
  BY DEF advance_graceful_stop, BeginLieDown, KeepLying, SendArmHome, CompleteStop, BufferInv
<1> QED
  BY <1>1, <1>2, <1>3, <1>4 DEF StopInv

\* The legs are filled with a stiff command only on request, or with the base
\* still ramping down.
LEMMA HoldLegsStop ==
    /\ IndInv /\ StopInv /\ ~PolicyTimerIdle
    /\ NotStopping /\ (PoseTestStep \/ AlignStep \/ FixStandStep)
    /\ UNCHANGED <<config, sensed, faulted, out, estop, exited>>
    => StopInv'
<1> SUFFICES ASSUME IndInv, StopInv, ~PolicyTimerIdle, NotStopping,
                    PoseTestStep \/ AlignStep \/ FixStandStep,
                    UNCHANGED <<config, sensed, faulted, out, estop, exited>>
             PROVE  StopInv'
  OBVIOUS
<1> USE DEF config, sensed, stop, request, ramp
<1>1. RangeInv'
  BY DEF PoseTestStep, AlignStep, FixStandStep, set_policy_command_target, StopInv, RangeInv
<1>2. AlignStep => phase = "idle"
  BY DEF AlignStep, IndInv, PhaseInv
<1>3. ZeroInv'
  BY <1>2 DEF PoseTestStep, AlignStep, FixStandStep, StopInv, ZeroInv
<1>4. TickInv'
  BY DEF PoseTestStep, AlignStep, FixStandStep, StopInv, TickInv, Requested
<1>5. phase' = phase /\ standAge' = standAge /\ standupMode' = standupMode
  BY DEF PoseTestStep, AlignStep, FixStandStep
<1>6. standupMode = "internal" /\ phase = "idle" => standAge # -1
  BY DEF PolicyTimerIdle, IndInv, StandInv
<1>7. BufferInv'
  BY <1>5, <1>6 DEF BufferInv, NotStopping
<1> QED
  BY <1>1, <1>3, <1>4, <1>7 DEF StopInv

\* While the base is brought to rest a policy step follows the ramp down.
LEMMA PolicyStepSlows ==
    ASSUME IndInv, StopInv, NotStopping, PolicyStep
    PROVE  /\ phase' = phase /\ phase \in {"idle", "zeroing"}
           /\ RangeInv'
           /\ phase = "zeroing" =>
                /\ UNCHANGED ramp /\ cmdTarget = 0
                /\ cmd' = Blend(cmdStart, 0, rampAge, rampTime) /\ cmd' <= cmd
<1>1. phase' = phase /\ phase \in {"idle", "zeroing"}
  BY DEF PolicyStep, NotStopping, stop
<1>2. /\ cmdStart' \in Nat /\ cmdTarget' \in Nat
      /\ rampAge' \in Nat /\ rampTime' \in Nat
  BY TimesAssumption, MoveCmdAssumption
  DEF PolicyStep, UpdateTarget, set_policy_command_target, ramp, StopInv, RangeInv,
      IndInv, TypeOK
<1>3. cmd' \in Nat
  <2>1. CASE InHandover
    BY <2>1 DEF PolicyStep, UpdateCommand
  <2>2. CASE ~InHandover /\ phase = "idle" /\ baseSource = "wireless_joystick"
    <3>1. PICK stick \in 0 .. MoveCmd, valid \in BOOLEAN, centred \in BOOLEAN :
              JoystickCommand(stick, valid, centred)
      BY <2>2 DEF PolicyStep, UpdateCommand
    <3>2. cmd \in Nat /\ stick \in Nat
      BY MoveCmdAssumption DEF StopInv, RangeInv
    <3> QED
      BY <3>1, <3>2 DEF JoystickCommand, Between
  <2>3. CASE ~InHandover /\ ~(phase = "idle" /\ baseSource = "wireless_joystick")
    <3>1. cmd' = Blend(cmdStart', cmdTarget', rampAge', rampTime')
      BY <2>3 DEF PolicyStep, UpdateCommand
    <3> QED
      BY <1>2, <3>1, BlendNat
  <2> QED
    BY <2>1, <2>2, <2>3
<1>4. ASSUME phase = "zeroing"
      PROVE  /\ UNCHANGED ramp /\ cmdTarget = 0
             /\ cmd' = Blend(cmdStart, 0, rampAge, rampTime) /\ cmd' <= cmd
  <2>1. UNCHANGED ramp
    BY <1>4 DEF PolicyStep, UpdateTarget, HandoverDone
  <2>2. cmdTarget = 0 /\ Blend(cmdStart, 0, rampAge, rampTime) <= cmd
    BY <1>4 DEF StopInv, ZeroInv
  <2>3. cmd' = Blend(cmdStart, 0, rampAge, rampTime)
    BY <1>4, <2>1, <2>2 DEF PolicyStep, UpdateCommand, InHandover, ramp
  <2> QED
    BY <2>1, <2>2, <2>3
<1> QED
  BY <1>1, <1>2, <1>3, <1>4 DEF RangeInv

LEMMA PolicyStepStop ==
    /\ IndInv /\ StopInv /\ NotStopping /\ PolicyStep
    /\ UNCHANGED <<config, sensed, faulted, out, estop, exited>>
    => StopInv'
<1> SUFFICES ASSUME IndInv, StopInv, NotStopping, PolicyStep,
                    UNCHANGED <<config, sensed, faulted, out, estop, exited>>
             PROVE  StopInv'
  OBVIOUS
<1>1. RangeInv'
  BY PolicyStepSlows
<1>2. ZeroInv'
  <2> SUFFICES ASSUME phase' = "zeroing"
               PROVE  cmdTarget' = 0 /\ Blend(cmdStart', 0, rampAge', rampTime') <= cmd'
    BY DEF ZeroInv
  <2>1. /\ UNCHANGED ramp /\ cmdTarget = 0
        /\ cmd' = Blend(cmdStart, 0, rampAge, rampTime) /\ cmd' \in Nat
    BY <1>1, PolicyStepSlows DEF RangeInv
  <2> QED
    BY <2>1 DEF ramp
<1>3. TickInv'
  BY DEF PolicyStep, sensed, StopInv, TickInv, Requested
<1>4. BufferInv'
  BY PolicyStepSlows DEF PolicyStep, BufferInv, IndInv, StandInv
<1> QED
  BY <1>1, <1>2, <1>3, <1>4 DEF StopInv

LEMMA PolicyTimerStop == IndInv /\ StopInv /\ PolicyTimer => StopInv'
<1> SUFFICES ASSUME IndInv, StopInv, PolicyTimer PROVE StopInv'
  OBVIOUS
<1>1. CASE GateFault
  BY <1>1, GateFaultStop
<1>2. ASSUME UNCHANGED <<config, sensed, faulted, out, estop, exited>>,
             \/ advance_graceful_stop
             \/ NotStopping /\ (PoseTestStep \/ AlignStep \/ FixStandStep \/ PolicyStep)
      PROVE  StopInv'
  BY <1>2, AdvanceStop, HoldLegsStop, PolicyStepStop DEF PolicyTimer
<1>3. CASE PolicyFault
  BY <1>3, SafetyStopStop, MoveCmdAssumption
  DEF PolicyFault, UpdateTarget, set_policy_command_target, ramp, StopInv, RangeInv
<1> QED
  BY <1>1, <1>2, <1>3 DEF PolicyTimer

LEMMA MotorTimerStop == IndInv /\ StopInv /\ MotorTimer => StopInv'
<1> SUFFICES ASSUME IndInv, StopInv, MotorTimer PROVE StopInv'
  OBVIOUS
<1>1. CASE GateFault
  BY <1>1, GateFaultStop
<1>2. CASE Publish
  <2> USE <1>2 DEF Publish, config, request, stop, ramp, sensed
  <2>1. RangeInv' /\ ZeroInv' /\ TickInv'
    BY DEF StopInv, RangeInv, ZeroInv, TickInv, Requested
  <2>2. BufferInv'
    BY DEF PassiveWanted, StopInv, BufferInv
  <2> QED
    BY <2>1, <2>2 DEF StopInv
<1> QED
  BY <1>1, <1>2 DEF MotorTimer

LEMMA ClockStop == IndInv /\ StopInv /\ (Tick \/ Interrupt) => StopInv'
<1> SUFFICES ASSUME IndInv, StopInv, Tick \/ Interrupt PROVE StopInv'
  OBVIOUS
<1>1. CASE Tick
  <2> USE <1>1 DEF Tick, config, wire
  <2>1. RangeInv'
    BY DEF StopInv, RangeInv
  <2>2. ZeroInv'
    <3> SUFFICES ASSUME phase = "zeroing"
                 PROVE  cmdTarget = 0 /\ Blend(cmdStart, 0, rampAge', rampTime) <= cmd
      BY DEF ZeroInv
    <3>1. cmdTarget = 0 /\ Blend(cmdStart, 0, rampAge, rampTime) <= cmd
      BY DEF StopInv, ZeroInv
    <3>2. cmdStart \in Nat /\ rampAge \in Nat /\ rampTime \in Nat /\ cmd \in Nat
      BY TimesAssumption DEF StopInv, RangeInv, IndInv, TypeOK
    <3>3. rampAge' = rampAge \/ rampAge' = rampAge + 1
      BY DEF Older
    <3>4. Blend(cmdStart, 0, rampAge + 1, rampTime) <= Blend(cmdStart, 0, rampAge, rampTime)
      BY <3>2, BlendFalls
    <3>5. /\ Blend(cmdStart, 0, rampAge + 1, rampTime) \in Nat
          /\ Blend(cmdStart, 0, rampAge, rampTime) \in Nat
      <4> HIDE DEF Tick
      <4>1. Blend(cmdStart, 0, rampAge, rampTime) \in Nat
        BY <3>2, BlendNat
      <4>2. rampAge + 1 \in Nat
        BY <3>2
      <4>3. Blend(cmdStart, 0, rampAge + 1, rampTime) \in Nat
        BY <3>2, <4>2, BlendNat
      <4> QED
        BY <4>1, <4>3
    <3>6. CASE rampAge' = rampAge
      BY <3>1, <3>6
    <3>7. CASE rampAge' = rampAge + 1
      <4>1. Blend(cmdStart, 0, rampAge', rampTime) <= Blend(cmdStart, 0, rampAge, rampTime)
        BY <3>4, <3>7
      <4>2. Blend(cmdStart, 0, rampAge', rampTime) \in Nat
        BY <3>5, <3>7
      <4> HIDE DEF Tick
      <4> QED
        BY <3>1, <3>2, <3>5, <4>1, <4>2
    <3> QED
      BY <3>3, <3>6, <3>7
  <2>3. standAge' = -1 <=> standAge = -1
    BY TimesAssumption DEF Older, IndInv, TypeOK
  <2>4. TickInv' /\ BufferInv'
    BY <2>3 DEF StopInv, TickInv, Requested, BufferInv
  <2> QED
    BY <2>1, <2>2, <2>4 DEF StopInv
<1>2. CASE Interrupt
  BY <1>2, StopFrame DEF Interrupt, stop, sensed, wire
<1> QED
  BY <1>1, <1>2

LEMMA StepStop == IndInv /\ StopInv /\ [Next]_vars => StopInv'
<1>1. IndInv /\ StopInv /\ UNCHANGED vars => StopInv'
  BY StopFrame DEF vars, stop, sensed, wire
<1> QED
  BY <1>1, MessageStop, ButtonStop, PressL1Stop, PolicyTimerStop, MotorTimerStop, ClockStop
  DEF Next

\* What a stop relies on holds in every state.
THEOREM StopInvariance == Spec => [](IndInv /\ StopInv)
<1>1. Init => StopInv
  BY InitStop
<1>2. IndInv /\ StopInv /\ [Next]_vars => StopInv'
  BY StepStop
<1> QED
  BY <1>1, <1>2, Invariance, PTL DEF Spec

-----------------------------------------------------------------------------
(* The theorems.                                                           *)

\* Once a stop has begun, however it is timed and whatever arrives, no step
\* raises the base command: the timer follows a falling ramp, the end of the
\* ramp and a safety stop put it to zero, and nothing else writes it.
THEOREM NeverFaster == Spec => StopNeverSpeedsUp
<1>1. IndInv /\ StopInv /\ [Next]_vars => [phase # "idle" => cmd' <= cmd]_vars
  <2> SUFFICES ASSUME IndInv, StopInv, Next, phase # "idle"
               PROVE  cmd' <= cmd
    OBVIOUS
  <2>1. cmd \in Nat
    BY DEF StopInv, RangeInv
  <2>2. ASSUME trigger_safety_stop PROVE cmd' <= cmd
    BY <2>1, <2>2 DEF trigger_safety_stop
  <2>3. CASE LowState \/ SportState
    BY <2>1, <2>2, <2>3 DEF LowState, LowStateGood, LowStateBad, SportState
  <2>4. CASE PressL1
    BY <2>1, <2>4 DEF PressL1, request_graceful_stop, emergency_stop
  <2>5. CASE PressR1 \/ PressR2 \/ PressL2 \/ PressY
    BY <2>5 DEF PressR1, PressR2, PressL2, PressY, ButtonsLive
  <2>6. CASE PolicyTimer
    <3>1. CASE GateFault \/ PolicyFault
      BY <2>2, <3>1 DEF GateFault, PolicyFault
    <3>2. CASE advance_graceful_stop
      BY <2>1, <3>2
      DEF advance_graceful_stop, BeginLieDown, KeepLying, SendArmHome, CompleteStop
    <3>3. CASE NotStopping /\ (PoseTestStep \/ AlignStep \/ FixStandStep)
      BY <2>1, <3>3 DEF PoseTestStep, AlignStep, FixStandStep, IndInv, PhaseInv
    <3>4. CASE NotStopping /\ PolicyStep
      BY <3>4, PolicyStepSlows
    <3> QED
      BY <2>6, <3>1, <3>2, <3>3, <3>4 DEF PolicyTimer
  <2>7. CASE MotorTimer
    BY <2>1, <2>2, <2>7 DEF MotorTimer, GateFault, Publish
  <2>8. CASE Tick \/ Interrupt
    BY <2>1, <2>8 DEF Tick, Interrupt
  <2> QED
    BY <2>3, <2>4, <2>5, <2>6, <2>7, <2>8 DEF Next
<1> QED
  BY <1>1, StopInvariance, PTL DEF Spec, StopNeverSpeedsUp

\* With the internal stand-up, legs that a position loop holds are let down by
\* the lie-down before anything writes the damping command.
THEOREM NeverDropped == Spec => LegsNeverDropped
<1> DEFINE Kept == standupMode = "internal" /\ buffer' = "passive"
                     => buffer \in {"posstop", "passive", "lie"}
<1>1. IndInv /\ StopInv /\ [Next]_vars => [Kept]_vars
  <2> SUFFICES ASSUME IndInv, StopInv, Next, standupMode = "internal",
                      buffer' = "passive", buffer' # buffer
               PROVE  buffer \in {"posstop", "passive", "lie"}
    OBVIOUS
  <2>1. CASE PressL1
    <3>1. request_graceful_stop /\ StopAtRest
      BY <2>1 DEF PressL1, request_graceful_stop, emergency_stop, StopInMotion, wire
    <3>2. standAge = -1 /\ phase = "idle"
      <4>1. ~(tick /\ Requested) \/ ~Requested
        BY <3>1 DEF request_graceful_stop, StopAtRest, StopInMotion
      <4> QED
        BY <3>1, <4>1 DEF StopInv, TickInv, request_graceful_stop, Requested
    <3> QED
      BY <3>2 DEF StopInv, BufferInv
  <2>2. CASE PolicyTimer
    <3>1. CompleteStop
      BY <2>2
      DEF PolicyTimer, GateFault, PolicyFault, trigger_safety_stop, advance_graceful_stop,
          BeginLieDown, KeepLying, SendArmHome, PoseTestStep, AlignStep, FixStandStep,
          PolicyStep
    <3> QED
      BY <3>1 DEF CompleteStop, StopInv, BufferInv
  <2>3. CASE MotorTimer
    <3>1. Publish /\ PassiveWanted
      BY <2>3 DEF MotorTimer, GateFault, trigger_safety_stop, Publish
    <3> QED
      BY <3>1 DEF PassiveWanted, Requested, StopInv, BufferInv
  <2>4. CASE ~PressL1 /\ ~PolicyTimer /\ ~MotorTimer
    BY <2>4
    DEF Next, LowState, LowStateGood, LowStateBad, trigger_safety_stop, SportState,
        PressR1, PressR2, PressL2, PressY, Tick, Interrupt, wire
  <2> QED
    BY <2>1, <2>2, <2>3, <2>4
<1> QED
  BY <1>1, StopInvariance, PTL DEF Spec, LegsNeverDropped

-----------------------------------------------------------------------------
(* The refinement.                                                         *)

\* The stage of the protocol, phase by phase, before and after a step.
LEMMA StageOf ==
    ASSUME IndInv, IndInv'
    PROVE  /\ exited => Stage = "off"
           /\ ~exited /\ phase = "idle" => Stage = "run"
           /\ ~exited /\ phase \in {"zeroing", "lying_down"} => Stage = "stopping"
           /\ ~exited /\ phase \in {"arm_home", "complete"} => Stage = "homed"
           /\ ~exited /\ phase = "hard_stop" => Stage = "hard"
           /\ exited' => Stage' = "off"
           /\ ~exited' /\ phase' = "idle" => Stage' = "run"
           /\ ~exited' /\ phase' \in {"zeroing", "lying_down"} => Stage' = "stopping"
           /\ ~exited' /\ phase' \in {"arm_home", "complete"} => Stage' = "homed"
           /\ ~exited' /\ phase' = "hard_stop" => Stage' = "hard"
  BY DEF IndInv, TypeOK, Stage, Phases, StopPhases

\* A step the rest of the robot does not see.
LEMMA Unseen ==
    ASSUME IndInv, IndInv', UNCHANGED <<phase, exited, homes, estop>>,
           cmd' = cmd
    PROVE  [Promise!Next]_(Promise!vars)
<1>1. Stage' = Stage
  BY DEF Stage
<1> QED
  BY <1>1 DEF Promise!vars

\* A safety stop is the protocol's hard stop.
LEMMA SafetyStopPromise ==
    ASSUME IndInv, IndInv', trigger_safety_stop, ~exited
    PROVE  Promise!Next
<1>1. Stage # "off" /\ Stage' = "hard"
  BY StageOf DEF trigger_safety_stop, IndInv, TypeOK, Phases, StopPhases
<1>2. (cmd # 0)' = FALSE /\ estop' = TRUE /\ homes' = homes
  BY DEF trigger_safety_stop
<1> QED
  BY <1>1, <1>2 DEF Promise!Next, Promise!HardStop

\* Speed changes of a running controller.
LEMMA DrivePromise ==
    ASSUME IndInv, IndInv', ~exited, phase = "idle",
           UNCHANGED <<phase, exited, homes, estop>>
    PROVE  Promise!Next
<1>1. Stage = "run" /\ Stage' = Stage
  BY StageOf
<1>2. (cmd # 0)' \in BOOLEAN
  OBVIOUS
<1> QED
  BY <1>1, <1>2 DEF Promise!Next, Promise!Drive

\* The two presses of L1.
LEMMA PressL1Promise ==
    ASSUME IndInv, IndInv', StopInv, PressL1
    PROVE  [Promise!Next]_(Promise!vars)
<1>1. ~exited
  BY DEF PressL1
<1>2. CASE request_graceful_stop /\ StopInMotion
  <2>1. Stage = "run" /\ Stage' = "stopping"
    BY <1>1, <1>2, StageOf DEF request_graceful_stop, StopInMotion
  <2>2. cmd' = cmd /\ homes' = homes /\ estop' = estop
    BY <1>2 DEF request_graceful_stop, StopInMotion
  <2> QED
    BY <2>1, <2>2 DEF Promise!Next, Promise!RequestStop
<1>3. CASE request_graceful_stop /\ StopAtRest
  <2>1. Stage = "run" /\ Stage' = "homed"
    BY <1>1, <1>3, StageOf DEF request_graceful_stop, StopAtRest
  <2>2. ~startPolicy
    <3>1. CASE ~Requested
      BY <3>1 DEF Requested
    <3>2. CASE ~tick
      BY <3>2 DEF StopInv, TickInv, Requested
    <3>3. CASE StopInMotion
      BY <1>3, <3>3 DEF StopInMotion, StopAtRest
    <3> QED
      BY <1>3, <3>1, <3>2, <3>3 DEF request_graceful_stop
  <2>3. cmd = 0 /\ cmd' = 0 /\ homes' = homes + 1 /\ estop' = estop
    BY <1>3, <2>2 DEF request_graceful_stop, StopAtRest, IndInv, CommandInv
  <2> QED
    BY <2>1, <2>3 DEF Promise!Next, Promise!SendHome
<1>4. CASE emergency_stop
  <2>1. Stage # "off" /\ Stage # "run" /\ Stage' = "off"
    BY <1>1, <1>4, StageOf
    DEF emergency_stop, IndInv, TypeOK, Phases, StopPhases
  <2>2. cmd' = cmd /\ homes' = homes /\ estop' = TRUE
    BY <1>4 DEF emergency_stop
  <2>3. estop' \in {estop, Stage # "run" \/ estop}
    BY <2>1, <2>2
  <2> QED
    BY <2>1, <2>2, <2>3 DEF Promise!Next, Promise!Leave
<1> QED
  BY <1>2, <1>3, <1>4 DEF PressL1, request_graceful_stop

\* The timer's own part in a stop.
LEMMA PolicyTimerPromise ==
    ASSUME IndInv, IndInv', StopInv, PolicyTimer
    PROVE  [Promise!Next]_(Promise!vars)
<1>1. ~exited
  BY DEF PolicyTimer
<1>2. CASE GateFault \/ PolicyFault
  BY <1>1, <1>2, SafetyStopPromise DEF GateFault, PolicyFault
<1> DEFINE Rest == UNCHANGED <<exited, estop>>
<1>3. CASE Rest /\ BeginLieDown
  <2>1. Stage = "stopping" /\ Stage' = "stopping"
    BY <1>1, <1>3, StageOf DEF BeginLieDown
  <2>2. (cmd # 0)' = FALSE /\ homes' = homes /\ estop' = estop
    BY <1>3 DEF BeginLieDown
  <2> QED
    BY <2>1, <2>2 DEF Promise!Next, Promise!SlowDown
<1>4. CASE Rest /\ KeepLying
  BY <1>4, Unseen DEF KeepLying, stop
<1>5. CASE Rest /\ SendArmHome
  <2>1. Stage = "stopping" /\ Stage' = "homed"
    BY <1>1, <1>5, StageOf DEF SendArmHome
  <2>2. cmd = 0 /\ cmd' = 0 /\ homes' = homes + 1 /\ estop' = estop
    BY <1>5 DEF SendArmHome, IndInv, PhaseInv, CommandInv
  <2> QED
    BY <2>1, <2>2 DEF Promise!Next, Promise!SendHome
<1>6. CASE Rest /\ CompleteStop
  <2>1. Stage' = Stage
    BY <1>1, <1>6, StageOf DEF CompleteStop
  <2> QED
    BY <1>6, <2>1 DEF CompleteStop, Promise!vars
<1>7. CASE Rest /\ NotStopping /\ (PoseTestStep \/ FixStandStep)
  BY <1>7, Unseen DEF PoseTestStep, FixStandStep, stop
<1>8. CASE Rest /\ NotStopping /\ AlignStep
  BY <1>1, <1>8, DrivePromise DEF AlignStep, stop, IndInv, PhaseInv
<1>9. CASE Rest /\ NotStopping /\ PolicyStep
  <2>1. phase' = phase /\ phase \in {"idle", "zeroing"} /\ homes' = homes
    BY <1>9, PolicyStepSlows DEF PolicyStep
  <2>2. CASE phase = "idle"
    BY <1>1, <1>9, <2>1, <2>2, DrivePromise
  <2>3. CASE phase = "zeroing"
    <3>1. Stage = "stopping" /\ Stage' = Stage
      BY <1>1, <1>9, <2>1, <2>3, StageOf
    <3>2. cmd' <= cmd /\ cmd' \in Nat /\ cmd \in Nat
      BY <1>9, <2>3, PolicyStepSlows DEF StopInv, RangeInv
    <3>3. CASE cmd' = 0
      BY <1>9, <2>1, <3>1, <3>3 DEF Promise!Next, Promise!SlowDown
    <3>4. CASE cmd' # 0
      <4>1. cmd # 0
        BY <3>2, <3>4
      <4>2. (cmd # 0)' = (cmd # 0)
        BY <3>4, <4>1
      <4> QED
        BY <1>9, <2>1, <3>1, <4>2 DEF Promise!vars
    <3> QED
      BY <3>3, <3>4
  <2> QED
    BY <2>1, <2>2, <2>3
<1> QED
  BY <1>2, <1>3, <1>4, <1>5, <1>6, <1>7, <1>8, <1>9 DEF PolicyTimer, advance_graceful_stop

\* Every step of the controller is a step of the protocol, or one it does not
\* see.
LEMMA StepPromise ==
    ASSUME IndInv, IndInv', StopInv, [Next]_vars
    PROVE  [Promise!Next]_(Promise!vars)
<1>1. CASE LowState
  <2>1. CASE LowStateGood
    BY <2>1, Unseen DEF LowStateGood, stop, sent
  <2>2. ASSUME NEW check \in {"motor_count", "value", "estimate"}, LowStateBad(check)
        PROVE  [Promise!Next]_(Promise!vars)
    BY <1>1, <2>2, SafetyStopPromise DEF LowState, LowStateBad
  <2> QED
    BY <1>1, <2>1, <2>2 DEF LowState
<1>2. CASE SportState \/ PressR1 \/ PressY
  BY <1>2, Unseen DEF SportState, PressR1, PressY, stop, sent
<1>3. CASE PressR2 \/ PressL2
  BY <1>3, DrivePromise DEF PressR2, PressL2, ButtonsLive, stop, sent
<1>4. CASE PressL1
  BY <1>4, PressL1Promise
<1>5. CASE PolicyTimer
  BY <1>5, PolicyTimerPromise
<1>6. CASE MotorTimer
  BY <1>6, SafetyStopPromise, Unseen DEF MotorTimer, GateFault, Publish, stop, sent
<1>7. CASE Tick
  BY <1>7, Unseen DEF Tick, sent
<1>8. CASE Interrupt
  <2>1. Stage # "off" /\ Stage' = "off"
    BY <1>8, StageOf DEF Interrupt, IndInv, TypeOK, Phases, StopPhases
  <2>2. cmd' = cmd /\ homes' = homes /\ estop' = estop
    BY <1>8 DEF Interrupt, sent
  <2>3. estop' \in {estop, Stage # "run" \/ estop}
    BY <2>2
  <2> QED
    BY <2>1, <2>2, <2>3 DEF Promise!Next, Promise!Leave
<1>9. CASE UNCHANGED vars
  BY <1>9, Unseen DEF vars, stop, sent
<1> QED
  BY <1>1, <1>2, <1>3, <1>4, <1>5, <1>6, <1>7, <1>8, <1>9 DEF Next

\* The leg controller implements StopProtocol: whatever the messages, buttons
\* and timers do, the rest of the robot sees a stop that only goes forward, an
\* arm sent home once and from rest, and an emergency channel that ends it all.
THEOREM ImplementsStopProtocol == Spec => KeepsStopProtocol
<1>1. Init => Promise!Init
  BY DEF Init, Promise!Init, Stage
<1>2. IndInv /\ StopInv /\ IndInv' /\ [Next]_vars => [Promise!Next]_(Promise!vars)
  BY StepPromise
<1> QED
  BY <1>1, <1>2, StopInvariance, Invariance, PTL DEF Spec, KeepsStopProtocol, Promise!Spec
=============================================================================
