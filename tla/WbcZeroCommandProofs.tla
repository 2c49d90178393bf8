------------------------ MODULE WbcZeroCommandProofs ------------------------
(***************************************************************************)
(* A Y pressed in the rollout holds until L2, for every duration and speed. *)
(***************************************************************************)
EXTENDS WbcZeroCommand, WbcStopProofs

\* Once asked for in the rollout, the ramp to zero is in force and has come
\* down at least as far as the command.
AskedInv ==
    asked = "rollout" =>
        /\ startPolicy /\ motionStarted /\ baseSource = "fixed" /\ phase = "idle"
        /\ cmdTarget = 0 /\ Blend(cmdStart, 0, rampAge, rampTime) <= cmd

ZInv == IndInv /\ StopInv /\ AskedInv

LEMMA ZStepIsStep == [ZNext]_zvars => [Next]_vars
  BY DEF ZNext, zvars, Next

\* The ramp that a policy step follows while the zero command holds.
LEMMA HeldStep ==
    ASSUME ZInv, asked = "rollout", PolicyStep
    PROVE  UNCHANGED ramp /\ cmd' = Blend(cmdStart, 0, rampAge, rampTime)
<1>1. ~HandoverDone /\ ~InHandover /\ baseSource = "fixed" /\ phase = "idle" /\ cmdTarget = 0
  BY DEF ZInv, AskedInv, HandoverDone, InHandover
<1>2. UNCHANGED ramp
  BY <1>1 DEF PolicyStep, UpdateTarget
<1> QED
  BY <1>1, <1>2 DEF PolicyStep, UpdateCommand, ramp

\* What each step does while the zero command holds.
LEMMA HeldTimer ==
    ASSUME ZInv, asked = "rollout", PolicyTimer, startPolicy'
    PROVE  PolicyStep /\ UNCHANGED config
<1>1. startPolicy /\ phase = "idle"
  BY DEF ZInv, AskedInv
<1>2. ~GateFault /\ ~PolicyFault
  BY DEF GateFault, PolicyFault, trigger_safety_stop
<1>3. ~advance_graceful_stop
  BY <1>1 DEF advance_graceful_stop, BeginLieDown, KeepLying, SendArmHome, CompleteStop
<1>4. ~PoseTestStep /\ ~AlignStep /\ ~FixStandStep
  BY <1>1 DEF PoseTestStep, AlignStep, FixStandStep
<1> QED
  BY <1>2, <1>3, <1>4 DEF PolicyTimer

LEMMA HeldQuiet ==
    ASSUME ZInv, asked = "rollout", startPolicy',
           LowState \/ SportState \/ MotorTimer \/ Interrupt
    PROVE  UNCHANGED <<config, request, stop, cmd, ramp>>
<1>1. ~trigger_safety_stop
  BY DEF trigger_safety_stop
<1> QED
  BY <1>1 DEF LowState, LowStateGood, LowStateBad, SportState, MotorTimer, GateFault, Publish,
     Interrupt

LEMMA HeldOrPressed ==
    ASSUME ZInv, ZNext, asked' = "rollout"
    PROVE  \/ PressY /\ startPolicy /\ baseSource = "fixed" /\ motionStarted
           \/ /\ asked = "rollout" /\ startPolicy'
              /\ \/ LowState \/ SportState \/ MotorTimer \/ Interrupt
                 \/ PolicyTimer \/ Tick
<1>1. CASE PressY
  BY <1>1 DEF ZNext, Pressed, ZInv, AskedInv, LowState, LowStateGood
<1>2. CASE ~PressY
  BY <1>2 DEF ZNext, PressR1, ZInv, AskedInv
<1> QED
  BY <1>1, <1>2

LEMMA AskedStep == ZInv /\ [ZNext]_zvars => AskedInv'
<1> SUFFICES ASSUME ZInv, ZNext, asked' = "rollout" PROVE AskedInv'
  BY DEF ZInv, AskedInv, zvars, vars, config, request, stop, ramp
<1>1. cmd \in Nat /\ cmdStart \in Nat /\ rampAge \in Nat /\ rampTime \in Nat
  BY TimesAssumption DEF ZInv, StopInv, RangeInv, IndInv, TypeOK
<1>2. CASE PressY /\ startPolicy /\ baseSource = "fixed" /\ motionStarted
  <2>1. /\ phase = "idle" /\ UNCHANGED <<config, request, stop, cmd>>
        /\ cmdStart' = cmd /\ cmdTarget' = 0 /\ rampAge' = 0 /\ rampTime' = RampTime
    BY <1>2 DEF PressY, ButtonsLive, set_policy_command_target
  <2>2. Blend(cmd, 0, 0, RampTime) <= cmd
    BY <1>1, BlendStarts, TimesAssumption
  <2> QED
    BY <1>2, <2>1, <2>2 DEF AskedInv, config, request, stop
<1>3. CASE asked = "rollout" /\ startPolicy' /\ (LowState \/ SportState \/ MotorTimer \/ Interrupt)
  BY <1>3, HeldQuiet DEF ZInv, AskedInv, config, request, stop, ramp
<1>4. CASE asked = "rollout" /\ startPolicy' /\ PolicyTimer
  <2>1. PolicyStep /\ UNCHANGED config
    BY <1>4, HeldTimer
  <2>2. UNCHANGED ramp /\ cmd' = Blend(cmdStart, 0, rampAge, rampTime)
    BY <1>4, <2>1, HeldStep
  <2>3. Blend(cmdStart, 0, rampAge, rampTime) \in Nat
    BY <1>1, BlendNat
  <2>4. Blend(cmdStart', 0, rampAge', rampTime') = cmd' /\ cmd' \in Nat /\ cmdTarget' = cmdTarget
    BY <2>2, <2>3 DEF ramp
  <2>5. startPolicy' /\ motionStarted' /\ phase' = phase /\ baseSource' = baseSource
    BY <1>4, <2>1 DEF PolicyStep, ZInv, AskedInv, config, stop
  <2> QED
    BY <1>4, <2>4, <2>5 DEF ZInv, AskedInv
<1>5. CASE asked = "rollout" /\ startPolicy' /\ Tick
  <2>1. UNCHANGED <<config, startPolicy, motionStarted, phase, cmd, cmdStart, cmdTarget, rampTime>>
    BY <1>5 DEF Tick
  <2>2. rampAge' = rampAge \/ rampAge' = rampAge + 1
    BY <1>5 DEF Tick, Older
  <2>3. Blend(cmdStart, 0, rampAge + 1, rampTime) <= Blend(cmdStart, 0, rampAge, rampTime)
    BY <1>1, BlendFalls
  <2>4. Blend(cmdStart, 0, rampAge, rampTime) \in Nat
    BY <1>1, BlendNat
  <2>5. Blend(cmdStart, 0, rampAge + 1, rampTime) \in Nat
    <3>1. rampAge + 1 \in Nat BY <1>1
    <3> QED BY <1>1, <3>1, BlendNat
  <2>6. Blend(cmdStart, 0, rampAge', rampTime) <= cmd
    <3>1. Blend(cmdStart, 0, rampAge, rampTime) <= cmd
      BY <1>5 DEF ZInv, AskedInv
    <3>2. CASE rampAge' = rampAge
      BY <3>1, <3>2
    <3>3. CASE rampAge' = rampAge + 1
      <4>1. Blend(cmdStart, 0, rampAge + 1, rampTime) <= cmd
        BY <1>1, <2>3, <2>4, <2>5, <3>1
      <4> QED
        BY <3>3, <4>1
    <3> QED
      BY <2>2, <3>2, <3>3
  <2> QED
    BY <1>5, <2>1, <2>6 DEF ZInv, AskedInv, config
<1> QED
  BY <1>2, <1>3, <1>4, <1>5, HeldOrPressed

THEOREM ZInvariance == ZSpec => []ZInv
<1>1. ZInit => ZInv
  BY InitInv, InitStop DEF ZInit, ZInv, AskedInv
<1>2. ZInv /\ [ZNext]_zvars => ZInv'
  BY AskedStep, ZStepIsStep, StepInv, StepStop DEF ZInv
<1> QED
  BY <1>1, <1>2, PTL DEF ZSpec

\* What Y asked for in the rollout nothing but the operator takes back: neither
\* timer, message nor rounding raises the base command until L2, R2 or L1.
THEOREM ZeroIsHeld == ZSpec => ZeroHoldsInRollout
<1>1. ZInv /\ [ZNext]_zvars => [asked = "rollout" /\ asked' = "rollout" => cmd' <= cmd]_zvars
  <2> SUFFICES ASSUME ZInv, ZNext, asked = "rollout", asked' = "rollout"
               PROVE  cmd' <= cmd
    OBVIOUS
  <2>1. cmd \in Nat
    BY DEF ZInv, StopInv, RangeInv
  <2>2. CASE PressY
    BY <2>1, <2>2 DEF PressY
  <2>3. CASE startPolicy' /\ (LowState \/ SportState \/ MotorTimer \/ Interrupt)
    BY <2>1, <2>3, HeldQuiet
  <2>4. CASE startPolicy' /\ PolicyTimer
    BY <2>4, HeldTimer, HeldStep DEF ZInv, AskedInv
  <2>5. CASE Tick
    BY <2>1, <2>5 DEF Tick
  <2> QED
    BY <2>2, <2>3, <2>4, <2>5, HeldOrPressed
<1> QED
  BY <1>1, ZInvariance, PTL DEF ZSpec, ZeroHoldsInRollout
=============================================================================
