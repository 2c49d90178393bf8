------------------------ MODULE Arx5ControllerProofs ------------------------
(***************************************************************************)
(* Proofs about Arx5Controller: its types; that damping gains have reached *)
(* every motor when set_to_damping reads the pose and when the destructor  *)
(* is done; that gains switched on do not make a motor jump; who holds the *)
(* mutexes, and what the emergency state leaves behind.                    *)
(***************************************************************************)
EXTENDS Arx5Controller, TLAPS

\* Inside the calls that damp, gain_ is zero from set_gain on.
Damping == {"dampSleep", "dampFix", "destroyFix", "destroySleep", "join", "gone"}
GainInv ==
    /\ fgPc \in Damping => gain = "zero"
    /\ fgPc = "gainWrite" /\ fgReturn \in {"dampSleep", "destroyFix"} => fgArg = "zero"
    /\ fgPc \in {"guardState", "guardCmd"} => fgReturn \in {"idle", "ramp"}

\* The background thread works unless set_gain has refused, and in any case
\* while the destructor sleeps; it only exits when told to.
RunInv ==
    /\ ~refused => running /\ fgRunning
    /\ fgPc \in {"destroySleep", "join", "gone"} => running
    /\ destroyed => fgPc \in {"join", "gone"}
    /\ bgPc = "exited" => destroyed
    /\ fgPc = "gone" => bgPc = "exited"

\* Once a pass has ended within the sleep, the pass under way sends only zero;
\* once two have, every motor has been sent zero.
Served == fgPc \in {"dampSleep", "destroySleep"} /\ running
SentInv ==
    /\ Served /\ passes >= 1 /\ bgPc = "send"
         => \A m \in Motors : m < nextMotor => motor[m] = "zero"
    /\ Served /\ passes >= 1 /\ bgPc = "receive" => AllDamped
    /\ Served /\ passes >= 2 => AllDamped

\* What the two sleeps were for.
SleptInv ==
    /\ fgPc = "dampFix" /\ ~refused => AllDamped \/ bgPc = "stuck"
    /\ fgPc \in {"join", "gone"} => AllDamped \/ bgPc = "stuck"

\* Only a thread in the emergency state has counted past the maximum.
CountInv == overCnt > OverMax => bgPc \in {"emergency", "stuck"}

IndInv == TypeOK /\ CountInv /\ GainInv /\ RunInv /\ SentInv /\ SleptInv

-----------------------------------------------------------------------------
(* Types. *)

LEMMA TowardType ==
    ASSUME NEW p \in Positions, NEW q \in Positions
    PROVE  Toward(p, q) \in Positions
  BY ControllerAssumption DEF Toward, Distance, Positions

LEMMA BetweenType ==
    ASSUME NEW p \in Positions, NEW q \in Positions
    PROVE  Between(p, q) \in Positions \X Positions
  BY DEF Between, Positions

\* The part of the state only the background thread writes.
BgType ==
    /\ cmdMutex \in {"free", "bg"} /\ stateMutex \in {"free", "bg"}
    /\ out \in Positions /\ prevOut \in Positions
    /\ joint \in Positions /\ arm \in Positions /\ load \in Feedback
    /\ motor \in [Motors -> Gains]
    /\ overCnt \in 0 .. OverMax + 1
    /\ bgPc \in {"top", "sanity", "sanityCmd", "emergency", "stuck",
                 "interpolate", "clip", "send", "receive", "exited"}
    /\ nextMotor \in Motors
\* The part only the foreground thread writes, and the shared counter of passes.
FgType ==
    /\ running \in BOOLEAN /\ destroyed \in BOOLEAN
    /\ gain \in Gains
    /\ plan \in Positions \X Positions
    /\ fgPc \in {"idle", "guardState", "guardCmd", "gainWrite", "dampSleep",
                 "dampFix", "cmdWrite", "homeGain", "homePlan", "ramp",
                 "destroyFix", "destroySleep", "join", "gone"}
    /\ fgArg \in Gains /\ fgRead \in Positions /\ fgRunning \in BOOLEAN
    /\ fgReturn \in {"idle", "dampSleep", "ramp", "destroyFix"}
    /\ refused \in BOOLEAN
PassType == passes \in 0 .. SleepPasses

LEMMA TypeSplit == TypeOK <=> BgType /\ FgType /\ PassType
  BY DEF TypeOK, BgType, FgType, PassType

LEMMA InitType == Init => TypeOK
  <1> SUFFICES ASSUME Init PROVE TypeOK
    OBVIOUS
  <1>1. BgType
    BY ControllerAssumption DEF Init, BgType, Positions, Motors, Gains
  <1>2. FgType
    <2>1. plan \in Positions \X Positions
      BY DEF Init, Fixed
    <2>2. running \in BOOLEAN /\ destroyed \in BOOLEAN /\ fgRunning \in BOOLEAN /\ refused \in BOOLEAN
      BY DEF Init
    <2>3. gain \in Gains /\ fgArg \in Gains
      BY DEF Init, Gains
    <2>4. fgRead \in Positions
      BY ControllerAssumption DEF Init, Positions
    <2>. QED
      BY <2>1, <2>2, <2>3, <2>4 DEF Init, FgType
  <1>3. PassType
    BY ControllerAssumption DEF Init, PassType
  <1>. QED
    BY <1>1, <1>2, <1>3, TypeSplit

\* The background thread writes nothing of the foreground thread's state.
LEMMA BackgroundFrame ==
    Background => UNCHANGED << flags, command, fgPc, call, refused >>
  BY DEF Background, BgIdle, BgExit, over_current_protection_, SanityState,
         SanityCommand, enter_emergency_state_, Interpolate, ClipOutput,
         SendMotor, update_joint_state_

\* The foreground thread writes nothing of the background thread's state.
LEMMA ForegroundFrame ==
    Calls \/ Continue => UNCHANGED << mutexes, output, feedback, motor, background >>
  BY DEF Calls, Continue, CallSetGain, CallSetToDamping, CallSetCommand,
         CallResetToHome, CallDestroy, GuardReadState, GuardRefuses, GuardAccepts,
         GainWrite, DampRead, DampFix, CommandWrite, CommandDropped, HomeGain,
         HomePlan, HomeRamp, HomeHold, DestroyFix, DestroyFlag, Join, bgUnchanged

LEMMA BackgroundType ==
    ASSUME BgType, FgType, PassType, CountInv, Background
    PROVE  BgType' /\ FgType' /\ PassType' /\ CountInv'
  <1>1. FgType'
    BY BackgroundFrame DEF FgType, flags, command, call
  <1>2. PassDone => PassType'
    BY ControllerAssumption DEF PassDone, PassType, MinNat
  <1>3. PassType'
    BY <1>2 DEF PassType, Background, BgIdle, BgExit, over_current_protection_,
         SanityState, SanityCommand, enter_emergency_state_, Interpolate,
         ClipOutput, SendMotor, update_joint_state_
  <1>0. CountInv'
    BY ControllerAssumption
       DEF CountInv, BgType, Background, BgIdle, BgExit, over_current_protection_,
         SanityState, SanityCommand, enter_emergency_state_, Interpolate,
         ClipOutput, SendMotor, update_joint_state_, background, OverCount
  <1>4. CASE BgIdle
    BY <1>0, <1>1, <1>3, <1>4 DEF BgIdle, BgType, Near, mutexes, output, background
  <1>5. CASE BgExit
    BY <1>0, <1>1, <1>3, <1>5 DEF BgExit, BgType, mutexes, output, feedback
  <1>6. CASE over_current_protection_
    <2>1. overCnt \in 0 .. OverMax
      BY <1>6, ControllerAssumption DEF over_current_protection_, CountInv, BgType
    <2>2. overCnt' \in 0 .. OverMax + 1
      BY <1>6, <2>1, ControllerAssumption DEF over_current_protection_, OverCount
    <2>. QED
      BY <1>0, <1>1, <1>3, <1>6, <2>2
         DEF over_current_protection_, BgType, mutexes, output, feedback
  <1>7. CASE SanityState
    BY <1>0, <1>1, <1>3, <1>7 DEF SanityState, BgType, output, feedback
  <1>8. CASE SanityCommand
    BY <1>0, <1>1, <1>3, <1>8 DEF SanityCommand, BgType, output, feedback
  <1>9. CASE enter_emergency_state_
    BY <1>0, <1>1, <1>3, <1>9 DEF enter_emergency_state_, BgType, output, feedback
  <1>10. CASE Interpolate
    BY <1>0, <1>1, <1>3, <1>10 DEF Interpolate, BgType, PlanPositions, mutexes, feedback
  <1>11. CASE ClipOutput
    <2>1. out' \in Positions
      BY <1>11, TowardType DEF ClipOutput, ClippedOutput, BgType
    <2>2. prevOut' \in Positions /\ nextMotor' \in Motors
      BY <1>11, ControllerAssumption DEF ClipOutput, Positions, Motors
    <2>. QED
      BY <1>0, <1>1, <1>3, <1>11, <2>1, <2>2 DEF ClipOutput, BgType, mutexes, feedback
  <1>12. CASE SendMotor
    <2>1. motor' \in [Motors -> Gains]
      BY <1>12 DEF SendMotor, BgType, FgType
    <2>2. nextMotor' \in Motors
      BY <1>12, ControllerAssumption DEF SendMotor, BgType, Motors
    <2>. QED
      BY <1>0, <1>1, <1>3, <1>12, <2>1, <2>2 DEF SendMotor, BgType, mutexes, output, feedback
  <1>13. CASE update_joint_state_
    BY <1>0, <1>1, <1>3, <1>13 DEF update_joint_state_, BgType, Near, mutexes, output
  <1>. QED
    BY <1>4, <1>5, <1>6, <1>7, <1>8, <1>9, <1>10, <1>11, <1>12, <1>13 DEF Background

LEMMA ForegroundType ==
    ASSUME BgType, FgType, PassType, CountInv, Calls \/ Continue
    PROVE  BgType' /\ FgType' /\ PassType' /\ CountInv'
  <1> USE DEF bgUnchanged, flags, command, call
  <1>1. BgType' /\ CountInv'
    BY ForegroundFrame DEF BgType, CountInv, mutexes, output, feedback, background
  <1>2. PassType'
    BY ControllerAssumption DEF PassType, Calls, Continue, CallSetGain, CallSetToDamping, CallSetCommand,
         CallResetToHome, CallDestroy, GuardReadState, GuardRefuses, GuardAccepts,
         GainWrite, DampRead, DampFix, CommandWrite, CommandDropped, HomeGain,
         HomePlan, HomeRamp, HomeHold, DestroyFix, DestroyFlag, Join, EnterSetGain
  <1>3. plan' \in Positions \X Positions
    <2>1. Fixed(fgRead) \in Positions \X Positions /\ Fixed(out) \in Positions \X Positions
          /\ Fixed(Home) \in Positions \X Positions
      BY ControllerAssumption DEF Fixed, Home, FgType, BgType, Positions
    <2>2. Home \in Positions /\ fgRead \in Positions
      BY ControllerAssumption DEF Home, FgType, Positions
    <2>3. Between(fgRead, Home) \in Positions \X Positions
      BY <2>2, BetweenType
    <2>4. \A p \in PlanPositions : Between(p, fgRead) \in Positions \X Positions
      BY <2>2, BetweenType DEF PlanPositions
    <2>. QED
      BY <2>1, <2>3, <2>4 DEF FgType, Calls, Continue, CallSetGain, CallSetToDamping, CallSetCommand,
         CallResetToHome, CallDestroy, GuardReadState, GuardRefuses, GuardAccepts,
         GainWrite, DampRead, DampFix, CommandWrite, CommandDropped, HomeGain,
         HomePlan, HomeRamp, HomeHold, DestroyFix, DestroyFlag, Join, EnterSetGain
  <1>4. gain' \in Gains /\ fgArg' \in Gains
    BY ControllerAssumption
       DEF FgType, Gains, NextGain, Calls, Continue, CallSetGain, CallSetToDamping, CallSetCommand,
         CallResetToHome, CallDestroy, GuardReadState, GuardRefuses, GuardAccepts,
         GainWrite, DampRead, DampFix, CommandWrite, CommandDropped, HomeGain,
         HomePlan, HomeRamp, HomeHold, DestroyFix, DestroyFlag, Join, EnterSetGain
  <1>5. fgRead' \in Positions
    BY ControllerAssumption DEF FgType, BgType, Positions, Calls, Continue, CallSetGain, CallSetToDamping, CallSetCommand,
         CallResetToHome, CallDestroy, GuardReadState, GuardRefuses, GuardAccepts,
         GainWrite, DampRead, DampFix, CommandWrite, CommandDropped, HomeGain,
         HomePlan, HomeRamp, HomeHold, DestroyFix, DestroyFlag, Join, EnterSetGain
  <1>6. running' \in BOOLEAN /\ destroyed' \in BOOLEAN /\ fgRunning' \in BOOLEAN /\ refused' \in BOOLEAN
    BY DEF FgType, Calls, Continue, CallSetGain, CallSetToDamping, CallSetCommand,
         CallResetToHome, CallDestroy, GuardReadState, GuardRefuses, GuardAccepts,
         GainWrite, DampRead, DampFix, CommandWrite, CommandDropped, HomeGain,
         HomePlan, HomeRamp, HomeHold, DestroyFix, DestroyFlag, Join, EnterSetGain
  <1>7. /\ fgPc' \in {"idle", "guardState", "guardCmd", "gainWrite", "dampSleep",
                 "dampFix", "cmdWrite", "homeGain", "homePlan", "ramp",
                 "destroyFix", "destroySleep", "join", "gone"}
        /\ fgReturn' \in {"idle", "dampSleep", "ramp", "destroyFix"}
    BY DEF FgType, Calls, Continue, CallSetGain, CallSetToDamping, CallSetCommand,
         CallResetToHome, CallDestroy, GuardReadState, GuardRefuses, GuardAccepts,
         GainWrite, DampRead, DampFix, CommandWrite, CommandDropped, HomeGain,
         HomePlan, HomeRamp, HomeHold, DestroyFix, DestroyFlag, Join, EnterSetGain
  <1>8. FgType'
    BY <1>3, <1>4, <1>5, <1>6, <1>7 DEF FgType
  <1>. QED
    BY <1>1, <1>2, <1>8

-----------------------------------------------------------------------------
(* The rest of the inductive invariant. *)

LEMMA GainKept == ASSUME FgType, GainInv, [Next]_vars PROVE GainInv'
  <1>1. CASE Background
    BY <1>1, BackgroundFrame DEF GainInv, command, call
  <1>2. CASE Calls \/ Continue
    BY <1>2, ControllerAssumption DEF GainInv, FgType, Damping, command, call, NextGain, Calls, Continue, CallSetGain, CallSetToDamping, CallSetCommand,
         CallResetToHome, CallDestroy, GuardReadState, GuardRefuses, GuardAccepts,
         GainWrite, DampRead, DampFix, CommandWrite, CommandDropped, HomeGain,
         HomePlan, HomeRamp, HomeHold, DestroyFix, DestroyFlag, Join, EnterSetGain
  <1>3. CASE UNCHANGED vars
    BY <1>3 DEF GainInv, vars, command, call
  <1>. QED
    BY <1>1, <1>2, <1>3 DEF Next

LEMMA RunKept == ASSUME FgType, RunInv, [Next]_vars PROVE RunInv'
  <1>1. CASE Background
    BY <1>1 DEF RunInv, flags, call, background, Background, BgIdle, BgExit, over_current_protection_,
         SanityState, SanityCommand, enter_emergency_state_, Interpolate,
         ClipOutput, SendMotor, update_joint_state_
  <1>2. CASE Calls \/ Continue
    BY <1>2 DEF RunInv, FgType, flags, call, background, bgUnchanged, Calls, Continue, CallSetGain, CallSetToDamping, CallSetCommand,
         CallResetToHome, CallDestroy, GuardReadState, GuardRefuses, GuardAccepts,
         GainWrite, DampRead, DampFix, CommandWrite, CommandDropped, HomeGain,
         HomePlan, HomeRamp, HomeHold, DestroyFix, DestroyFlag, Join, EnterSetGain
  <1>3. CASE UNCHANGED vars
    BY <1>3 DEF RunInv, vars, flags, call, background
  <1>. QED
    BY <1>1, <1>2, <1>3 DEF Next

LEMMA DampedStays ==
    ASSUME BgType, FgType, gain = "zero", AllDamped, Background
    PROVE  AllDamped'
  BY DEF AllDamped, BgType, Background, BgIdle, BgExit, over_current_protection_,
         SanityState, SanityCommand, enter_emergency_state_, Interpolate,
         ClipOutput, SendMotor, update_joint_state_

\* A pass that starts after the gain is zero ends with every motor at zero.
LEMMA SentByBackground ==
    ASSUME BgType, FgType, PassType, GainInv, RunInv, SentInv, Background
    PROVE  SentInv'
  <1>1. Served' <=> Served
    BY BackgroundFrame DEF Served, flags
  <1>. SUFFICES ASSUME Served PROVE SentInv'
    BY <1>1 DEF SentInv
  <1>2. gain = "zero"
    BY DEF Served, GainInv, Damping
  <1>3. running /\ ~destroyed /\ bgPc # "exited"
    BY DEF Served, RunInv
  <1>4. passes \in Nat /\ NMotors \in Nat /\ NMotors >= 1 /\ nextMotor \in 1 .. NMotors
    BY ControllerAssumption DEF PassType, BgType, Motors
  <1>5. CASE SendMotor
    <2>1. UNCHANGED passes
      BY <1>5 DEF SendMotor
    <2>2. \A m \in Motors : motor'[m] = IF m = nextMotor THEN "zero" ELSE motor[m]
      BY <1>2, <1>5 DEF SendMotor, BgType
    <2>3. ASSUME passes >= 1 PROVE \A m \in Motors : m <= nextMotor => motor'[m] = "zero"
      <3>1. \A m \in Motors : m < nextMotor => motor[m] = "zero"
        BY <1>5, <2>3 DEF SentInv, SendMotor
      <3>. QED
        BY <1>4, <2>2, <3>1 DEF Motors
    <2>4. passes >= 2 => AllDamped'
      BY <2>2 DEF SentInv, AllDamped
    <2>5. CASE nextMotor < NMotors
      <3>1. bgPc' = "send" /\ nextMotor' = nextMotor + 1
        BY <1>5, <2>5 DEF SendMotor
      <3>2. passes >= 1 => \A m \in Motors : m < nextMotor' => motor'[m] = "zero"
        BY <1>4, <2>3, <3>1 DEF Motors
      <3>. QED
        BY <1>1, <2>1, <2>4, <3>1, <3>2 DEF SentInv
    <2>6. CASE ~(nextMotor < NMotors)
      <3>1. bgPc' = "receive" /\ nextMotor = NMotors
        BY <1>4, <1>5, <2>6 DEF SendMotor
      <3>2. passes >= 1 => AllDamped'
        BY <1>4, <2>3, <3>1 DEF AllDamped, Motors
      <3>. QED
        BY <1>1, <2>1, <2>4, <3>1, <3>2 DEF SentInv
    <2>. QED
      BY <2>5, <2>6
  <1>6. CASE update_joint_state_
    <2>1. bgPc' = "top" /\ UNCHANGED motor /\ bgPc = "receive"
      BY <1>6 DEF update_joint_state_
    <2>2. passes' >= 2 => passes >= 1
      BY <1>4, <1>6, ControllerAssumption DEF update_joint_state_, PassDone, MinNat
    <2>3. passes' >= 2 => AllDamped'
      BY <2>1, <2>2 DEF SentInv, AllDamped
    <2>. QED
      BY <2>1, <2>3 DEF SentInv
  <1>7. CASE ClipOutput
    <2>1. bgPc' = "send" /\ nextMotor' = 1 /\ UNCHANGED << motor, passes >>
      BY <1>7 DEF ClipOutput
    <2>2. \A m \in Motors : ~(m < nextMotor')
      BY <2>1 DEF Motors
    <2>. QED
      BY <1>1, <2>1, <2>2 DEF SentInv, AllDamped
  <1>8. CASE BgIdle \/ BgExit
    BY <1>3, <1>8 DEF BgIdle, BgExit
  <1>9. CASE \/ over_current_protection_ \/ SanityState \/ SanityCommand
             \/ enter_emergency_state_ \/ Interpolate
    <2>1. UNCHANGED << motor, passes >> /\ bgPc' \notin {"send", "receive"}
      BY <1>9 DEF over_current_protection_, SanityState, SanityCommand,
                  enter_emergency_state_, Interpolate
    <2>. QED
      BY <1>1, <2>1 DEF SentInv, AllDamped
  <1>. QED
    BY <1>5, <1>6, <1>7, <1>8, <1>9 DEF Background

\* A sleep starts with no pass counted, and no call disturbs one that is on.
LEMMA SentByForeground ==
    ASSUME BgType, FgType, PassType, SentInv, Calls \/ Continue
    PROVE  SentInv'
  <1>1. UNCHANGED << motor, bgPc, nextMotor >>
    BY ForegroundFrame DEF background
  <1>2. Served' => passes' = 0 \/ (Served /\ UNCHANGED passes)
    BY DEF Served, FgType, Calls, Continue, bgUnchanged, call, command,
         CallSetGain, CallSetToDamping, CallSetCommand,
         CallResetToHome, CallDestroy, GuardReadState, GuardRefuses, GuardAccepts,
         GainWrite, DampRead, DampFix, CommandWrite, CommandDropped, HomeGain,
         HomePlan, HomeRamp, HomeHold, DestroyFix, DestroyFlag, Join, EnterSetGain
  <1>3. CASE ~Served'
    BY <1>3 DEF SentInv
  <1>4. CASE passes' = 0
    BY <1>4 DEF SentInv
  <1>5. CASE Served /\ UNCHANGED passes
    BY <1>1, <1>5 DEF SentInv, AllDamped
  <1>. QED
    BY <1>2, <1>3, <1>4, <1>5

LEMMA SleptKept ==
    ASSUME BgType, FgType, PassType, GainInv, RunInv, SentInv, SleptInv, [Next]_vars
    PROVE  SleptInv'
  <1>1. CASE Background
    <2>1. UNCHANGED << fgPc, refused >>
      BY <1>1, BackgroundFrame
    <2>2. fgPc \in {"dampFix", "join", "gone"} => gain = "zero"
      BY DEF GainInv, Damping
    <2>3. bgPc = "stuck" => FALSE
      BY <1>1 DEF Background, BgIdle, BgExit, over_current_protection_,
         SanityState, SanityCommand, enter_emergency_state_, Interpolate,
         ClipOutput, SendMotor, update_joint_state_
    <2>. QED
      BY <1>1, <2>1, <2>2, <2>3, DampedStays DEF SleptInv
  <1>2. CASE Calls \/ Continue
    <2>1. UNCHANGED << motor, bgPc >> /\ (AllDamped' <=> AllDamped)
      BY <1>2, ForegroundFrame DEF background, AllDamped
    <2>2. SleepOver /\ passes >= SleepPasses => passes >= 2
      BY ControllerAssumption DEF PassType
    <2>3. CASE DampRead
      <3>1. fgPc = "dampSleep" /\ UNCHANGED refused /\ fgPc' = "dampFix" /\ SleepOver
        BY <2>3 DEF DampRead
      <3>2. ~refused => running /\ bgPc # "exited"
        BY <3>1 DEF RunInv
      <3>3. ~refused => AllDamped \/ bgPc = "stuck"
        BY <2>2, <3>1, <3>2 DEF SleepOver, SentInv, Served
      <3>. QED
        BY <2>1, <3>1, <3>3 DEF SleptInv
    <2>4. CASE DestroyFlag
      <3>1. fgPc = "destroySleep" /\ fgPc' = "join" /\ SleepOver
        BY <2>4 DEF DestroyFlag
      <3>2. running /\ bgPc # "exited"
        BY <3>1 DEF RunInv
      <3>3. AllDamped \/ bgPc = "stuck"
        BY <2>2, <3>1, <3>2 DEF SleepOver, SentInv, Served
      <3>. QED
        BY <2>1, <3>1, <3>3 DEF SleptInv
    <2>5. CASE Join
      BY <2>1, <2>5 DEF SleptInv, Join
    <2>6. CASE ~DampRead /\ ~DestroyFlag /\ ~Join
      <3>1. fgPc' \notin {"dampFix", "join", "gone"}
        BY <1>2, <2>6 DEF FgType, Calls, Continue, CallSetGain, CallSetToDamping, CallSetCommand,
         CallResetToHome, CallDestroy, GuardReadState, GuardRefuses, GuardAccepts,
         GainWrite, DampRead, DampFix, CommandWrite, CommandDropped, HomeGain,
         HomePlan, HomeRamp, HomeHold, DestroyFix, DestroyFlag, Join, EnterSetGain
      <3>. QED
        BY <3>1 DEF SleptInv
    <2>. QED
      BY <2>3, <2>4, <2>5, <2>6
  <1>3. CASE UNCHANGED vars
    BY <1>3 DEF vars, background, SleptInv, AllDamped
  <1>. QED
    BY <1>1, <1>2, <1>3 DEF Next

-----------------------------------------------------------------------------
(* Theorems of the specification. *)

LEMMA InitInv == Init => IndInv
  <1>1. Init => TypeOK
    BY InitType
  <1>2. Init => CountInv
    BY ControllerAssumption DEF Init, CountInv
  <1>3. Init => GainInv /\ SleptInv
    BY DEF Init, GainInv, SleptInv, Damping
  <1>4. Init => RunInv
    BY DEF Init, RunInv
  <1>5. Init => SentInv
    BY DEF Init, SentInv, Served
  <1>. QED
    BY <1>1, <1>2, <1>3, <1>4, <1>5 DEF IndInv

LEMMA NextInv == IndInv /\ [Next]_vars => IndInv'
  <1> SUFFICES ASSUME IndInv, [Next]_vars PROVE IndInv'
    OBVIOUS
  <1>1. BgType /\ FgType /\ PassType /\ CountInv
    BY TypeSplit DEF IndInv
  <1>2. GainInv /\ RunInv /\ SentInv /\ SleptInv
    BY DEF IndInv
  <1>3. CASE UNCHANGED vars
    BY <1>2, <1>3, <1>1
       DEF IndInv, TypeOK, BgType, FgType, PassType, CountInv, GainInv, RunInv, SentInv,
           SleptInv, Served, AllDamped, vars, mutexes, flags, command, output,
           feedback, background, call
  <1>4. CASE Background \/ Calls \/ Continue
    <2>1. BgType' /\ FgType' /\ PassType' /\ CountInv'
      BY <1>1, <1>4, BackgroundType, ForegroundType
    <2>2. TypeOK'
      BY <2>1 DEF TypeOK, BgType, FgType, PassType
    <2>3. SentInv'
      BY <1>1, <1>2, <1>4, SentByBackground, SentByForeground
    <2>4. GainInv' /\ RunInv' /\ SleptInv'
      BY <1>1, <1>2, GainKept, RunKept, SleptKept
    <2>. QED
      BY <2>1, <2>2, <2>3, <2>4 DEF IndInv
  <1>. QED
    BY <1>3, <1>4 DEF Next

THEOREM Invariance == Spec => []IndInv
  BY InitInv, NextInv, PTL DEF Spec

\* Every variable of the controller keeps its type; in particular the
\* over-current count never passes over_current_cnt_max + 1 and the frame loop
\* never leaves the motors (controller_base.cpp 402-433, 656-688).
THEOREM TypeCorrect == Spec => []TypeOK
  <1>1. IndInv => TypeOK
    BY DEF IndInv
  <1>. QED
    BY <1>1, Invariance, PTL

\* When set_to_damping reads the pose it will hold, every motor has been sent
\* damping gains, for any number of motors and any sleep of at least two passes
\* (controller_base.cpp 262-275 against 643-688).
THEOREM DampingSentFirst == Spec => []DampedBeforeRead
  <1>1. IndInv => DampedBeforeRead
    BY DEF IndInv, SleptInv, DampedBeforeRead, Emergency
  <1>. QED
    BY <1>1, Invariance, PTL

\* When the destructor returns, every motor has been sent damping gains, whatever
\* was called before it (controller_base.cpp 79-115).
THEOREM ExitIsDamped == Spec => []ExitDamped
  <1>1. IndInv => ExitDamped
    BY DEF IndInv, SleptInv, RunInv, ExitDamped
  <1>. QED
    BY <1>1, Invariance, PTL

-----------------------------------------------------------------------------
(* No jump.  A program that ends position control through set_to_damping   *)
(* only (no zero kp in set_gain) lets the command follow the arm for two    *)
(* passes before anything else; the command is then at the arm when a motor *)
(* gets a gain back, at whatever point of a pass that is.                   *)

Before == {"top", "sanity", "sanityCmd", "emergency", "interpolate"}
AtArm(p) == Distance(p, arm) <= 1

\* The command of the pass under way, or of the one before, is the arm's.
Settled ==
    /\ bgPc \in Before => AtArm(out)
    /\ bgPc = "clip" => AtArm(prevOut)
    /\ bgPc \in {"send", "receive"} => out = arm

\* gain_ becomes zero only on the way into these.
Leaving == {"dampSleep", "destroyFix", "destroySleep", "join", "gone"}
WriteInv ==
    /\ fgPc = "homePlan" => fgArg = gain
    /\ fgPc \in {"guardState", "guardCmd"} => fgArg # "zero"
    /\ fgPc = "gainWrite" /\ fgReturn \in {"idle", "ramp"}
         => fgArg # "zero" \/ gain = "zero"

\* Without gains the command settles within the sleep of set_to_damping.
SettledInv ==
    ~refused =>
        /\ joint = arm
        /\ gain = "zero" /\ fgPc \notin Leaving => Settled
        /\ fgPc = "dampSleep" /\ passes >= 1 /\ bgPc \in {"send", "receive"} => out = arm
        /\ fgPc = "dampSleep" /\ passes >= 2 => Settled

\* With gains, a motor that has none yet gets the command of its first pass.
LimpInv ==
    ~refused /\ gain # "zero" => \A m \in Motors : motor[m] = "zero" =>
        /\ bgPc \in Before => AtArm(out)
        /\ bgPc = "clip" => AtArm(prevOut)
        /\ bgPc = "send" /\ m >= nextMotor => Distance(out, arm) <= VelStep + 1
        /\ bgPc = "send" /\ m < nextMotor => out = arm
        /\ bgPc = "receive" => out = arm

JumpInv == WriteInv /\ SettledInv /\ LimpInv

LEMMA NearIsAtArm ==
    ASSUME NEW p \in Positions, NEW q \in Near(p)
    PROVE  Distance(p, q) <= 1
  BY DEF Near

LEMMA AtOwnPlace == ASSUME NEW p \in Positions PROVE Distance(p, p) = 0
  BY DEF Distance, Positions

\* A command clipped against one at the arm is a step away at most.
LEMMA TowardNear ==
    ASSUME NEW p \in Positions, NEW q \in Positions, NEW a \in Positions,
           Distance(p, a) <= 1
    PROVE  Distance(Toward(p, q), a) <= VelStep + 1
  BY ControllerAssumption DEF Toward, Distance, Positions

LEMMA WriteKept ==
    ASSUME "zero" \notin ClientGains, FgType, WriteInv, [Next]_vars
    PROVE  WriteInv'
  <1>1. CASE Background
    BY <1>1, BackgroundFrame DEF WriteInv, command, call
  <1>2. CASE Calls
    BY <1>2, ControllerAssumption
       DEF WriteInv, FgType, Calls, CallSetGain, CallSetToDamping, CallSetCommand,
           CallResetToHome, CallDestroy, EnterSetGain, command, call
  <1>3. CASE Continue
    BY <1>3, ControllerAssumption DEF WriteInv, FgType, NextGain, command, call, Continue, GuardReadState,
         GuardRefuses, GuardAccepts, GainWrite, DampRead, DampFix, CommandWrite,
         CommandDropped, HomeGain, HomePlan, HomeRamp, HomeHold, DestroyFix,
         DestroyFlag, Join, EnterSetGain
  <1>4. CASE UNCHANGED vars
    BY <1>4 DEF WriteInv, vars, command, call
  <1>. QED
    BY <1>1, <1>2, <1>3, <1>4 DEF Next

\* A pass without gains keeps the command settled.
LEMMA SettledStays ==
    ASSUME BgType, gain = "zero", running, joint = arm, Settled, Background
    PROVE  Settled'
  <1> USE DEF Settled, AtArm, Before
  <1>1. CASE ClipOutput
    BY <1>1 DEF ClipOutput, ClippedOutput, feedback
  <1>2. CASE update_joint_state_
    <2>1. bgPc' = "top" /\ arm' \in Near(arm) /\ out' = arm
      BY <1>2 DEF update_joint_state_, output
    <2>2. Distance(out', arm') <= 1
      BY <2>1, NearIsAtArm DEF BgType
    <2>. QED
      BY <2>1, <2>2
  <1>3. CASE SendMotor
    BY <1>3 DEF SendMotor, output, feedback
  <1>4. CASE Interpolate
    BY <1>4 DEF Interpolate, feedback
  <1>5. CASE over_current_protection_ \/ SanityState \/ SanityCommand
    BY <1>5 DEF over_current_protection_, SanityState, SanityCommand, output, feedback
  <1>6. CASE BgExit \/ enter_emergency_state_
    BY <1>6 DEF BgExit, enter_emergency_state_
  <1>7. ~BgIdle
    BY DEF BgIdle
  <1>. QED
    BY <1>1, <1>2, <1>3, <1>4, <1>5, <1>6, <1>7 DEF Background

LEMMA SettledByBackground ==
    ASSUME BgType, FgType, PassType, GainInv, RunInv, SettledInv, Background
    PROVE  SettledInv'
  <1>1. UNCHANGED << flags, command, fgPc, call, refused >>
    BY BackgroundFrame
  <1>. SUFFICES ASSUME ~refused
                PROVE  /\ joint' = arm'
                       /\ gain' = "zero" /\ fgPc' \notin Leaving => Settled'
                       /\ fgPc' = "dampSleep" /\ passes' >= 1 /\ bgPc' \in {"send", "receive"}
                            => out' = arm'
                       /\ fgPc' = "dampSleep" /\ passes' >= 2 => Settled'
    BY <1>1 DEF SettledInv
  <1>2. running /\ joint = arm
    BY DEF RunInv, SettledInv
  <1>3. joint' = arm'
    BY <1>2 DEF Background, BgIdle, BgExit, over_current_protection_,
         SanityState, SanityCommand, enter_emergency_state_, Interpolate,
         ClipOutput, SendMotor, update_joint_state_, feedback
  <1>4. gain' = "zero" /\ fgPc' \notin Leaving => Settled'
    BY <1>1, <1>2, SettledStays DEF SettledInv, command
  <1>5. fgPc' = "dampSleep" => gain = "zero"
    BY <1>1 DEF GainInv, Damping
  <1>6. passes \in Nat
    BY DEF PassType
  <1>7. CASE update_joint_state_
    <2>1. passes' >= 2 => passes >= 1
      BY <1>6, <1>7, ControllerAssumption DEF update_joint_state_, PassDone, MinNat
    <2>2. bgPc = "receive" /\ bgPc' = "top" /\ out' = out /\ arm' \in Near(arm)
      BY <1>7 DEF update_joint_state_, output
    <2>3. fgPc' = "dampSleep" /\ passes' >= 2 => out = arm
      BY <1>1, <2>1, <2>2 DEF SettledInv
    <2>4. out = arm => Distance(out', arm') <= 1
      BY <2>2, NearIsAtArm DEF BgType
    <2>. QED
      BY <1>3, <1>4, <2>2, <2>3, <2>4 DEF Settled, AtArm
  <1>8. CASE ~update_joint_state_
    <2>1. passes' = passes
      BY <1>2, <1>8 DEF Background, BgIdle, BgExit, over_current_protection_,
         SanityState, SanityCommand, enter_emergency_state_, Interpolate,
         ClipOutput, SendMotor
    <2>2. fgPc' = "dampSleep" /\ passes' >= 2 => Settled'
      BY <1>1, <1>2, <1>5, <2>1, SettledStays DEF SettledInv
    <2>3. fgPc' = "dampSleep" /\ passes' >= 1 /\ bgPc' \in {"send", "receive"} => out' = arm'
      BY <1>1, <1>2, <1>5, <1>8, <2>1
      DEF SettledInv, Background, BgIdle, BgExit, over_current_protection_,
         SanityState, SanityCommand, enter_emergency_state_, Interpolate,
         ClipOutput, ClippedOutput, SendMotor, output, feedback
    <2>. QED
      BY <1>3, <1>4, <2>2, <2>3
  <1>. QED
    BY <1>7, <1>8

LEMMA SettledByForeground ==
    ASSUME FgType, PassType, RunInv, WriteInv, SettledInv, Calls \/ Continue
    PROVE  SettledInv'
  <1>. SUFFICES ASSUME ~refused' PROVE SettledInv'
    BY DEF SettledInv
  <1>1. UNCHANGED << output, feedback, background >>
    BY ForegroundFrame
  <1>2. Settled' <=> Settled
    BY <1>1 DEF output, feedback, background, Settled, AtArm
  <1>3. ~refused
    BY DEF Calls, Continue, CallSetGain, CallSetToDamping, CallSetCommand,
         CallResetToHome, CallDestroy, GuardReadState, GuardRefuses, GuardAccepts,
         GainWrite, DampRead, DampFix, CommandWrite, CommandDropped, HomeGain,
         HomePlan, HomeRamp, HomeHold, DestroyFix, DestroyFlag, Join
  <1>4. joint' = arm'
    BY <1>1, <1>3 DEF SettledInv, feedback
  <1>5. fgPc' = "dampSleep" => passes' = 0
    BY DEF FgType, Calls, Continue, CallSetGain, CallSetToDamping, CallSetCommand,
         CallResetToHome, CallDestroy, GuardReadState, GuardRefuses, GuardAccepts,
         GainWrite, DampRead, DampFix, CommandWrite, CommandDropped, HomeGain,
         HomePlan, HomeRamp, HomeHold, DestroyFix, DestroyFlag, Join, EnterSetGain
  <1>6. ASSUME gain' = "zero", fgPc' \notin Leaving PROVE Settled
    <2>1. CASE DampRead
      <3>1. fgPc = "dampSleep" /\ SleepOver
        BY <2>1 DEF DampRead
      <3>2. passes >= SleepPasses => passes >= 2
        BY ControllerAssumption DEF PassType
      <3>. QED
        BY <1>3, <3>1, <3>2 DEF SleepOver, SettledInv, Settled, Before
    <2>2. CASE ~DampRead
      <3>1. fgPc \notin Leaving
        BY <1>6, <2>2 DEF FgType, Leaving, Calls, Continue, CallSetGain, CallSetToDamping, CallSetCommand,
         CallResetToHome, CallDestroy, GuardReadState, GuardRefuses, GuardAccepts,
         GainWrite, DampFix, CommandWrite, CommandDropped, HomeGain,
         HomePlan, HomeRamp, HomeHold, DestroyFix, DestroyFlag, Join
      <3>2. gain = "zero"
        BY <1>6 DEF FgType, Leaving, WriteInv, command, Calls, Continue, CallSetGain, CallSetToDamping, CallSetCommand,
         CallResetToHome, CallDestroy, GuardReadState, GuardRefuses, GuardAccepts,
         GainWrite, DampRead, DampFix, CommandWrite, CommandDropped, HomeGain,
         HomePlan, HomeRamp, HomeHold, DestroyFix, DestroyFlag, Join
      <3>. QED
        BY <1>3, <3>1, <3>2 DEF SettledInv
    <2>. QED
      BY <2>1, <2>2
  <1>. QED
    BY <1>2, <1>4, <1>5, <1>6 DEF SettledInv

LEMMA LimpByForeground ==
    ASSUME BgType, FgType, GainInv, SettledInv, LimpInv, Calls \/ Continue
    PROVE  LimpInv'
  <1>1. UNCHANGED << output, feedback, background, motor >>
    BY ForegroundFrame
  <1>. SUFFICES ASSUME ~refused', gain' # "zero" PROVE LimpInv'
    BY DEF LimpInv
  <1>2. ~refused
    BY DEF Calls, Continue, CallSetGain, CallSetToDamping, CallSetCommand,
         CallResetToHome, CallDestroy, GuardReadState, GuardRefuses, GuardAccepts,
         GainWrite, DampRead, DampFix, CommandWrite, CommandDropped, HomeGain,
         HomePlan, HomeRamp, HomeHold, DestroyFix, DestroyFlag, Join
  <1>3. CASE gain # "zero"
    BY <1>1, <1>2, <1>3 DEF LimpInv, output, feedback, background, AtArm
  <1>4. CASE gain = "zero"
    <2>1. GainWrite
      BY <1>4 DEF command, Calls, Continue, CallSetGain, CallSetToDamping, CallSetCommand,
         CallResetToHome, CallDestroy, GuardReadState, GuardRefuses, GuardAccepts,
         DampRead, DampFix, CommandWrite, CommandDropped, HomeGain,
         HomePlan, HomeRamp, HomeHold, DestroyFix, DestroyFlag, Join
    <2>2. Settled
      BY <1>2, <1>4, <2>1 DEF GainWrite, SettledInv, Leaving
    <2>3. out = arm => Distance(out, arm) <= VelStep + 1
      BY AtOwnPlace, ControllerAssumption DEF BgType
    <2>. QED
      BY <1>1, <2>2, <2>3 DEF LimpInv, Settled, output, feedback, background, AtArm
  <1>. QED
    BY <1>3, <1>4

LEMMA LimpByBackground ==
    ASSUME BgType, FgType, RunInv, LimpInv, Background
    PROVE  LimpInv'
  <1>1. UNCHANGED << flags, command, fgPc, call, refused >>
    BY BackgroundFrame
  <1>. SUFFICES ASSUME ~refused, gain # "zero" PROVE LimpInv'
    BY <1>1 DEF LimpInv, command
  <1>2. running
    BY DEF RunInv
  <1>3. CASE ClipOutput
    <2>1. /\ out' = Toward(prevOut, out) /\ arm' = arm /\ motor' = motor
          /\ bgPc = "clip" /\ bgPc' = "send" /\ nextMotor' = 1
      BY <1>3 DEF ClipOutput, ClippedOutput, feedback
    <2>2. AtArm(prevOut) => Distance(out', arm') <= VelStep + 1
      BY <2>1, TowardNear DEF AtArm, BgType
    <2>3. \A m \in Motors : ~(m < nextMotor')
      BY <2>1 DEF Motors
    <2>. QED
      BY <2>1, <2>2, <2>3 DEF LimpInv, Before
  <1>4. CASE SendMotor
    <2>1. UNCHANGED << out, arm >> /\ bgPc = "send"
      BY <1>4 DEF SendMotor, output, feedback
    <2>2. \A m \in Motors : motor'[m] = "zero" => m # nextMotor /\ motor[m] = "zero"
      BY <1>4 DEF SendMotor, BgType
    <2>3. NMotors \in Nat /\ nextMotor \in 1 .. NMotors
      BY ControllerAssumption DEF BgType, Motors
    <2>4. CASE nextMotor < NMotors
      <3>1. bgPc' = "send" /\ nextMotor' = nextMotor + 1
        BY <1>4, <2>4 DEF SendMotor
      <3>2. ASSUME NEW m \in Motors, motor'[m] = "zero"
            PROVE  /\ m >= nextMotor' => Distance(out, arm) <= VelStep + 1
                   /\ m < nextMotor' => out = arm
        <4>1. m \in Nat /\ m # nextMotor /\ motor[m] = "zero"
          BY <2>2, <3>2 DEF Motors
        <4>2. m >= nextMotor' => m >= nextMotor
          BY <2>3, <3>1, <4>1
        <4>3. m < nextMotor' => m < nextMotor
          BY <2>3, <3>1, <4>1
        <4>. QED
          BY <2>1, <4>1, <4>2, <4>3 DEF LimpInv
      <3>. QED
        BY <2>1, <3>1, <3>2 DEF LimpInv, Before
    <2>5. CASE ~(nextMotor < NMotors)
      <3>1. bgPc' = "receive" /\ nextMotor = NMotors
        BY <1>4, <2>3, <2>5 DEF SendMotor
      <3>2. ASSUME NEW m \in Motors, motor'[m] = "zero" PROVE out = arm
        <4>1. m < nextMotor /\ motor[m] = "zero"
          BY <2>2, <2>3, <3>1, <3>2 DEF Motors
        <4>. QED
          BY <2>1, <4>1 DEF LimpInv
      <3>. QED
        BY <2>1, <3>1, <3>2 DEF LimpInv, Before
    <2>. QED
      BY <2>4, <2>5
  <1>5. CASE update_joint_state_
    <2>1. /\ bgPc = "receive" /\ bgPc' = "top" /\ out' = out /\ motor' = motor
          /\ arm' \in Near(arm)
      BY <1>5 DEF update_joint_state_, output
    <2>2. out = arm => AtArm(out)'
      BY <2>1, NearIsAtArm DEF AtArm, BgType
    <2>. QED
      BY <2>1, <2>2 DEF LimpInv
  <1>6. CASE Interpolate
    BY <1>6 DEF Interpolate, LimpInv, AtArm, Before, feedback
  <1>7. CASE over_current_protection_ \/ SanityState \/ SanityCommand
    BY <1>7 DEF over_current_protection_, SanityState, SanityCommand, LimpInv, AtArm,
         Before, output, feedback
  <1>8. CASE BgExit \/ enter_emergency_state_
    BY <1>8 DEF BgExit, enter_emergency_state_, LimpInv, Before
  <1>9. ~BgIdle
    BY <1>2 DEF BgIdle
  <1>. QED
    BY <1>3, <1>4, <1>5, <1>6, <1>7, <1>8, <1>9 DEF Background

LEMMA InitJump == Init => JumpInv
  <1> SUFFICES ASSUME Init PROVE JumpInv
    OBVIOUS
  <1>1. out = arm /\ joint = arm /\ arm \in Positions /\ bgPc = "top"
    BY DEF Init
  <1>2. AtArm(out)
    BY <1>1, AtOwnPlace DEF AtArm
  <1>3. Settled
    BY <1>1, <1>2 DEF Settled
  <1>. QED
    BY <1>1, <1>3 DEF Init, JumpInv, WriteInv, SettledInv, LimpInv

LEMMA StepJump ==
    ASSUME "zero" \notin ClientGains, IndInv, JumpInv, [Next]_vars
    PROVE  JumpInv'
  <1>1. BgType /\ FgType /\ PassType /\ GainInv /\ RunInv
    BY TypeSplit DEF IndInv
  <1>2. WriteInv /\ SettledInv /\ LimpInv
    BY DEF JumpInv
  <1>3. WriteInv'
    BY <1>1, <1>2, WriteKept
  <1>4. CASE Background
    BY <1>1, <1>2, <1>3, <1>4, SettledByBackground, LimpByBackground DEF JumpInv
  <1>5. CASE Calls \/ Continue
    BY <1>1, <1>2, <1>3, <1>5, SettledByForeground, LimpByForeground DEF JumpInv
  <1>6. CASE UNCHANGED vars
    BY <1>2, <1>3, <1>6 DEF JumpInv, SettledInv, Settled, LimpInv, AtArm, vars, command,
         output, feedback, background
  <1>. QED
    BY <1>4, <1>5, <1>6 DEF Next

\* Position gains switched on never make a motor jump, for any number of motors,
\* speed and threshold, in a program that never passes a zero kp to set_gain:
\* it damps through set_to_damping, as spacemouse_arm_node.py does
\* (controller_base.cpp 144-169, 262-275, 501-560).
THEOREM GainsWithoutJump ==
    ASSUME "zero" \notin ClientGains
    PROVE  Spec => NoJumpUnlessRefused
  <1>1. Init => JumpInv
    BY InitJump
  <1>2. IndInv /\ JumpInv /\ [Next]_vars => JumpInv'
    BY StepJump
  <1>3. IndInv /\ JumpInv /\ [Next]_vars => [~refused => JumpFree]_vars
    <2> SUFFICES ASSUME IndInv, JumpInv, Next, ~refused,
                        NEW m \in Motors, motor[m] = "zero", motor'[m] = "stiff"
                 PROVE  Distance(out, arm) <= JumpThreshold + VelStep + 1
      BY DEF JumpFree
    <2>1. SendMotor
      BY ForegroundFrame
         DEF Next, Background, BgIdle, BgExit, over_current_protection_, SanityState,
             SanityCommand, enter_emergency_state_, Interpolate, ClipOutput,
             update_joint_state_
    <2>2. bgPc = "send" /\ m = nextMotor /\ gain = "stiff"
      BY <2>1 DEF SendMotor, IndInv, TypeOK
    <2>3. m >= nextMotor
      BY <2>2 DEF Motors
    <2>4. Distance(out, arm) <= VelStep + 1
      BY <2>2, <2>3 DEF JumpInv, LimpInv
    <2>5. Distance(out, arm) \in Nat
      BY DEF Distance, IndInv, TypeOK, Positions
    <2>. QED
      BY <2>4, <2>5, ControllerAssumption
  <1>. QED
    BY <1>1, <1>2, <1>3, Invariance, PTL DEF Spec, NoJumpUnlessRefused

-----------------------------------------------------------------------------
(* The emergency state.                                                    *)

\* Who holds which mutex between two steps: enter_emergency_state_ keeps
\* cmd_mutex_ for ever, and the sanity check keeps state_mutex_.
LockInv ==
    /\ cmdMutex = IF bgPc = "stuck" THEN "bg" ELSE "free"
    /\ bgPc = "sanityCmd" => stateMutex = "bg"
    /\ stateMutex = "bg" => bgPc \in {"sanityCmd", "emergency", "stuck"}

LEMMA LockKept == ASSUME LockInv, [Next]_vars PROVE LockInv'
  <1>1. CASE Background
    BY <1>1 DEF LockInv, mutexes, background, Background, BgIdle, BgExit,
         over_current_protection_, SanityState, SanityCommand, enter_emergency_state_,
         Interpolate, ClipOutput, SendMotor, update_joint_state_
  <1>2. CASE Calls \/ Continue
    BY <1>2, ForegroundFrame DEF LockInv, mutexes, background
  <1>3. CASE UNCHANGED vars
    BY <1>3 DEF LockInv, vars, mutexes, background
  <1>. QED
    BY <1>1, <1>2, <1>3 DEF Next

\* Outside the emergency state no thread waits for a mutex of which the holder
\* waits: only the sanity check holds one at all, and the one it then takes is free
\* (controller_base.cpp 144-275 against 357-400 and 501-512).  This is why a call
\* that was entered can always go on, the part of CallsReturn that is no liveness.
THEOREM NoCircularWait ==
    Spec => [](~Emergency => /\ cmdMutex = "free"
                             /\ stateMutex = "free" \/ bgPc = "sanityCmd")
  <1>1. Init => LockInv
    BY DEF Init, LockInv
  <1>2. LockInv /\ [Next]_vars => LockInv'
    BY LockKept
  <1>3. IndInv /\ LockInv => (~Emergency => /\ cmdMutex = "free"
                                            /\ stateMutex = "free" \/ bgPc = "sanityCmd")
    BY DEF IndInv, TypeOK, LockInv, Emergency
  <1>. QED
    BY <1>1, <1>2, <1>3, Invariance, PTL DEF Spec

\* The emergency state is final, and it damps nothing: from the moment the thread
\* waits for the mutex it holds, no motor is sent anything, no gain is written and no
\* trajectory is planned, whatever the client calls, the destructor included
\* (controller_base.cpp 144-169, 435-449).  The motors keep the gains they had.
THEOREM EmergencyFreezes ==
    Spec => [][bgPc = "stuck" => bgPc' = "stuck" /\ UNCHANGED << motor, gain, plan >>]_vars
  <1>1. Init => LockInv
    BY DEF Init, LockInv
  <1>2. LockInv /\ [Next]_vars => LockInv'
    BY LockKept
  <1>3. LockInv /\ [Next]_vars
          => [bgPc = "stuck" => bgPc' = "stuck" /\ UNCHANGED << motor, gain, plan >>]_vars
    <2> SUFFICES ASSUME LockInv, Next, bgPc = "stuck"
                 PROVE  bgPc' = "stuck" /\ UNCHANGED << motor, gain, plan >>
      OBVIOUS
    <2>1. cmdMutex # "free"
      BY DEF LockInv
    <2>2. ~Background
      BY DEF Background, BgIdle, BgExit, over_current_protection_, SanityState, SanityCommand,
         enter_emergency_state_, Interpolate, ClipOutput, SendMotor, update_joint_state_
    <2>3. Calls \/ Continue
      BY <2>2 DEF Next
    <2>4. UNCHANGED << gain, plan >>
      BY <2>1, <2>3 DEF command, Calls, Continue, CallSetGain, CallSetToDamping, CallSetCommand,
         CallResetToHome, CallDestroy, GuardReadState, GuardRefuses, GuardAccepts,
         GainWrite, DampRead, DampFix, CommandWrite, CommandDropped, HomeGain,
         HomePlan, HomeRamp, HomeHold, DestroyFix, DestroyFlag, Join, EnterSetGain
    <2>. QED
      BY <2>3, <2>4, ForegroundFrame DEF background
  <1>. QED
    BY <1>1, <1>2, <1>3, PTL DEF Spec
=============================================================================
