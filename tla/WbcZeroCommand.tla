--------------------------- MODULE WbcZeroCommand ---------------------------
(***************************************************************************)
(* WbcControl with a record of what the operator's Y asked for: in fixed     *)
(* mode Y ramps the base command to zero and the policy keeps the robot      *)
(* standing until L2 resumes the configured speed.                           *)
(***************************************************************************)
EXTENDS WbcControl

VARIABLE asked   \* "no", or when Y was pressed: in the "handover" or the "rollout"

zvars == <<vars, asked>>

Pressed == startPolicy /\ baseSource = "fixed"

ZInit == Init /\ asked = "no"

ZNext ==
    \/ /\ PressY
       /\ asked' = IF ~Pressed THEN asked
                   ELSE IF motionStarted THEN "rollout" ELSE "handover"
    \/ /\ PressL2 \/ PressR2 \/ PressL1
       /\ asked' = "no"
    \/ /\ LowState \/ SportState \/ PressR1 \/ PolicyTimer \/ MotorTimer
          \/ Tick \/ Interrupt
       /\ asked' = IF startPolicy' THEN asked ELSE "no"

ZSpec == ZInit /\ [][ZNext]_zvars

ZFairSpec == ZSpec /\ Fairness

\* Y in the rollout holds: the base command never grows again before L2.
ZeroHoldsInRollout == [][asked = "rollout" /\ asked' = "rollout" => cmd' <= cmd]_zvars

\* docs/上机使用指南.md:82 says so of every Y while the policy runs: "Y only
\* ramps the base command to zero, the policy keeps standing".
ZeroHolds == [][asked # "no" /\ asked' # "no" => cmd' <= cmd]_zvars
=============================================================================
