----------------------------- MODULE StopSystem -----------------------------
(***************************************************************************)
(* The leg controller and the arm node over the topics /arm/home and       *)
(* /safety/estop.  The leg controller is the one StopProtocol describes,   *)
(* which WbcControl is checked to implement; the arm node is the whole of  *)
(* SpaceMouseArm.  The topics are reliable, but two topics keep no order   *)
(* between each other.                                                     *)
(***************************************************************************)
EXTENDS SpaceMouseArm

VARIABLES
    stage, moving, homes, estop,   \* the leg controller, see StopProtocol
    trips                          \* how often the arm has set out for home

Wbc == INSTANCE StopProtocol

wbcVars == << stage, moving, homes, estop >>
vars == << nodeVars, wbcVars, trips >>

SInit == Init /\ Wbc!Init /\ trips = 0

\* A step of the leg controller delivers what it publishes.
Published ==
    (IF homes' > homes THEN {"home"} ELSE {}) \cup (IF estop' /\ ~estop THEN {"estop"} ELSE {})

LegStep ==
    /\ Wbc!Next
    /\ inbox' = inbox \cup Published
    /\ UNCHANGED << node, arm, busy, trips >>

ArmStep ==
    /\ NodeNext
    /\ trips' = IF arm # "homing" /\ arm' = "homing" THEN trips + 1 ELSE trips
    /\ UNCHANGED wbcVars

SNext == LegStep \/ ArmStep

SSpec == SInit /\ [][SNext]_vars

FairSpec == SSpec /\ NodeFairness

-----------------------------------------------------------------------------
(* Properties. *)

TypeOK == NodeTypeOK /\ Wbc!TypeOK /\ trips \in Nat

\* A stopped arm node that is not on its way home has its arm limp, and no tick,
\* watchdog or button brings it back (spacemouse_arm_node.py 323-377, 387-404).
StoppedArmIsLimp == (node.estopped /\ busy \in {"no", "down"}) => arm = "limp"

\* The arm sets out for home at most once, whatever /arm/home, the operator's
\* Ctrl-C, faults and refused gains do in which order
\* (spacemouse_arm_node.py 388-394, 943-946).
HomesOnlyOnce == trips <= 1

\* The watchdog and the training pose never give a damped arm its gains back
\* without marking position control as enabled, and the other way round: what the
\* node believes of its gains is so (spacemouse_arm_node.py 413-432, 624-648).
GainsAreKnown == busy \in {"no", "down"} => (node.control <=> arm # "limp")

\* An emergency stop ends with the arm limp for good, homing or not, also when
\* the node is interrupted meanwhile (README.md 384).
EstopEndsLimp == estop /\ busy # "down" ~> [](arm = "limp")

\* /arm/home is served: the node takes it and ends stopped with the arm limp.
HomeIsServed == stage = "homed" ~> (node.estopped /\ arm = "limp") \/ busy = "down"

\* docs/上机使用指南.md:123: a hard stop only damps the X5, "it is not commanded
\* to move home again": no homing ends by itself after the emergency stop was sent.
EstopStopsHoming == [][(busy = "homing" /\ busy' # busy) => ~estop]_vars
=============================================================================
