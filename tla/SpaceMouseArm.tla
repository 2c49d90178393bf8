---------------------------- MODULE SpaceMouseArm ---------------------------
(***************************************************************************)
(* The arm node, real-wbc/modules/spacemouse_arm_node.py: a ROS 2 node     *)
(* with one timer and two subscriptions, /arm/home and /safety/estop, run  *)
(* by a single-threaded executor.  A callback is one step, except that     *)
(* returning home blocks for seconds: messages pile up meanwhile.          *)
(*                                                                         *)
(* arm is what the SDK controller was last told: "limp" (damping), "hold"  *)
(* (the pose it has), "follow" (a target of the SpaceMouse) or "homing".   *)
(* Numeric targets are left out; what an input asks for is kept.           *)
(*                                                                         *)
(* Operators named X_Variant are plausible wrong versions of X, used only  *)
(* to test the properties.                                                 *)
(***************************************************************************)

EXTENDS Naturals

VARIABLES
    node,   \* the node's flags, a record
    arm,    \* what the controller does
    busy,   \* "no", "homing" (_arm_home_cb), "leaving" (shutdown), "down"
    inbox   \* topics with a message the executor has not taken yet

nodeVars == << node, arm, busy, inbox >>

Topics == {"home", "estop"}

ArmModes == {"limp", "hold", "follow", "homing"}

\* A fresh sample of the SpaceMouse: is the stick away from rest; has the motion
\* sequence advanced; how many buttons are down; can the gripper still move.
Inputs == [stick : BOOLEAN, new : BOOLEAN, buttons : 0 .. 2, room : BOOLEAN]

NodeType ==
    [locked : BOOLEAN,       \* lock_training_pose: no SpaceMouse, a fixed pose
     estopped : BOOLEAN,     \* estopped
     control : BOOLEAN,      \* arm_position_control_enabled
     motionArmed : BOOLEAN,  \* spacemouse_motion_armed
     buttonsArmed : BOOLEAN, \* spacemouse_buttons_armed
     homeHeld : BOOLEAN,     \* spacemouse_home_buttons_pressed
     held : BOOLEAN]         \* spacemouse_watchdog_damped

\* __init__ has enabled the hold of the pose the arm has, and with the lock has
\* sent the training pose.
Init ==
    /\ \E locked \in BOOLEAN :
          /\ node = [locked |-> locked, estopped |-> FALSE, control |-> TRUE,
                     motionArmed |-> FALSE, buttonsArmed |-> FALSE,
                     homeHeld |-> FALSE, held |-> FALSE]
          /\ arm = IF locked THEN "follow" ELSE "hold"
    /\ busy = "no"
    /\ inbox = {}

-----------------------------------------------------------------------------
(* What one tick reads from the SpaceMouse. *)

Motion(s) == node.motionArmed /\ s.stick /\ s.new
Gripper(s) == node.buttonsArmed /\ s.buttons = 1
HomePose(s) == node.buttonsArmed /\ s.buttons = 2 /\ ~node.homeHeld

\* The sample leads to a new target of the arm or the gripper.
Moves(s) == ~HomePose(s) /\ (Motion(s) \/ (Gripper(s) /\ s.room))

\* Stick and buttons count only after they were seen at rest once; holding both
\* buttons asks for the training pose once.
Seen(s) ==
    [node EXCEPT
        !.held = FALSE,
        !.motionArmed = @ \/ ~s.stick,
        !.buttonsArmed = @ \/ s.buttons = 0,
        !.homeHeld = node.buttonsArmed /\ s.buttons = 2]

ReadArmState_KeepsFlag(n, a, valid) ==
    /\ node' = n
    /\ arm' = IF valid THEN a ELSE "limp"

\* The end of a tick: feedback that is not finite means set_to_damping, but the
\* node is not stopped by it.
ReadArmState(n, a, valid) ==
    /\ node' = IF valid THEN n ELSE [n EXCEPT !.control = FALSE]
    /\ arm' = IF valid THEN a ELSE "limp"

Listening_WhenStopped == busy = "no" /\ ~node.locked

\* The tick looks at the SpaceMouse.
Listening == busy = "no" /\ ~node.estopped /\ ~node.locked

\* The node is stopped or locked, or the last sample is not too old yet.
TickIdle ==
    /\ busy = "no"
    /\ \E valid \in BOOLEAN : ReadArmState(node, arm, valid)
    /\ UNCHANGED << busy, inbox >>

\* A fresh sample that asks for nothing, or for a gripper position out of reach,
\* which still needs the arm's pose to be known.
TickAtRest ==
    /\ Listening
    /\ \E s \in Inputs, valid \in BOOLEAN :
          /\ ~HomePose(s) /\ ~Moves(s)
          /\ ReadArmState(Seen(s), arm, valid)
    /\ UNCHANGED << busy, inbox >>

\* The training pose by both buttons: only the trajectory is set, so an arm
\* whose gains are off stays limp; computing the pose may fail.
TickHomePose ==
    /\ Listening
    /\ \E s \in Inputs, valid, works \in BOOLEAN :
          /\ HomePose(s)
          /\ ReadArmState(Seen(s), IF node.control /\ works THEN "follow" ELSE arm, valid)
    /\ UNCHANGED << busy, inbox >>

\* Stick or gripper: _send_target switches the gains on first if they are off.
TickCommand ==
    /\ Listening
    /\ \E s \in Inputs, valid \in BOOLEAN :
          /\ Moves(s)
          /\ ReadArmState([Seen(s) EXCEPT !.control = TRUE], "follow", valid)
    /\ UNCHANGED << busy, inbox >>

\* The controller refuses the gains (set_gain throws): the exception leaves the
\* callback and rclpy.spin, and main goes on with shutdown, which homes the arm.
TickRefused ==
    /\ Listening /\ ~node.control
    /\ \E s \in Inputs : Moves(s) /\ node' = Seen(s)
    /\ arm' = "homing" /\ busy' = "leaving"
    /\ UNCHANGED inbox

\* A command with the gains off needs the arm's pose, and that is not finite:
\* _trigger_estop without homing.
TickInvalidBeforeCommand ==
    /\ Listening /\ ~node.control
    /\ \E s \in Inputs :
          /\ Motion(s) \/ Gripper(s) \/ HomePose(s)
          /\ node' = [Seen(s) EXCEPT !.buttonsArmed = node.buttonsArmed,
                                     !.estopped = TRUE, !.control = FALSE]
    /\ arm' = "limp"
    /\ UNCHANGED << busy, inbox >>

\* No fresh sample for sm_watchdog_sec: hold the pose, once until samples return.
\* Only an arm without gains needs that, and a failure is only logged.
TickWatchdog ==
    /\ Listening /\ ~node.held
    /\ \E valid, works \in BOOLEAN :
          IF node.control \/ ~works
          THEN ReadArmState([node EXCEPT !.held = TRUE], arm, valid)
          ELSE ReadArmState([node EXCEPT !.held = TRUE, !.control = TRUE], "hold", valid)
    /\ UNCHANGED << busy, inbox >>

timer_callback ==
    \/ TickIdle \/ TickAtRest \/ TickHomePose \/ TickCommand
    \/ TickRefused \/ TickInvalidBeforeCommand \/ TickWatchdog

-----------------------------------------------------------------------------
(* The two subscriptions. *)

Take(topic) ==
    /\ busy = "no" /\ topic \in inbox
    /\ inbox' = inbox \ {topic}

_arm_home_cb_NotStopped ==
    /\ Take("home")
    /\ IF node.estopped
       THEN UNCHANGED << node, arm, busy >>
       ELSE UNCHANGED node /\ arm' = "homing" /\ busy' = "homing"

_arm_home_cb_InBackground ==
    /\ Take("home")
    /\ IF node.estopped
       THEN UNCHANGED << node, arm >>
       ELSE node' = [node EXCEPT !.estopped = TRUE] /\ arm' = "homing"
    /\ UNCHANGED busy

\* A node that is already stopped ignores /arm/home; otherwise it is stopped
\* from here on and the callback blocks in reset_to_home.
_arm_home_cb ==
    /\ Take("home")
    /\ IF node.estopped
       THEN UNCHANGED << node, arm, busy >>
       ELSE /\ node' = [node EXCEPT !.estopped = TRUE]
            /\ arm' = "homing"
            /\ busy' = "homing"

_safety_estop_cb_KeepsArm ==
    /\ Take("estop")
    /\ node' = [node EXCEPT !.estopped = TRUE]
    /\ UNCHANGED << arm, busy >>

\* _trigger_estop returns at once if the node is already stopped.
_safety_estop_cb ==
    /\ Take("estop")
    /\ IF node.estopped
       THEN UNCHANGED << node, arm >>
       ELSE /\ node' = [node EXCEPT !.estopped = TRUE, !.control = FALSE]
            /\ arm' = "limp"
    /\ UNCHANGED busy

HomingEnds_NoDamping ==
    /\ busy \in {"homing", "leaving"}
    /\ arm' = "hold"
    /\ node' = [node EXCEPT !.control = FALSE]
    /\ busy' = IF busy = "homing" THEN "no" ELSE "down"
    /\ UNCHANGED inbox

\* reset_to_home returns or raises, and set_to_damping follows either way.
HomingEnds ==
    /\ busy \in {"homing", "leaving"}
    /\ arm' = "limp"
    /\ node' = [node EXCEPT !.control = FALSE]
    /\ busy' = IF busy = "homing" THEN "no" ELSE "down"
    /\ UNCHANGED inbox

\* The executor is interrupted: shutdown homes the arm unless the node is stopped.
\* An interrupt while the arm is being homed is noticed when that ends.
shutdown ==
    /\ busy = "no"
    /\ IF node.estopped
       THEN arm' = "limp" /\ busy' = "down"
       ELSE arm' = "homing" /\ busy' = "leaving"
    /\ UNCHANGED << node, inbox >>

NodeNext ==
    timer_callback \/ _arm_home_cb \/ _safety_estop_cb \/ HomingEnds \/ shutdown

\* The executor keeps spinning: each ready subscription is served, and homing,
\* a ramp of bounded length, ends.  Nobody has to interrupt the node.
NodeFairness ==
    /\ WF_nodeVars(_arm_home_cb) /\ WF_nodeVars(_safety_estop_cb)
    /\ WF_nodeVars(HomingEnds)

\* The arm homes exactly while a callback waits for it.
NodeTypeOK ==
    /\ node \in NodeType
    /\ arm \in ArmModes
    /\ busy \in {"no", "homing", "leaving", "down"}
    /\ inbox \subseteq Topics
    /\ arm = "homing" <=> busy \in {"homing", "leaving"}
=============================================================================
