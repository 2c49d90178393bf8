-------------------------- MODULE StopSystemProofs --------------------------
(***************************************************************************)
(* Theorems about the arm node and the stop topics, in whatever order the   *)
(* leg controller, the SpaceMouse and the operator act.                     *)
(***************************************************************************)
EXTENDS StopSystem, TLAPS

\* That a stopped node keeps its arm limp needs two more facts: the node knows
\* whether its arm has gains, and it is stopped before it homes from a topic.
CoreInv ==
    /\ NodeTypeOK /\ Wbc!TypeOK
    /\ StoppedArmIsLimp
    /\ GainsAreKnown
    /\ busy = "homing" => node.estopped

\* A trip is only begun by a node that is stopped, or that will not run again.
TripsInv ==
    /\ trips \in {0, 1}
    /\ trips = 1 => node.estopped \/ busy \in {"leaving", "down"}

IndInv == CoreInv /\ TripsInv

LEMMA InitInv == SInit => CoreInv
<1> SUFFICES ASSUME SInit PROVE CoreInv
  OBVIOUS
<1>1. Wbc!TypeOK
  BY DEF SInit, Wbc!Init, Wbc!TypeOK, Wbc!Stages
<1>2. PICK locked \in BOOLEAN :
        /\ node = [locked |-> locked, estopped |-> FALSE, control |-> TRUE,
                   motionArmed |-> FALSE, buttonsArmed |-> FALSE,
                   homeHeld |-> FALSE, held |-> FALSE]
        /\ arm = IF locked THEN "follow" ELSE "hold"
  BY DEF SInit, Init
<1>3. node \in NodeType /\ ~node.estopped /\ node.control
  BY <1>2 DEF NodeType
<1>4. arm \in {"follow", "hold"} /\ busy = "no" /\ inbox = {}
  BY <1>2 DEF SInit, Init
<1> QED
  BY <1>1, <1>3, <1>4 DEF CoreInv, NodeTypeOK, ArmModes, StoppedArmIsLimp, GainsAreKnown

\* The leg controller touches nothing of the arm node but its inbox.
LEMMA LegInv == CoreInv /\ LegStep => CoreInv'
<1> SUFFICES ASSUME CoreInv, LegStep PROVE CoreInv'
  OBVIOUS
<1>1. Wbc!TypeOK'
  <2> USE DEF CoreInv, Wbc!TypeOK, Wbc!Stages
  <2>1. CASE Wbc!Drive
    BY <2>1 DEF Wbc!Drive
  <2>2. CASE Wbc!RequestStop
    BY <2>2 DEF Wbc!RequestStop
  <2>3. CASE Wbc!SlowDown
    BY <2>3 DEF Wbc!SlowDown
  <2>4. CASE Wbc!SendHome
    BY <2>4 DEF Wbc!SendHome
  <2>5. CASE Wbc!HardStop
    BY <2>5 DEF Wbc!HardStop
  <2>6. CASE Wbc!Leave
    <3>1. estop' \in BOOLEAN
      BY <2>6, Zenon DEF Wbc!Leave
    <3> QED
      BY <2>6, <3>1 DEF Wbc!Leave
  <2> QED
    BY <2>1, <2>2, <2>3, <2>4, <2>5, <2>6 DEF LegStep, Wbc!Next
<1>2. NodeTypeOK'
  BY DEF CoreInv, NodeTypeOK, LegStep, Published, Topics
<1> QED
  BY <1>1, <1>2 DEF CoreInv, LegStep, StoppedArmIsLimp, GainsAreKnown

-----------------------------------------------------------------------------
(* One lemma per action of the node.                                       *)

\* Looking at a sample changes flags of the SpaceMouse only.
LEMMA SeenType ==
    ASSUME node \in NodeType, NEW s \in Inputs
    PROVE  /\ Seen(s) \in NodeType
           /\ Seen(s).estopped = node.estopped
           /\ Seen(s).control = node.control
<1>1. /\ (node.motionArmed \/ ~s.stick) \in BOOLEAN
      /\ (node.buttonsArmed \/ s.buttons = 0) \in BOOLEAN
      /\ (node.buttonsArmed /\ s.buttons = 2) \in BOOLEAN
  OBVIOUS
<1>2. Seen(s) \in NodeType BY <1>1 DEF Seen, NodeType
<1>3. Seen(s).estopped = node.estopped /\ Seen(s).control = node.control
  BY DEF Seen, NodeType
<1> QED BY <1>2, <1>3

\* The end of a tick keeps the invariant of a running node whose flag and gains
\* agree before it.
LEMMA ReadInv ==
    ASSUME CoreInv, busy = "no", NEW n \in NodeType, NEW a \in ArmModes \ {"homing"},
           NEW valid \in BOOLEAN, n.control <=> a # "limp", n.estopped => a = "limp",
           ReadArmState(n, a, valid), UNCHANGED << busy, inbox >>, UNCHANGED wbcVars
    PROVE  CoreInv'
<1>1. node' \in NodeType /\ arm' \in ArmModes \ {"homing"}
  BY DEF ReadArmState, NodeType, ArmModes
<1>2. (node.control <=> arm # "limp")' /\ (node.estopped => arm = "limp")'
  BY DEF ReadArmState, NodeType
<1>3. NodeTypeOK' /\ Wbc!TypeOK'
  BY <1>1 DEF CoreInv, NodeTypeOK, ReadArmState, Wbc!TypeOK, wbcVars
<1> QED
  BY <1>2, <1>3 DEF CoreInv, StoppedArmIsLimp, GainsAreKnown

\* Between ticks the arm is not being homed.
LEMMA AtRest ==
    ASSUME CoreInv, busy = "no"
    PROVE  /\ node \in NodeType
           /\ node.control <=> arm # "limp"
           /\ node.estopped => arm = "limp"
           /\ arm \in ArmModes \ {"homing"}
BY DEF CoreInv, NodeTypeOK, StoppedArmIsLimp, GainsAreKnown

LEMMA TickInv == CoreInv /\ timer_callback /\ UNCHANGED wbcVars => CoreInv'
<1> SUFFICES ASSUME CoreInv, timer_callback, UNCHANGED wbcVars PROVE CoreInv'
  OBVIOUS
<1>0. busy = "no"
  BY DEF timer_callback, TickIdle, TickAtRest, TickHomePose, TickCommand, TickRefused,
         TickInvalidBeforeCommand, TickWatchdog, Listening
<1>1. CASE TickIdle
  BY <1>0, <1>1, AtRest, ReadInv DEF TickIdle
<1>2. CASE TickAtRest
  <2>1. PICK s \in Inputs, valid \in BOOLEAN : ReadArmState(Seen(s), arm, valid)
    BY <1>2 DEF TickAtRest
  <2> QED
    BY <1>0, <1>2, <2>1, AtRest, SeenType, ReadInv DEF TickAtRest
<1>3. CASE TickHomePose
  <2>1. PICK s \in Inputs, valid \in BOOLEAN, works \in BOOLEAN :
          ReadArmState(Seen(s), IF node.control /\ works THEN "follow" ELSE arm, valid)
    BY <1>3 DEF TickHomePose
  <2> DEFINE a == IF node.control /\ works THEN "follow" ELSE arm
  <2>2. a \in ArmModes \ {"homing"} /\ (node.control <=> a # "limp") /\ ~node.estopped
    BY <1>0, <1>3, AtRest DEF ArmModes, TickHomePose, Listening
  <2> QED
    BY <1>0, <1>3, <2>1, <2>2, AtRest, SeenType, ReadInv DEF TickHomePose
<1>4. CASE TickCommand
  <2>1. PICK s \in Inputs, valid \in BOOLEAN :
          ReadArmState([Seen(s) EXCEPT !.control = TRUE], "follow", valid)
    BY <1>4 DEF TickCommand
  <2> DEFINE n == [Seen(s) EXCEPT !.control = TRUE]
  <2>2. n \in NodeType /\ n.control /\ ~n.estopped
    BY <1>0, <1>4, AtRest, SeenType DEF NodeType, TickCommand, Listening
  <2>3. "follow" \in ArmModes \ {"homing"}
    BY DEF ArmModes
  <2> QED
    BY <1>0, <1>4, <2>1, <2>2, <2>3, ReadInv DEF TickCommand
<1>5. CASE TickRefused
  <2>1. node' \in NodeType
    BY <1>0, <1>5, AtRest, SeenType DEF TickRefused
  <2> QED
    BY <1>5, <2>1 DEF TickRefused, CoreInv, NodeTypeOK, ArmModes, Wbc!TypeOK, wbcVars,
       StoppedArmIsLimp, GainsAreKnown
<1>6. CASE TickInvalidBeforeCommand
  <2>1. PICK s \in Inputs :
          node' = [Seen(s) EXCEPT !.buttonsArmed = node.buttonsArmed,
                                  !.estopped = TRUE, !.control = FALSE]
    BY <1>6 DEF TickInvalidBeforeCommand
  <2>2. node' \in NodeType /\ ~node'.control
    BY <1>0, <2>1, AtRest, SeenType DEF NodeType
  <2> QED
    BY <1>0, <1>6, <2>2 DEF TickInvalidBeforeCommand, CoreInv, NodeTypeOK, ArmModes,
       Wbc!TypeOK, wbcVars, StoppedArmIsLimp, GainsAreKnown
<1>7. CASE TickWatchdog
  <2>1. PICK valid \in BOOLEAN, works \in BOOLEAN :
          IF node.control \/ ~works
          THEN ReadArmState([node EXCEPT !.held = TRUE], arm, valid)
          ELSE ReadArmState([node EXCEPT !.held = TRUE, !.control = TRUE], "hold", valid)
    BY <1>7 DEF TickWatchdog
  <2> DEFINE n == [node EXCEPT !.held = TRUE]
             h == [node EXCEPT !.held = TRUE, !.control = TRUE]
  <2>2. /\ n \in NodeType /\ n.control = node.control /\ ~n.estopped
        /\ h \in NodeType /\ h.control /\ ~h.estopped
    BY <1>0, <1>7, AtRest DEF NodeType, TickWatchdog, Listening
  <2>3. {arm, "hold"} \subseteq ArmModes \ {"homing"} /\ (node.control <=> arm # "limp")
    BY <1>0, AtRest DEF ArmModes
  <2>4. UNCHANGED << busy, inbox >>
    BY <1>7 DEF TickWatchdog
  <2>5. CASE node.control \/ ~works
    BY <1>0, <2>1, <2>2, <2>3, <2>4, <2>5, ReadInv
  <2>6. CASE ~(node.control \/ ~works)
    BY <1>0, <2>1, <2>2, <2>3, <2>4, <2>6, ReadInv
  <2> QED
    BY <2>5, <2>6
<1> QED
  BY <1>1, <1>2, <1>3, <1>4, <1>5, <1>6, <1>7 DEF timer_callback

LEMMA HomeInv == CoreInv /\ _arm_home_cb /\ UNCHANGED wbcVars => CoreInv'
BY DEF CoreInv, _arm_home_cb, Take, NodeTypeOK, NodeType, Topics, ArmModes, Wbc!TypeOK,
       wbcVars, StoppedArmIsLimp, GainsAreKnown

LEMMA EstopInv == CoreInv /\ _safety_estop_cb /\ UNCHANGED wbcVars => CoreInv'
<1> SUFFICES ASSUME CoreInv, _safety_estop_cb, UNCHANGED wbcVars PROVE CoreInv' OBVIOUS
<1>1. NodeTypeOK'
  BY DEF CoreInv, _safety_estop_cb, Take, NodeTypeOK, NodeType, Topics, ArmModes
<1>2. Wbc!TypeOK' BY DEF CoreInv, Wbc!TypeOK, wbcVars
<1>3. StoppedArmIsLimp' /\ GainsAreKnown'
  BY DEF CoreInv, _safety_estop_cb, Take, NodeTypeOK, NodeType, wbcVars, StoppedArmIsLimp,
         GainsAreKnown
<1>4. (busy = "homing" => node.estopped)'
  BY DEF CoreInv, _safety_estop_cb, Take, NodeTypeOK, NodeType
<1> QED BY <1>1, <1>2, <1>3, <1>4 DEF CoreInv

LEMMA EndsInv == CoreInv /\ HomingEnds /\ UNCHANGED wbcVars => CoreInv'
BY DEF CoreInv, HomingEnds, NodeTypeOK, NodeType, ArmModes, Wbc!TypeOK, wbcVars,
       StoppedArmIsLimp, GainsAreKnown

LEMMA ShutdownInv == CoreInv /\ shutdown /\ UNCHANGED wbcVars => CoreInv'
BY DEF CoreInv, shutdown, NodeTypeOK, NodeType, ArmModes, Wbc!TypeOK, wbcVars,
       StoppedArmIsLimp, GainsAreKnown

LEMMA StutterInv == CoreInv /\ UNCHANGED << nodeVars, wbcVars >> => CoreInv'
BY DEF CoreInv, NodeTypeOK, Wbc!TypeOK, nodeVars, wbcVars, StoppedArmIsLimp,
       GainsAreKnown

LEMMA CoreStep == CoreInv /\ [SNext]_vars => CoreInv'
BY LegInv, TickInv, HomeInv, EstopInv, EndsInv, ShutdownInv, StutterInv
DEF SNext, ArmStep, NodeNext, vars

\* No action but the four that go home or end a trip changes what trips depends on.
LEMMA TripsStep == IndInv /\ [SNext]_vars => TripsInv'
<1> SUFFICES ASSUME IndInv, [SNext]_vars PROVE TripsInv'
  OBVIOUS
<1> USE DEF IndInv, TripsInv
<1>0. node \in NodeType /\ (busy = "no" => arm # "homing")
  BY DEF CoreInv, NodeTypeOK
<1>1. CASE UNCHANGED vars
  BY <1>1 DEF vars, nodeVars
<1>2. CASE LegStep
  BY <1>2 DEF LegStep
<1>3. CASE ArmStep /\ TickRefused
  BY <1>0, <1>3 DEF ArmStep, TickRefused, Listening
<1>4. CASE ArmStep /\ timer_callback /\ ~TickRefused
  <2>1. busy = "no" /\ busy' = "no" /\ arm' # "homing"
    BY <1>0, <1>4 DEF timer_callback, TickIdle, TickAtRest, TickHomePose, TickCommand,
       TickInvalidBeforeCommand, TickWatchdog, Listening, ReadArmState
  <2>2. trips' = trips
    BY <1>4, <2>1 DEF ArmStep
  <2>3. CASE TickIdle
    <3>1. node'.estopped = node.estopped
      BY <1>0, <2>3 DEF TickIdle, ReadArmState, NodeType
    <3> QED
      BY <2>1, <2>2, <3>1
  <2>4. CASE ~node.estopped
    BY <2>1, <2>2, <2>4
  <2> QED
    BY <1>4, <2>3, <2>4 DEF timer_callback, TickAtRest, TickHomePose, TickCommand,
       TickInvalidBeforeCommand, TickWatchdog, Listening
<1>5. CASE ArmStep /\ _arm_home_cb
  BY <1>0, <1>5 DEF ArmStep, _arm_home_cb, Take, NodeType
<1>6. CASE ArmStep /\ _safety_estop_cb
  BY <1>0, <1>6 DEF ArmStep, _safety_estop_cb, Take, NodeType
<1>7. CASE ArmStep /\ HomingEnds
  BY <1>0, <1>7 DEF ArmStep, HomingEnds, NodeType, CoreInv
<1>8. CASE ArmStep /\ shutdown
  BY <1>0, <1>8 DEF ArmStep, shutdown
<1> QED
  BY <1>1, <1>2, <1>3, <1>4, <1>5, <1>6, <1>7, <1>8 DEF SNext, ArmStep, NodeNext

-----------------------------------------------------------------------------
(* The theorems.                                                           *)

THEOREM Invariance == SSpec => []IndInv
<1>1. SInit => IndInv
  BY InitInv DEF IndInv, TripsInv, SInit
<1>2. IndInv /\ [SNext]_vars => IndInv'
  BY CoreStep, TripsStep DEF IndInv
<1> QED
  BY <1>1, <1>2, PTL DEF SSpec

\* The arm node and the topics are always well formed.
THEOREM TypeCorrect == SSpec => []TypeOK
<1>1. IndInv => TypeOK
  BY DEF IndInv, CoreInv, TripsInv, TypeOK
<1> QED
  BY <1>1, Invariance, PTL

\* Whatever the SpaceMouse, the watchdog, the feedback and the topics do, and in
\* which order: a stopped arm that is not on its way home has no gains.
THEOREM StoppedMeansLimp == SSpec => []StoppedArmIsLimp
<1>1. IndInv => StoppedArmIsLimp
  BY DEF IndInv, CoreInv
<1> QED
  BY <1>1, Invariance, PTL

\* The node always knows whether its arm has gains.
THEOREM GainsKnown == SSpec => []GainsAreKnown
<1>1. IndInv => GainsAreKnown
  BY DEF IndInv, CoreInv
<1> QED
  BY <1>1, Invariance, PTL

\* However the node comes to home the arm, it does so once.
THEOREM HomesOnce == SSpec => []HomesOnlyOnce
<1>1. IndInv => HomesOnlyOnce
  BY DEF IndInv, TripsInv, HomesOnlyOnce
<1> QED
  BY <1>1, Invariance, PTL

\* The node serves no request any more: it is stopped and not on its way home,
\* or its executor has left.
OutOfService == busy = "down" \/ (node.estopped /\ busy = "no")
DownInv == busy = "down" => arm = "limp"

LEMMA DownStep == CoreInv /\ DownInv /\ [SNext]_vars => DownInv'
<1> SUFFICES ASSUME CoreInv, DownInv, [SNext]_vars PROVE DownInv'
  OBVIOUS
<1>1. CASE UNCHANGED vars \/ LegStep
  BY <1>1 DEF vars, nodeVars, LegStep, DownInv
<1>2. CASE timer_callback
  <2>1. busy = "no" /\ busy' # "down"
    BY <1>2 DEF timer_callback, TickIdle, TickAtRest, TickHomePose, TickCommand, TickRefused,
       TickInvalidBeforeCommand, TickWatchdog, Listening
  <2> QED
    BY <2>1 DEF DownInv
<1>3. CASE _arm_home_cb \/ _safety_estop_cb \/ HomingEnds \/ shutdown
  BY <1>3 DEF _arm_home_cb, _safety_estop_cb, Take, HomingEnds, shutdown, DownInv
<1> QED
  BY <1>1, <1>2, <1>3 DEF SNext, ArmStep, NodeNext

\* Once the arm of a stopped node is limp nothing gives it gains or sends it
\* anywhere again, whatever the topics, the SpaceMouse, the feedback and an
\* interrupt still bring (spacemouse_arm_node.py 323-404).  With the fairness of
\* the executor that is what EstopEndsLimp promises.
THEOREM LimpForGood == SSpec => [][OutOfService => OutOfService' /\ arm = "limp" /\ arm' = "limp"]_vars
<1>1. SInit => DownInv
  BY DEF SInit, Init, DownInv
<1>2. IndInv /\ DownInv /\ [SNext]_vars => DownInv'
  BY DownStep DEF IndInv
<1>3. IndInv /\ IndInv' /\ DownInv /\ DownInv' /\ [SNext]_vars
        => [OutOfService => OutOfService' /\ arm = "limp" /\ arm' = "limp"]_vars
  <2> SUFFICES ASSUME IndInv, IndInv', DownInv, DownInv', SNext, OutOfService
               PROVE  OutOfService' /\ arm = "limp" /\ arm' = "limp"
    OBVIOUS
  <2>1. arm = "limp"
    BY DEF IndInv, CoreInv, StoppedArmIsLimp, DownInv, OutOfService
  <2>2. node \in NodeType
    BY DEF IndInv, CoreInv, NodeTypeOK
  <2>3. OutOfService'
    <3>1. CASE LegStep
      BY <3>1 DEF LegStep, OutOfService
    <3>2. CASE timer_callback
      <4>1. busy = "no" /\ node.estopped /\ TickIdle
        BY <3>2 DEF timer_callback, TickIdle, TickAtRest, TickHomePose, TickCommand, TickRefused,
           TickInvalidBeforeCommand, TickWatchdog, Listening, OutOfService
      <4>2. busy' = "no" /\ node'.estopped
        BY <2>2, <4>1 DEF TickIdle, ReadArmState, NodeType
      <4> QED
        BY <4>2 DEF OutOfService
    <3>3. CASE _arm_home_cb \/ _safety_estop_cb \/ HomingEnds \/ shutdown
      BY <3>3 DEF _arm_home_cb, _safety_estop_cb, Take, HomingEnds, shutdown, OutOfService
    <3> QED
      BY <3>1, <3>2, <3>3 DEF SNext, ArmStep, NodeNext
  <2>4. arm' = "limp"
    BY <2>3 DEF IndInv, CoreInv, StoppedArmIsLimp, DownInv, OutOfService
  <2> QED
    BY <2>1, <2>3, <2>4
<1> QED
  BY <1>1, <1>2, <1>3, Invariance, PTL DEF SSpec
=============================================================================
