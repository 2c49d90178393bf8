---------------------------- MODULE StopProtocol ----------------------------
(***************************************************************************)
(* What the leg controller promises the rest of the robot about stopping,   *)
(* without saying how: README.md of the repository, "first L1" and "second  *)
(* L1".  Once a stop is asked for the base never starts to move again, the  *)
(* arm is sent home at most once and only when the base is at rest, and the *)
(* emergency channel overrides all of it for good.                          *)
(***************************************************************************)
EXTENDS Naturals

VARIABLES
    stage,    \* "run", "stopping", "homed", "hard" or "off"
    moving,   \* the base is told to move
    homes,    \* /arm/home messages sent
    estop     \* /safety/estop was sent

vars == <<stage, moving, homes, estop>>

Stages == {"run", "stopping", "homed", "hard", "off"}

TypeOK ==
    /\ stage \in Stages /\ moving \in BOOLEAN /\ homes \in Nat /\ estop \in BOOLEAN

Init == stage = "run" /\ moving = FALSE /\ homes = 0 /\ estop = FALSE

\* The operator or the policy changes the speed.
Drive ==
    /\ stage = "run"
    /\ moving' \in BOOLEAN
    /\ UNCHANGED <<stage, homes, estop>>

RequestStop ==
    /\ stage = "run"
    /\ stage' = "stopping"
    /\ UNCHANGED <<moving, homes, estop>>

SlowDown ==
    /\ stage = "stopping"
    /\ moving' = FALSE
    /\ UNCHANGED <<stage, homes, estop>>

\* The arm goes home, either at the end of a stop or at once if nothing moves.
SendHome ==
    /\ stage \in {"run", "stopping"} /\ ~moving
    /\ stage' = "homed"
    /\ homes' = homes + 1
    /\ UNCHANGED <<moving, estop>>

HardStop ==
    /\ stage # "off"
    /\ stage' = "hard" /\ moving' = FALSE /\ estop' = TRUE
    /\ UNCHANGED homes

\* The process ends: from a second press, with the emergency channel, or not.
Leave ==
    /\ stage # "off"
    /\ stage' = "off"
    /\ estop' \in {estop, stage # "run" \/ estop}
    /\ UNCHANGED <<moving, homes>>

Next == Drive \/ RequestStop \/ SlowDown \/ SendHome \/ HardStop \/ Leave

Spec == Init /\ [][Next]_vars
=============================================================================
