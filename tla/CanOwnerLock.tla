----------------------------- MODULE CanOwnerLock -----------------------------
(***************************************************************************)
(* Who may drive the arm's CAN bus: real-wbc/modules/can_owner_lock.py and *)
(* the two programs that take the lock, the arm node and a leg controller  *)
(* that drives the arm itself.  The lock is flock() on a file that also    *)
(* holds the owner's name for the one that is refused.                     *)
(*                                                                         *)
(* The kernel ties a flock to the open file, which forked children share:  *)
(* unlocking it by anyone frees it, a crash only when the last process     *)
(* that has it open is gone.  The arm node forks the SpaceMouse reader and *)
(* a shared-memory server, which outlive it if it is killed.               *)
(*                                                                         *)
(* Operators named X_Variant are plausible wrong versions of X, used only  *)
(* to test the properties.                                                 *)
(***************************************************************************)

CONSTANTS
    ArmNodes, WbcNodes, \* processes of the two programs, started again and again
    Nobody, Orphans     \* no process; the children of a killed arm node

Nodes == ArmNodes \union WbcNodes

ASSUME NodesAssumption == Nobody \notin Nodes /\ Orphans \notin Nodes

VARIABLES
    lock,    \* who has the file locked
    name,    \* the owner's name in the file, or Nobody if it is empty
    pc,      \* where each process is
    driving, \* processes whose controller thread sends on the bus
    forked   \* arm nodes with children

vars == << lock, name, pc, driving, forked >>

Init ==
    /\ lock = Nobody /\ name = Nobody
    /\ pc = [p \in Nodes |-> "off"]
    /\ driving = {} /\ forked = {}

Goto(p, from, to) == pc[p] = from /\ pc' = [pc EXCEPT ![p] = to]

-----------------------------------------------------------------------------
(* acquire(): a process that is refused ends, or goes on without an arm. *)

acquire_EmptiesOnOpen(p) ==
    /\ pc[p] = "off"
    /\ name' = Nobody
    /\ IF lock = Nobody
       THEN lock' = p /\ pc' = [pc EXCEPT ![p] = "locked"]
       ELSE UNCHANGED << lock, pc >>
    /\ UNCHANGED << driving, forked >>

acquire(p) ==
    /\ Goto(p, "off", "locked")
    /\ lock = Nobody /\ lock' = p
    /\ UNCHANGED << name, driving, forked >>

ForgetPreviousOwner(p) ==
    /\ Goto(p, "locked", "truncated")
    /\ name' = Nobody
    /\ UNCHANGED << lock, driving, forked >>

WriteName(p) ==
    /\ Goto(p, "truncated", "owner")
    /\ name' = p
    /\ UNCHANGED << lock, driving, forked >>

(* release() *)

release_Truncate(p) ==
    /\ Goto(p, "releasing", "unlocking")
    /\ name' = Nobody
    /\ UNCHANGED << lock, driving, forked >>

release_Unlock(p) ==
    /\ Goto(p, "unlocking", "released")
    /\ lock' = Nobody
    /\ UNCHANGED << name, driving, forked >>

-----------------------------------------------------------------------------
(* The programs around it. *)

\* The controller's constructor starts its thread, or throws.
StartController(p) ==
    /\ Goto(p, "owner", "starting")
    /\ driving' = driving \union {p}
    /\ UNCHANGED << lock, name, forked >>

ControllerFails(p) ==
    /\ Goto(p, "owner", "releasing")
    /\ UNCHANGED << lock, name, driving, forked >>

\* The arm node forks unless the arm is locked in the training pose.
Serve(p) ==
    /\ Goto(p, "starting", "serving")
    /\ forked' \in {forked, forked \union ({p} \intersect ArmNodes)}
    /\ UNCHANGED << lock, name, driving >>

disable_arm_runtime_LockFirst(p) ==
    /\ p \in WbcNodes
    /\ Goto(p, "starting", "off")
    /\ lock' = Nobody /\ name' = Nobody
    /\ UNCHANGED << driving, forked >>

\* The leg controller drops its controller object before it releases the lock,
\* and goes on without an arm.
disable_arm_runtime(p) ==
    /\ p \in WbcNodes
    /\ Goto(p, "starting", "releasing")
    /\ driving' = driving \ {p}
    /\ UNCHANGED << lock, name, forked >>

\* The arm node gives the lock back and still has its controller object.
_cleanup_inputs_and_lock(p) ==
    /\ p \in ArmNodes
    /\ Goto(p, "starting", "releasing")
    /\ UNCHANGED << lock, name, driving, forked >>

\* The end of either program: the children are joined, unless damping the arm
\* throws before, the lock is given back in any case, and only the end of the
\* process takes the controller off the bus.
shutdown(p) ==
    /\ Goto(p, "serving", "releasing")
    /\ forked' \in {forked, forked \ {p}}
    /\ UNCHANGED << lock, name, driving >>

Exit(p) ==
    /\ Goto(p, "released", "off")
    /\ driving' = driving \ {p}
    /\ forked' = forked \ {p}
    /\ UNCHANGED << lock, name >>

\* A process is killed at any point, or ends without release().
Crash(p) ==
    /\ pc[p] # "off"
    /\ pc' = [pc EXCEPT ![p] = "off"]
    /\ lock' = IF lock # p THEN lock ELSE IF p \in forked THEN Orphans ELSE Nobody
    /\ driving' = driving \ {p}
    /\ forked' = forked \ {p}
    /\ UNCHANGED name

\* Somebody kills the children that were left behind.
OrphansEnd ==
    /\ lock = Orphans /\ lock' = Nobody
    /\ UNCHANGED << name, pc, driving, forked >>

Next ==
    \/ \E p \in Nodes :
          \/ acquire(p) \/ ForgetPreviousOwner(p) \/ WriteName(p)
          \/ release_Truncate(p) \/ release_Unlock(p)
          \/ StartController(p) \/ ControllerFails(p) \/ Serve(p)
          \/ disable_arm_runtime(p) \/ _cleanup_inputs_and_lock(p)
          \/ shutdown(p) \/ Exit(p) \/ Crash(p)
    \/ OrphansEnd

Spec == Init /\ [][Next]_vars

-----------------------------------------------------------------------------
InService(p) == pc[p] \in {"owner", "starting", "serving", "releasing"}

\* Two controllers drive the bus at once only while all but one of them are on
\* their way out: a process that has not given the lock back is alone with it,
\* whatever was killed before and whichever program it is.  (On the way out
\* they may overlap, against the intent of "refusing to open another X5 writer":
\* shutdown and _cleanup_inputs_and_lock release before the controller is gone.)
OneWriterInService ==
    \A p, q \in driving : p = q \/ pc[p] = "released" \/ pc[q] = "released"

\* From the moment the name is written until release() begins, whoever is
\* refused reads the name of the process that has the lock; no late clean-up of
\* a predecessor erases it.
RefusalNamesOwner ==
    \A p \in Nodes : InService(p) => lock = p /\ name = p
=============================================================================
