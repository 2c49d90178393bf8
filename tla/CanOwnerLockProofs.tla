-------------------------- MODULE CanOwnerLockProofs --------------------------
(***************************************************************************)
(* Both properties of CanOwnerLock for any number of arm nodes and leg     *)
(* controllers, started, killed and restarted in any order.                *)
(***************************************************************************)
EXTENDS CanOwnerLock, TLAPS

States ==
    {"off", "locked", "truncated", "owner", "starting", "serving", "releasing",
     "unlocking", "released"}

Holding == States \ {"off", "released"}

\* Each process between acquire and LOCK_UN has the lock, from its name being
\* written to release() the file names it, and only a process that has been
\* through the constructor and has not ended drives the bus.
IInv ==
    /\ pc \in [Nodes -> States]
    /\ driving \subseteq Nodes
    /\ \A p \in Nodes : pc[p] \in Holding => lock = p
    /\ \A p \in Nodes : InService(p) => name = p
    /\ \A p \in driving :
          pc[p] \in {"starting", "serving", "releasing", "unlocking", "released"}

\* The invariant holds at the start.
LEMMA InitInvariant == Init => IInv
BY DEF Init, IInv, States, Holding, InService

\* Acquiring is exclusive; the steps under the lock touch nobody else's name.
LEMMA LockSteps ==
    ASSUME IInv, NEW p \in Nodes,
           \/ acquire(p) \/ ForgetPreviousOwner(p) \/ WriteName(p)
           \/ release_Truncate(p) \/ release_Unlock(p)
    PROVE  IInv'
<1> USE NodesAssumption DEF IInv, States, Holding, InService, Goto
<1>1. CASE acquire(p) BY <1>1 DEF acquire
<1>2. CASE ForgetPreviousOwner(p) BY <1>2 DEF ForgetPreviousOwner
<1>3. CASE WriteName(p) BY <1>3 DEF WriteName
<1>4. CASE release_Truncate(p) BY <1>4 DEF release_Truncate
<1>5. CASE release_Unlock(p) BY <1>5 DEF release_Unlock
<1> QED BY <1>1, <1>2, <1>3, <1>4, <1>5

\* What the programs do with a lock they have.
LEMMA ProgramSteps ==
    ASSUME IInv, NEW p \in Nodes,
           \/ StartController(p) \/ ControllerFails(p) \/ Serve(p)
           \/ disable_arm_runtime(p) \/ _cleanup_inputs_and_lock(p)
           \/ shutdown(p) \/ Exit(p) \/ Crash(p)
    PROVE  IInv'
<1> USE NodesAssumption DEF IInv, States, Holding, InService, Goto
<1>1. CASE StartController(p) BY <1>1 DEF StartController
<1>2. CASE ControllerFails(p) BY <1>2 DEF ControllerFails
<1>3. CASE Serve(p) BY <1>3 DEF Serve
<1>4. CASE disable_arm_runtime(p) BY <1>4 DEF disable_arm_runtime
<1>5. CASE _cleanup_inputs_and_lock(p) BY <1>5 DEF _cleanup_inputs_and_lock
<1>6. CASE shutdown(p) BY <1>6 DEF shutdown
<1>7. CASE Exit(p) BY <1>7 DEF Exit
<1>8. CASE Crash(p)
  <2>1. \A q \in Nodes : q # p => pc'[q] = pc[q] BY <1>8 DEF Crash
  <2>2. \A q \in Nodes : pc'[q] \in Holding => q # p /\ lock' = q
    BY <1>8, <2>1 DEF Crash
  <2> QED BY <1>8, <2>1, <2>2 DEF Crash
<1> QED BY <1>1, <1>2, <1>3, <1>4, <1>5, <1>6, <1>7, <1>8

\* Every step keeps the invariant.
LEMMA StepInvariant == IInv /\ [Next]_vars => IInv'
<1> SUFFICES ASSUME IInv, [Next]_vars PROVE IInv' OBVIOUS
<1>1. CASE OrphansEnd
  BY <1>1, NodesAssumption DEF OrphansEnd, IInv, States, Holding, InService
<1>2. CASE UNCHANGED vars
  BY <1>2 DEF vars, IInv, States, Holding, InService
<1> QED BY <1>1, <1>2, LockSteps, ProgramSteps DEF Next

\* For any set of processes: two controllers are on the bus together only while
\* all but one have given the lock back.
THEOREM OneWriter == Spec => []OneWriterInService
<1>1. IInv => OneWriterInService
  BY DEF IInv, OneWriterInService, States, Holding
<1> QED BY <1>1, InitInvariant, StepInvariant, PTL DEF Spec

\* For any set of processes: the lock file names the process that has the lock.
THEOREM NamesOwner == Spec => []RefusalNamesOwner
<1>1. IInv => RefusalNamesOwner
  BY DEF IInv, RefusalNamesOwner, InService, States, Holding
<1> QED BY <1>1, InitInvariant, StepInvariant, PTL DEF Spec
=============================================================================
