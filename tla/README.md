# Verification of gx-real

TLA+ specifications, TLC runs and TLAPS proofs for the real-robot deployment of
a Go2 quadruped with an X5 (ARX5) arm. Paths are relative to `src/`.

The subject is the repository's own control code: the ROS 2 nodes of
`real-wbc/modules`, the C++ arm SDK in `arx5-sdk/src` and its Python interfaces.
`unitree_ros2`, `unitree_sdk2`, CycloneDDS and the NatNet client are third-party.

## 1. Inventory

### Components

| Component | State | Operations | Status |
|---|---|---|---|
| Leg controller, `wbc_node_leg12_arm_passthrough.py` | stand-up clock, alignment, rollout and handover flags, stop phase, base command ramp, last leg command, ages of LowState and SportModeState, latched fault | subscriptions (LowState, SportModeState, joystick, arm state), policy timer 1 ms, motor timer 2 ms, Ctrl-C | `WbcControl` |
| Base command input, `base_command_provider.py` | stick, its age, inhibition until centred, last filtered command | joystick message, watchdog 0.25 s, gate, rate limit | inside `WbcControl` as the leg controller sees it |
| Arm node, `spacemouse_arm_node.py` | stopped flag, belief about the gains, arming of stick and buttons, watchdog flag, last motion sequence, targets | timer, `/arm/home`, `/safety/estop`, shutdown | `SpaceMouseArm`, `StopSystem`; choice of a motion in `SpaceMouseMotion` |
| ARX5 controller, `arx5-sdk/src/app/*.cpp` | gains, interpolator, joint state, output command, two mutexes, running/destroy flags, over-current count | background loop; set_gain, set_to_damping, set_joint_cmd/set_eef_cmd, reset_to_home, destructor | `Arx5Controller` |
| Joint interpolator, `arx5-sdk/src/utils.cpp` | trajectory points | init, init_fixed, append and override of a waypoint or a trajectory, interpolate, calc_joint_vel | `JointInterpolator`, used by `ArmTrajectory`; an interval in `Arx5Controller` |
| SpaceMouse reader, `spacemouse_shared_memory.py` | last motion and buttons, motion sequence | reader process, stop | `SpaceMouseMotion` |
| Shared-memory ring buffer, `shared_memory/*.py` | counter, per-slot timestamps and arrays | put (rate-limited), get, get_last_k | `SharedMemoryRingBuffer` |
| CAN owner lock, `can_owner_lock.py` | flock on a file with the owner's name, inherited descriptors | acquire, release | `CanOwnerLock` |
| Arm observation cache, `arm_observation.py` | last state and target and their ages | update_state, update_target, get, readiness | not modelled (section 8) |
| Height scan, `height_scan_*.py` | last valid grid, its age, filters | cloud callback, get with fallback | not modelled |
| Remote arm over ZeroMQ, `arx5-sdk/python/communication` | controller or none, last message time | request/reply, idle timeout that homes and deletes | not modelled |
| Shared-memory queue, `shared_memory_queue.py` | two counters, slots | put, get | not modelled: nothing creates one |
| Legacy WBC node and teleop; policy bundle, limits, decoders; scripts; mocap | - | - | not modelled (section 8) |

### How they interact

The leg controller and the arm node are two processes. They share two
`std_msgs/Bool` topics: `/arm/home`, which the leg controller publishes once its
legs rest in a controlled stop, and `/safety/estop`, which it publishes on any
hard stop. The arm node publishes the arm's state and target, which the policy
observes. The arm node calls the SDK from its executor thread; the SDK runs a
second thread that exchanges CAN frames with the motors. The SpaceMouse is read
by a third process into a shared-memory ring buffer. A file lock keeps a second
process away from the CAN bus.

### Hard behaviours

* Leg controller: callbacks never overlap, but each order of two timers, five
  buttons, two kinds of state messages and time is possible. The stop takes four
  phases driven by a timer. A fault may arise in any of them, on stale or
  conflicting state.
* Arm SDK: two threads and two mutexes; gains are read motor by motor;
  `set_gain` compares state and command that are only as fresh as the last pass;
  fixed sleeps stand for acknowledgements; an emergency path that never returns.
* Arm node: two topics without an order between them; a callback that blocks the
  executor for seconds; invalid feedback that damps without stopping; a watchdog
  that gives gains back.
* Arm trajectories: a command reads the clock, solves the inverse kinematics,
  and only then waits for the mutex; points may be late by then, and each command
  cuts the trajectory the one before it left, at its own time.
* Shared memory: a reader and a writer without a lock, kept apart by timing; an
  item is copied array by array.
* CAN lock: the kernel's rules of flock with forked children, kills and restarts.

### What makes each component correct

* Leg controller: the base moves only in a rollout past its handover; the policy
  runs only on legs stood up before; a stop only moves forward and ends; a hard
  stop is final; legs that hold a position stay under the watchdogs, and lost state or
  another controller ends control; the arm is sent home once and never after the
  emergency channel was used; a zero command holds.
* Arm SDK: damping reaches the motors before anyone relies on it; the destructor
  leaves the motors damped; switching gains on does not jump; calls return;
  lasting over-current ends in damping.
* Arm node: a stopped node keeps the arm limp; it homes at most once; it knows
  whether its arm has gains; an emergency stop ends with a limp arm.
* Arm trajectory: every lookup is defined and no division is by zero; a new
  command starts where the arm is told to be; the waypoints that are still to
  come are reached; appending leaves what comes before alone.
* Ring buffer: a copy that ends in time is whole and in order. SpaceMouse motion: each deflection
  moves the target at most once, in order, while it is fresh, and is passed over
  only for a reason.
* CAN lock: two controllers overlap on the bus only while all but one are on their
  way out; whoever is refused is told the right owner.

The full list of hazards, each at its line, is in `PROJECT.json`.

## 2. Modules

| Module | Content |
|---|---|
| `StopProtocol` | abstract specification: what the leg controller promises about stopping |
| `WbcControl` | the leg controller; its properties; the refinement of `StopProtocol` |
| `WbcZeroCommand` | `WbcControl` with a history variable for the operator's Y |
| `WbcControlProofs` | theorems about `WbcControl` |
| `WbcStopProofs` | how `WbcControl` stops, and that it implements `StopProtocol` |
| `WbcZeroCommandProofs` | a Y in the rollout holds |
| `Arx5Controller` | the SDK's two threads |
| `Arx5ControllerProofs` | theorems about `Arx5Controller` |
| `SpaceMouseArm` | the arm node |
| `StopSystem` | arm node and leg controller (as `StopProtocol`) over the two topics |
| `StopSystemProofs` | theorems about `StopSystem` |
| `JointInterpolator` | the SDK's interpolator, as operators on a sequence of points |
| `ArmTrajectory` | the commands that change the trajectory, with time between their steps |
| `ArmTrajectoryProofs` | theorems about `ArmTrajectory` and lemmas about the interpolator |
| `SharedMemoryRingBuffer` | writer and reader of the ring buffer, a specification of its own (`RingSpec`) |
| `SpaceMouseMotion` | the SpaceMouse process and the arm node's timer on top of the ring buffer |
| `SpaceMouseMotionProofs` | theorems about `RingSpec`, carried over to `SpaceMouseMotion`, and about its choice of a motion |
| `CanOwnerLock` | arm nodes and leg controllers around the lock file |
| `CanOwnerLockProofs` | theorems about `CanOwnerLock` |
| `MC*` | instances for TLC |

Operators named `Op_Variant` are wrong versions of `Op`; no specification uses
them. Each names a slip that makes one property fail.

### WbcControl

One action is one callback, since `rclpy.spin` runs one at a time.

| Action | Code (`wbc_node_leg12_arm_passthrough.py`) |
|---|---|
| `LowState`, `SportState` | `lowlevel_state_cb`, `sport_state_cb`: a good sample, or one that is not finite or has an error flag |
| `PressR1`, `PressR2`, `PressL2`, `PressY`, `PressL1` | `joy_stick_cb`, one action per button, with `start`, `start_policy_alignment`, `start_pose_test`, `request_graceful_stop`, `emergency_stop` |
| `PolicyTimer` | `policy_timer_callback`: gates, `advance_graceful_stop`, then pose test, alignment, FixStand or policy step |
| `MotorTimer` | `motor_timer_callback`: gates, passive control or the waiting command |
| `Tick` | `time.monotonic()` moves on |
| `Interrupt` | Ctrl-C |

A timestamp appears as its age. The model stops counting an age at the limit it
is compared with (`Older`); the code has no such cap, and none of its comparisons
tells the ages beyond apart.
The twelve joint targets and gains of a command are replaced by the name of the
branch that wrote them (`buffer` waiting, `out` on the wire); the base command
`(vx, vy, yaw)` by one number, which is ramped with the code's cubic. A policy
step may find an observation, action or target that is not finite (`PolicyFault`).
The same checks on the other leg commands (`set_motor_position`, lines 3128-3130;
`lowcmd_is_finite`, 3074-3085; the pose the lie-down starts from, 3302-3304) are left
out: those commands blend constants with joint positions that `lowlevel_state_cb`
has validated, so the checks cannot fail there.
`phase` is `graceful_stop_phase`.

### Arx5Controller

A step is what no other thread can interrupt: a critical section that does not
block is one step, guarded by its mutex being free. `bgPc` is the place of the
background thread in its loop (over-current, sanity, interpolate, clip, send per
motor, receive), `fgPc` of the caller. Positions are `0 .. PosMax`, one number for
the joint with the largest error. `kp` is "zero", "soft" or "stiff", the classes
the code's threshold makes; `RampGain` is the class of the first step of the ramp in
`reset_to_home`: "soft" for the deployed arm (at most 200/250, below the threshold of 1),
"stiff" for the 7-joint Cartesian configuration (300/250). The runs take "soft", the
proofs either. The interpolator is an interval of positions it may
return. The arm moves by one per pass, on its own when it is limp.

### SpaceMouseArm and StopSystem

A callback of the node is one step. `_arm_home_cb` and `shutdown` begin with one
step and end with `HomingEnds`, because `reset_to_home` and a settle sleep block
the executor for seconds; messages gather in `inbox` meanwhile. `arm` is what the
controller was last told. `Inputs` is what a sample of the SpaceMouse can mean to
the node: stick at rest or not, sequence new or not, buttons down, and whether
the gripper has room to move. `StopSystem` adds the leg controller as
`StopProtocol` describes it, so it holds with any leg controller that keeps that
protocol; the run `wbc_safety` shows that `WbcControl` does.

### JointInterpolator and ArmTrajectory

`JointInterpolator` has no variables: `traj_` is a sequence of `[pos, timestamp]`
and each member function an operator that returns the new one. `ArmTrajectory`
has one interpolator and one of three clients, the joint controller, the
Cartesian controller, or a program that uses the class by itself. A command is
cut where time may pass: reading the clock, the inverse kinematics (`SolveCmd`,
`Collect`), each pass of `calc_joint_vel`, and the section under `cmd_mutex_`
(`LockCmd`, `LockTraj`, `LockHome`). `IsNear` is the test for a stamp less than 1 ms from
the time read first, after which `set_joint_cmd` fixes the position with its own
stamp; `Near` is that tolerance in ticks. The ramp of `reset_to_home` ends in
`HomeReached`, or in `HomeRefused` when `set_gain` throws. `BgReadClock` and `BgLookup` are the background
thread, whose time stamp may be old when it gets the mutex.

### SharedMemoryRingBuffer and SpaceMouseMotion

Items are numbered by the count at which they are put, and a slot of an array
holds the number of the item whose bytes it has, so a torn copy is one whose
numbers disagree. The writer is at `PutKey` once per array, then `PutStamp`, then
`PutCount`; the reader at `GetCount`, then `GetKey` once per array, then `GetEnd`. The
clock ticks between any two steps. `until` and `late` are history variables: the
time before which nothing of the copy can be written again, and whether the copy
ended only then. `SpaceMouseMotion` puts `Spacemouse.run` on the writer's side and
`_read_spacemouse_input` with `_select_spacemouse_motion_sample` and
`_should_apply_motion_command` on the reader's; `sent` is the content of the items,
`moves` the deflections that were added to the target.

### CanOwnerLock

Each process is one of two programs, started again and again: `acquire` and the
writing of the name, the controller (`StartController`, `ControllerFails`), service,
`release` in two steps, and the end. `driving` is the set of processes whose
controller thread is on the bus. `Crash` may happen at any point; the lock of an
arm node with forked children stays with `Orphans`.

## 3. Runs

| Run | Instance | Shows |
|---|---|---|
| `wbc_safety` | both stand-up modes, both command sources, durations 1-2, commands 0..2 | gating of the base command, finality and order of stopping, legs that hold are watched, `KeepsStopProtocol` |
| `wbc_liveness` | internal, fixed, durations 1-2 | stops and handovers end, lost state or a conflicting controller ends control, a Y in the rollout holds |
| `wbc_zero_handover` | same, handover 2 | expected violation of `ZeroHolds` |
| `arx5_motion` | 2 motors, positions 0..4, good feedback, a client that passes only stiff gains | damping before reading, damped exit, no jump unless refused |
| `arx5_faults` | 2 motors, positions 0..1, all feedback | gains take effect, calls return, over-current is caught |
| `arx5_emergency` | 1 motor, 1 position | expected violation of `OverCurrentDamps` |
| `arx5_jump` | 2 motors, positions 0..3, any gains | expected violation of `NoJump` |
| `stop_system` | complete, no bound | a stopped arm is limp, homed once, emergency stop and home request are served |
| `stop_homing` | complete | expected violation of `EstopStopsHoming` |
| `arx5_trajectory` | 3 clients, 3 commands, 2 positions, 5 trajectories, clock 4..9 | lookups, velocity windows, continuity, waypoints reached, appending |
| `spacemouse_motion` | windows of 3 in 4 slots, 2 arrays, 5 puts, 2 motion events, clock 0..2 | whole copies; each motion once, in order, fresh; none lost without a reason |
| `can_owner_lock` | 2 arm nodes, 1 leg controller, complete | one controller in service on the bus, the refusal names the owner |

### Bounds

* `WbcControl`: a duration is a whole number of `Tick`s. Two units make each
  phase have a first, a middle and a last step, so a button can fall on each side
  of a deadline; `LowLimit` and `SportLimit` of 1 separate fresh, just fresh and
  old. A command of 2 has an intermediate value on its ramp, a ramp of 3 units
  (`wbc_zero_handover`) more of them. Ages are capped, so the state space is finite
  without a bound on time.
* `Arx5Controller`: the guard accepts a distance of `JumpThreshold = 0`; with what
  command and arm move in one pass a legal start is at most 2 away. A far one is one
  that is still too far after the velocity clip has taken a step off it: 4 away, so
  positions are 0..4 (with 0..3 TLC misses the race of section 4). Two motors let a gain change fall between two frames.
  `SleepPasses = 2`: the code's 10 ms hold about five passes of 2 ms, and two are
  the fewest that contain one whole pass. `OverMax = 1` (20 in the code) still
  separates a first, a last tolerated and a fatal count.
* `StopSystem` is finite as it is: 1,587 states. So is `CanOwnerLock`: 627.
* `ArmTrajectory`: a tick is 25 ms, so that `avg_window_s` (50 ms) is two ticks and
  `Half` one. `Near = 1` stretches the 1 ms of `set_joint_cmd` to a whole tick; only the
  order of the stamps matters, and so a command can fall before, into and after the
  time that a fixed position lies ahead. The clock starts at 4, where `set_*_traj`
  still throws because its history would reach before time 0, and runs past that.
  Three commands are
  what it takes to build a trajectory, cut it, and cut the result; the stamps
  contain a missing one, and with 6, 8 and 10 ones that are past, to come and
  far off at some tick. The five trajectories are an empty one, one point, one
  with a point without a stamp, one with equal stamps and one out of order.
* `SpaceMouseMotion`: the 30 items and 0.2 s of the code become windows of three items
  and a budget of one tick; one spare slot is the smallest buffer that has any,
  the case in which writer and reader come closest. Five puts go around the four
  slots once and reach into the window of a reader that counted early; two ticks
  allow a budget to run out and a second one to begin. Two motion events are
  the fewest that have an order.

### Fairness

* `FairSpec` of `WbcControl`: weak fairness of `Tick`, `PolicyTimer` and
  `MotorTimer`; `rclpy.spin` keeps serving ready timers and time passes. Nothing is
  assumed of buttons or of the robot's messages.
* `Arx5Controller`: weak fairness of the background thread, which sleeps with both
  mutexes free in each pass, and strong fairness of a call in progress, which may
  find a mutex taken now and then. Callers need not call.
* `SpaceMouseArm`: weak fairness of the two subscriptions and of the end of homing,
  a ramp of bounded length. Nothing is assumed of ticks, samples or Ctrl-C.

`CHECK_DEADLOCK FALSE` is set in all but `can_owner_lock`, because the systems do
stop: the leg controller exits, the destructor ends both threads, the emergency
path waits for itself, the arm node is shut down; and in `arx5_trajectory` and
`spacemouse_motion` the clock, the commands and the puts are bounded.

## 4. Disagreements found

1. *Y during the handover is forgotten* (`wbc_zero_handover`).
   `update_policy_commands` takes `policy_move_commands` as its target when the
   handover ends, whatever was pressed since L2. The guide says Y only ramps to
   zero. With the wireless joystick the inhibition does survive.
2. *The emergency state waits for itself* (`arx5_emergency`).
   `enter_emergency_state_` holds `cmd_mutex_` and calls `set_gain`, which takes it
   again. The mutex is a `std::mutex`; relocking it in one thread is undefined and
   modelled as what the platform does, waiting for ever. The promised damping is
   not sent.
3. *A refused `set_gain` disarms its own guard* (`arx5_jump`). It throws with the
   background thread switched off; both values it compares are frozen from then
   on, and `reset_to_home` switches the thread and full gains on wherever the arm
   has been moved to. `NoJumpUnlessRefused` holds for the arm node.
4. *An emergency stop does not interrupt homing* (`stop_homing`). The home callback
   blocks the only executor thread, and the emergency stop is ignored afterwards
   because the node is already stopped. The arm does end limp (`EstopEndsLimp`).

Smaller ones, seen while modelling, which have no run of their own:

* The comment at `shared_memory_ring_buffer.py:135-137` says that the wait in `put`
  lets `get_last_k` safely read k elements from any count. That is so for
  windows of at most `get_max_k - 2` items; for a wider one the item whose age
  the writer waits for may have been put before the reader began. Then a
  reader that is within its budget gets a torn window if the newest item was
  older than the budget when the copy ended. `reader.late` is that case:
  without it `CopiesWhole` fails at the bounds of `spacemouse_motion`, and with one
  put more, without `~torn`, so does `EachMotionOnce` (an old motion comes back
  under a newer sequence number). The arm node asks for `get_max_k` items.
* The guard in `set_gain` compares the arm with a command that may be half computed:
  `update_output_cmd_` writes the interpolated position under `cmd_mutex_` and clips it
  after having released the mutex. A program that passes zero and then full gains
  within one pass, while the arm lags far behind its command, is let through on the
  interpolated position and gets the clipped one. TLC shows it when `ClientGains` in
  `Arx5Motion.cfg` is `{"zero", "stiff"}`. The arm node passes only full gains and damps
  through `set_to_damping`, whose 10 ms let the command settle at the arm; for such
  programs `GainsWithoutJump` is a theorem.
* `CanOwnerLock` refuses "to open another X5 writer" (`can_owner_lock.py:44`), but
  `shutdown` and `_cleanup_inputs_and_lock` of the arm node give the lock back
  before the controller object is gone, so the next owner may drive the bus
  beside a predecessor on its way out. `OneWriterInService` is what does hold.
* After a SIGKILL of the arm node its forked children keep the file open and so
  the lock: a restart is refused until somebody ends them, and the name in the
  file is that of the dead process.
* `set_joint_cmd` with a stamp less than 1 ms ahead fixes the position with that stamp,
  as the start of a trajectory that has not begun (`joint_controller.cpp:32-35`). A
  `set_joint_traj` or `set_joint_cmd` that gets the lock before it is due throws
  "Current time must be no less than start time". `WaypointsReached` says that this is
  the only way a trajectory that passed the checks is refused.
* In `set_joint_traj` and `set_eef_traj` the branch for a time stamp of 0 cannot be
  reached, since such a point was skipped before as not after `start_time`;
  `append_traj` and `override_traj` say "strictly ascending" and test for less.
  Equal stamps do no harm (`LookupDefined`).

## 5. Proofs

All theorems hold for every value of the constants that the named assumptions
(`ModesAssumption`, `TimesAssumption`, `MoveCmdAssumption`,
`ControllerAssumption`, `TrajectoryAssumption`, `MaxKAssumption`,
`SpareAssumption`, `BudgetAssumption`, `KeysAssumption`, `SampleKeysAssumption`,
`WatchdogAssumption`, `NodesAssumption`) allow:
any durations, any number of motors, any range of positions, any trajectories,
any size of buffer and window, any processes. Each proof follows the same line: an inductive `IndInv` holds
initially, every action keeps it (one lemma per action), it implies the property,
and PTL concludes.

* `WbcControlProofs`: `IndInv` is `TypeOK` with what the phases leave behind. The
  base command is gated (`BaseGated`) only because the ramp rests at zero until the
  handover is over (`CommandInv`); the policy needs a stand (`PolicyNeedsStand`)
  because alignment does (`StandInv`); `HardStopFinal` needs the latch of the fault
  and what each stop phase has switched off (`PhaseInv`); `ArmHomeOnce` needs which
  phases have already sent (`HomeInv`). The action properties `NoLateHome` and
  `StopForward` follow from the same invariant, one case per action. `LegsWatched`
  needs `WatchInv`: with the internal stand-up a holding command, in the buffer or on
  the wire, means that R1 was pressed and is not forgotten before a stop begins.
* `WbcStopProofs`: `StopInv` adds to `IndInv` what a stop relies on. `ZeroInv` says
  that the ramp to zero has come down at least as far as the command, whenever the
  timer looked at it last; it needs that the cubic, rounded down at every step,
  falls for any start and any duration (`BlendFalls`, from `SmoothGrows` and the
  order of division). `NeverFaster` follows. `NeverDropped` needs that legs nobody
  asked to stand were never given a holding command, and that nothing is asked
  before the first LowState (`BufferInv`, `TickInv`). `ImplementsStopProtocol` maps
  every step to one of the protocol's or to a stutter: what the protocol demands of
  `SendHome`, a base at rest, comes from the two invariants together.
* `WbcZeroCommandProofs`: a Y in the rollout starts the same falling ramp
  (`AskedInv`); the handover that forgets it in the violation run is over, so no
  step takes another target (`ZeroIsHeld`).
* `Arx5ControllerProofs`: `DampingSentFirst` and `ExitIsDamped` say that the fixed
  sleeps suffice for any number of motors. The argument counts passes: after one
  ended pass inside the sleep the running one sends only zero (`SentInv`), after
  two every motor has it. `RunInv` tells when the thread runs at all, `GainInv` that
  `gain_` stays zero inside the damping calls. `SleepPasses >= 2` is the assumption
  that makes the code's 10 ms enough. `GainsWithoutJump` has the hypothesis that no
  client passes a zero kp to `set_gain`. Without gains the command settles at the
  arm within two passes (`SettledInv`); from the write of a gain until a motor gets
  it, the command is bounded by where in its pass the thread is (`LimpInv`).
  `NoCircularWait` and `EmergencyFreezes` rest on `LockInv`, which thread keeps which mutex
  from one step to the next. The first is the part of `CallsReturn` that is no
  liveness; the second says of finding 2 that no later call, the destructor
  included, sends the damping either.
* `StopSystemProofs`: `StoppedMeansLimp` is inductive only with `GainsAreKnown` (the
  node's belief and its command agree) and with the fact that the home callback
  stops the node before it moves the arm. `HomesOnce` needs that whoever sets out for
  home is stopped or will not run again (`TripsInv`). `LimpForGood` is the part of
  `EstopEndsLimp` that is no liveness: a node that is stopped and not on its way home
  never does anything else again.
* `ArmTrajectoryProofs`: the trajectory stays in the order of time because each
  update is a prefix of the old one, the point at the current time, and the new
  points; `Leading`, the number of points a loop erases, exists by the least
  element principle (`LeastNat`). `AssertionHolds` follows the four indices of
  `calc_joint_vel`: the trajectory built by the two callers has three points one
  window apart in front, so the windows never shrink to nothing, whatever follows.
  Where a trajectory leads is one lemma, `AfterPoint`: just after the time of a point
  the command is that point, if the next one is later. `NoJump`, `TrajectoryFollowed` and
  `AppendsKeep` each look for the point to apply it to: the first of the new
  trajectory, a waypoint behind those that `override_traj` has erased, and the last
  old point of a time (`LastPointAt`), since equal stamps are let through. When the
  lock refuses a built trajectory follows from `HereOK`: the time a command works with
  is never before the first point of the trajectory, because nobody else has cut it
  since that time was read, unless that point is a position which `set_joint_cmd`
  fixed up to `Near` ticks ahead (`FixedAhead`). `NoOvershoot` has the range as a parameter: every
  position the interpolator holds, and every quotient between two of them, lies in
  any interval that holds those asked for (`RangeOK`, `SegmentBetween`).
* `SpaceMouseMotionProofs`: `RingInv` says which items are still in their slots
  (`InSlots`), that time stamps are in the order of the items (`StampsInOrder`), and
  how far the writer may have come while a window is copied (`Copying`). Until the
  writer has counted `buffer_size` items past the oldest of the window, the next
  slot is none of the window's. When it has, the item that `put` waits for lies
  behind the copy's `FirstAfter`, so its stamp plus the budget is at least
  `until`; the wait then outlasts the copy. At a difference of exactly the
  budget `put` goes on and `get` does not yet throw: `late` counts that instant as
  too late. `UsesRing` shows that the two processes implement `RingSpec`, which
  carries the theorem over. `MotionsOnce` and `NoneLost` add `MotionInv` on top of it. The
  sequence numbers of the samples never fall, and a deflection is the first of its own
  (`SentInOrder`); even a torn copy is made of samples that were put (`ItemsStored`,
  `ItemsGot`). As long as no torn copy was used, `last` is the number of a sample that
  was counted (`LastSeen`), no deflection that was applied is ahead of it
  (`MovesBehind`), and the newest sample, taken first, is not behind it and is fresh
  (`LatestSeen`). Without these an old deflection in a later window could not be told
  from a new one. `SampleKeysAssumption` says that motion and rest are two arrays.
* `CanOwnerLockProofs`: every process between `acquire` and the unlock is the one that
  has the lock, and a process that is refused does not touch the name.

The invariants of the proofs were checked with TLC on the small instances first.

Only model-checked: liveness (`StopEnds`, `HandoverEnds`, `LostViewEndsControl`,
`EstopEndsLimp`, `HomeIsServed`, `GainTakesEffect`, `DampingTakesEffect`, `CallsReturn`,
`OverCurrentCaught`), which rests on fairness and so on `ENABLED`. Every invariant and
every action property of a passing run is a theorem; the four expected violations are
counterexamples and need none.

## 6. Abstractions to know about

* `WbcControl` starts after MCF was released, as the launch script does. Alignment
  and blend durations that only shape joint targets are zero; the two stand-up
  times are one. A press is one that passed the debouncing. An L2 refused
  because the arm is not ready does nothing and is left out. `LegsNeverDropped` is stated for
  internal stand-up; see the hazard on `pose_test`.
* What the legs do after the process ended depends on the motors' firmware, of
  which nothing is claimed.
* `Arx5Controller` covers one caller, as the arm node is. The sanity check on
  commanded data, gripper, torque clipping, `recv_once`, `send_recv_once` and
  calibration are left out.
* `ArmTrajectory` has the linear method, which every controller configuration
  selects, one number for the joint vector, and positions in hundredths with
  division rounding down; velocities and torques of a point, which do not act on the
  position in this method, are left out. One thread calls.
* `SharedMemoryRingBuffer`: the copy of one array over the whole window is one step,
  and so is the write of one array of an item; the counter is atomic, as
  `use_atomic_counter` makes it. Time is a number of whole ticks; a slot never
  written has the stamp "one budget ago", which passes the wait as minus infinity does.
* `SpaceMouseMotion` leaves the buttons to `SpaceMouseArm` and the idle sleep of the
  reader process out, which only slows it. Its two arrays stand for the motion and
  for all the rest of a sample.
* `SpaceMouseArm` takes the controller at its word: what the SDK does with a
  command is the subject of `Arx5Controller`. A second Ctrl-C during the final
  homing ends in the SDK's destructor, which damps as well.
* The topics are reliable and each holds the one message that can matter; DDS
  discovery (a message sent before the nodes know each other) is left out.

## 7. Plan

Modelled so far: the leg controller and the abstract stop protocol, the SDK's
threads, the arm node and its composition with the protocol, the trajectory
commands, the SpaceMouse's path through shared memory, the CAN lock.

Proofs still worth doing: the remaining safety parts of the liveness properties, as
`LimpForGood` is of `EstopEndsLimp`: that a stop only comes closer to its end, and that a
request in a topic stays there until it is served.

Worth modelling if they come into use: the shared-memory queue against a bounded
FIFO, and the ZeroMQ server's idle timeout.

## 8. Not modelled

* Observation assembly, policy inference, kinematics, limits, decoders, velocity
  estimation, height-scan geometry: stateless numerics on floats.
* `wbc_node.py`, `realtime_traj.py`, `run_teleop.py`: superseded by the leg12 node.
* Shell scripts (environment, CAN, MCF); motion capture; third-party code.
* The shared-memory queue: no program creates one. The arm observation cache and
  the height scan: vectors for the policy's observation; without their numbers a
  model could only repeat their age tests. What the cache decides for control, the
  readiness of the arm, may fail at any start in `WbcControl`.
* The ZeroMQ server and client: an optional interface that neither deployed program
  starts.
* The repository holds about 380,000 lines of C and C++, nearly all of it CycloneDDS,
  the Unitree SDK and their generated messages. The control code of this project
  is some thousand lines of C++ and the Python nodes; the models map that part,
  a small share of the whole.
