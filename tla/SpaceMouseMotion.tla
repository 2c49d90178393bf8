--------------------------- MODULE SpaceMouseMotion ---------------------------
(***************************************************************************)
(* How a deflection of the SpaceMouse reaches the arm's target: the        *)
(* process of real-wbc/modules/spacemouse_shared_memory.py puts samples    *)
(* into the ring buffer, the timer of spacemouse_arm_node.py gets the      *)
(* newest one and then the last get_max_k, and picks a motion from them.   *)
(*                                                                         *)
(* Samples have two keys in the ring buffer, in the order of the dict: the *)
(* motion itself, and the rest (time stamps and sequence number).  Buttons *)
(* are left to SpaceMouseArm, which starts from what is selected here.     *)
(***************************************************************************)

EXTENDS SharedMemoryRingBuffer, Sequences

CONSTANTS
    sm_watchdog_sec, \* in ticks
    MaxEvents        \* bound: motion events of the device

\* The motion and the rest.
ASSUME SampleKeysAssumption == {1, 2} \subseteq Keys
ASSUME WatchdogAssumption == sm_watchdog_sec \in Int

VARIABLES
    sent,  \* the samples put or being put; item n is sent[n + 1]
    arm,   \* the timer callback: [pc, now, latest]
    last,  \* last_spacemouse_motion_sequence
    armed, \* spacemouse_motion_armed
    moves, \* history: [motion, fresh] for every motion applied to the target
    torn   \* history: a copy was used that ended too late to be whole

motionVars == << sent, arm, last, armed, moves, torn >>
vars == << ringVars, motionVars >>

\* motion is the number of the event the motion comes from, 0 a motion within
\* the dead zone or none; moved is motion_timestamp, None if there was no event.
None == -1
Rest == [moved : Int, received : Nat, sequence : Nat]
Sample == [motion : Nat, rest : Rest]

NoSample == [motion |-> 0, rest |-> [moved |-> None, received |-> 0, sequence |-> 0]]
Idle == [pc |-> "idle", now |-> 0, latest |-> NoSample]

\* start() waits for the first sample, put before any event is polled.
Init ==
    /\ RingInit
    /\ sent = << >>
    /\ arm = Idle
    /\ last = None
    /\ armed = FALSE
    /\ moves = << >>
    /\ torn = FALSE

-----------------------------------------------------------------------------
(* Spacemouse.run: one put per event, and one that repeats no motion when   *)
(* there is none.  The sleep after that only makes the process slower.      *)

Sequence == IF sent = << >> THEN 0 ELSE sent[Len(sent)].rest.sequence

Put(sample) ==
    /\ PutBegin
    /\ sent' = Append(sent, sample)
    /\ UNCHANGED << arm, last, armed, moves, torn >>

\* Nothing to poll, a button, or the sample before the loop.
PollNoMotion ==
    Put([motion |-> 0,
         rest |-> [moved |-> None, received |-> clock, sequence |-> Sequence]])

\* A motion event, which may lie within the dead zone.
PollMotion ==
    /\ sent # << >> /\ Sequence < MaxEvents
    /\ \E deflected \in BOOLEAN :
          Put([motion |-> IF deflected THEN Sequence + 1 ELSE 0,
               rest |-> [moved |-> clock, received |-> clock, sequence |-> Sequence + 1]])

Process ==
    \/ PollNoMotion \/ PollMotion
    \/ (PutKey \/ PutStamp \/ PutCount \/ WriterEnds) /\ UNCHANGED motionVars

-----------------------------------------------------------------------------
(* timer_callback, as far as motions go. *)

\* The j-th sample of a copy: each key is that of the item it was copied from.
Got(j) == [motion |-> sent[reader.got[1][j] + 1].motion,
           rest |-> sent[reader.got[2][j] + 1].rest]

\* _read_spacemouse_input: without a living process nothing is read.
TickBegin ==
    /\ arm.pc = "idle" /\ writer.pc # "gone"
    /\ GetBegin(1)
    /\ arm' = [Idle EXCEPT !.pc = "latest", !.now = clock]
    /\ UNCHANGED << sent, last, armed, moves, torn >>

\* For the history: was the event polled at most sm_watchdog_sec ago?
Move(s) ==
    [motion |-> s.motion,
     fresh |-> \A n \in DOMAIN sent :
                  sent[n].motion = s.motion => arm.now - sent[n].rest.moved <= sm_watchdog_sec]

\* _should_apply_motion_command: only a sequence number not seen before counts,
\* and nothing until one sample at rest was seen.
Apply(s) ==
    /\ last' = s.rest.sequence
    /\ armed' = (armed \/ s.motion = 0)
    /\ moves' = IF armed /\ s.motion # 0 /\ last \notin {None, s.rest.sequence}
                THEN Append(moves, Move(s))
                ELSE moves

\* The reader took too long: the exception leaves the callback and ends the node.
TickFails ==
    /\ arm.pc = "latest" /\ reader.pc = "timeout"
    /\ GetResult
    /\ arm' = [Idle EXCEPT !.pc = "gone"]
    /\ UNCHANGED << sent, last, armed, moves, torn >>

\* A sample older than the watchdog: no input in this tick.
TickStale ==
    /\ arm.pc = "latest" /\ reader.pc = "returned"
    /\ arm.now - Got(1).rest.received > sm_watchdog_sec
    /\ GetResult
    /\ arm' = Idle
    /\ torn' = (torn \/ reader.late)
    /\ UNCHANGED << sent, last, armed, moves >>

TickLatest ==
    /\ arm.pc = "latest" /\ reader.pc = "returned"
    /\ arm.now - Got(1).rest.received <= sm_watchdog_sec
    /\ GetResult
    /\ arm' = [arm EXCEPT !.pc = "recent", !.latest = Got(1)]
    /\ torn' = (torn \/ reader.late)
    /\ UNCHANGED << sent, last, armed, moves >>

\* The size of the window; with a single item the sample just taken is all.
WindowSize == IF counter < get_max_k THEN counter ELSE get_max_k

TickOnlyOne ==
    /\ arm.pc = "recent" /\ WindowSize = 1
    /\ Apply(arm.latest)
    /\ arm' = Idle
    /\ UNCHANGED << ringVars, sent, torn >>

TickGetLastK ==
    /\ arm.pc = "recent" /\ WindowSize > 1
    /\ GetBegin(WindowSize)
    /\ arm' = [arm EXCEPT !.pc = "select"]
    /\ UNCHANGED << sent, last, armed, moves, torn >>

-----------------------------------------------------------------------------
(* _select_spacemouse_motion_sample *)

Candidates_AnyAge ==
    {j \in 1 .. reader.k :
        LET s == Got(j)
        IN  s.rest.sequence > last /\ s.rest.moved # None /\ s.motion # 0}

Candidates_OnlyNewest ==
    {j \in {reader.k} :
        LET s == Got(j)
        IN  /\ s.rest.sequence > last /\ s.rest.moved # None /\ s.motion # 0
            /\ arm.now - s.rest.moved <= sm_watchdog_sec}

\* Deflections with a sequence number not used yet and not too old.
Candidates ==
    {j \in 1 .. reader.k :
        LET s == Got(j)
        IN  /\ s.rest.sequence > last /\ s.rest.moved # None /\ s.motion # 0
            /\ arm.now - s.rest.moved <= sm_watchdog_sec}

\* The newest candidate; none, or a copy that took too long: the sample of
\* before.
TickSelect ==
    /\ arm.pc = "select" /\ reader.pc \in {"returned", "timeout"}
    /\ IF reader.pc = "timeout" \/ Candidates = {}
       THEN Apply(arm.latest)
       ELSE Apply(Got(CHOOSE j \in Candidates : \A i \in Candidates : i <= j))
    /\ torn' = (torn \/ (reader.pc = "returned" /\ reader.late))
    /\ GetResult
    /\ arm' = Idle
    /\ UNCHANGED sent

ArmNode ==
    \/ TickBegin \/ TickFails \/ TickStale \/ TickLatest \/ TickOnlyOne
    \/ TickGetLastK \/ TickSelect
    \/ (GetCount \/ GetKey \/ GetEnd) /\ UNCHANGED motionVars

Next == Process \/ ArmNode \/ (Tick /\ UNCHANGED motionVars)

Spec == Init /\ [][Next]_vars

-----------------------------------------------------------------------------
TypeOK ==
    /\ RingTypeOK
    /\ sent \in Seq(Sample) /\ Len(sent) \in {counter, counter + 1}
    /\ arm.pc \in {"idle", "latest", "recent", "select", "gone"}
    /\ arm.latest \in Sample /\ arm.now \in Nat
    /\ last \in Int /\ armed \in BOOLEAN /\ torn \in BOOLEAN
    /\ moves \in Seq([motion : Nat, fresh : BOOLEAN])

(* No deflection moves the target twice, an older one never after a newer   *)
(* one, and none that was polled more than sm_watchdog_sec before the tick; *)
(* as long as no copy was used that may not be whole.                       *)
EachMotionOnce ==
    ~torn =>
        /\ \A i, j \in DOMAIN moves : i < j => moves[i].motion < moves[j].motion
        /\ \A i \in DOMAIN moves : moves[i].fresh

(* A deflection is passed over (its sequence number falls behind last) only *)
(* for a newer one that is applied in its place, because it is too old, or  *)
(* because get_max_k newer samples pushed it out of the window; the tick    *)
(* may also have had no window, or be waiting for the stick to rest.        *)
NoMotionLost ==
    [][arm.pc = "select" /\ reader.pc = "returned" /\ ~torn' /\ armed /\ last # None =>
          \A n \in DOMAIN sent :
              last < sent[n].motion /\ sent[n].motion <= last' =>
                  \/ moves' # moves
                  \/ arm.now - sent[n].rest.moved > sm_watchdog_sec
                  \/ n - 1 < reader.count - reader.k]_vars
=============================================================================
