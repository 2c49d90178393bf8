------------------------ MODULE SharedMemoryRingBuffer ------------------------
(***************************************************************************)
(* The lock-free ring buffer between the SpaceMouse process and the arm    *)
(* node, real-wbc/modules/shared_memory/shared_memory_ring_buffer.py: one  *)
(* process puts, another gets.  An item is a dict of arrays; every array   *)
(* (a key) has buffer_size slots of its own, and both sides copy key by    *)
(* key.  Only time keeps them apart: a put first waits until the item that *)
(* lies get_max_k - 1 slots ahead is get_time_budget old, and a reader     *)
(* that took longer than get_time_budget throws its copy away.             *)
(*                                                                         *)
(* Items are numbered by the count at which they are put; a slot holds the *)
(* number of the item whose bytes it has.  Time is a clock of whole ticks  *)
(* that stands still or runs between any two steps.                        *)
(*                                                                         *)
(* Operators named X_Variant are plausible wrong versions of X, used only  *)
(* to test the properties.                                                 *)
(***************************************************************************)

EXTENDS Integers

CONSTANTS
    get_max_k,        \* most items one call may get
    Spare,            \* slots on top: put_desired_frequency * budget * safety_margin
    get_time_budget,  \* in ticks
    NumKeys,          \* arrays in an item
    MaxPuts, MaxTime  \* bounds of the exploration

ASSUME MaxKAssumption == get_max_k \in Nat \ {0}
ASSUME SpareAssumption == Spare \in Nat \ {0}
ASSUME BudgetAssumption == get_time_budget \in Nat \ {0}
ASSUME KeysAssumption == NumKeys \in Nat \ {0}

buffer_size == Spare + get_max_k

VARIABLES
    clock,      \* time.monotonic()
    slots,      \* shared_arrays: per slot and key, the item last written there
    timestamps, \* timestamp_array
    counter,    \* items put so far
    writer,     \* [pc, done]: the put under way, and its keys written
    reader      \* the get or get_last_k under way

ringVars == << clock, slots, timestamps, counter, writer, reader >>

NoItem == -1
Indices == 0 .. buffer_size - 1
Keys == 1 .. NumKeys

\* k items are asked for; start is the time before the counter is read, count
\* what it said, done the keys copied and got the copies.  until and late are
\* history: the time before which no slot of the copy is written again, and
\* whether the copy was finished only then.
NoGet == [pc |-> "out", k |-> 0, start |-> 0, count |-> 0, done |-> 0,
          got |-> << >>, until |-> 0, late |-> FALSE]

\* Never written stands for a time stamp of minus infinity.
NeverWritten == -get_time_budget

RingInit ==
    /\ clock = 0
    /\ slots = [i \in Indices |-> [key \in Keys |-> NoItem]]
    /\ timestamps = [i \in Indices |-> NeverWritten]
    /\ counter = 0
    /\ writer = [pc |-> "out", done |-> 0]
    /\ reader = NoGet

Tick ==
    /\ clock < MaxTime
    /\ clock' = clock + 1
    /\ UNCHANGED << slots, timestamps, counter, writer, reader >>

-----------------------------------------------------------------------------
(* put(data, wait=True), the only form in use. *)

next_idx == counter % buffer_size

timestamp_lookahead_idx_Behind == next_idx

timestamp_lookahead_idx == (next_idx + get_max_k - 1) % buffer_size

PutBegin ==
    /\ writer.pc = "out" /\ counter < MaxPuts
    /\ writer' = [pc |-> "copying", done |-> 0]
    /\ UNCHANGED << clock, slots, timestamps, counter, reader >>

\* The sleep ends when the item ahead is old enough; only the writer changes
\* time stamps, so the wait stays over.
PutKey ==
    /\ writer.pc = "copying" /\ writer.done < NumKeys
    /\ clock - timestamps[timestamp_lookahead_idx] >= get_time_budget
    /\ slots' = [slots EXCEPT ![next_idx][writer.done + 1] = counter]
    /\ writer' = [writer EXCEPT !.done = @ + 1]
    /\ UNCHANGED << clock, timestamps, counter, reader >>

PutStamp ==
    /\ writer.pc = "copying" /\ writer.done = NumKeys
    /\ timestamps' = [timestamps EXCEPT ![next_idx] = clock]
    /\ writer' = [writer EXCEPT !.pc = "stamped"]
    /\ UNCHANGED << clock, slots, counter, reader >>

PutCount_PerKey ==
    /\ writer.pc = "stamped"
    /\ counter' = counter + NumKeys
    /\ writer' = [pc |-> "out", done |-> 0]
    /\ UNCHANGED << clock, slots, timestamps, reader >>

PutCount ==
    /\ writer.pc = "stamped"
    /\ counter' = counter + 1
    /\ writer' = [pc |-> "out", done |-> 0]
    /\ UNCHANGED << clock, slots, timestamps, reader >>

\* The writing process is stopped or killed, in the middle of a put or not.
WriterEnds ==
    /\ writer.pc # "gone"
    /\ writer' = [writer EXCEPT !.pc = "gone"]
    /\ UNCHANGED << clock, slots, timestamps, counter, reader >>

-----------------------------------------------------------------------------
(* get() is k = 1, get_last_k(k) any k up to get_max_k.  Callers ask for no *)
(* more items than were put, which both assertions of the code rest on.    *)

GetBegin(k) ==
    /\ reader.pc = "out"
    /\ k \in 1 .. get_max_k /\ k <= counter
    /\ reader' = [NoGet EXCEPT
                     !.pc = "counting", !.k = k, !.start = clock,
                     !.got = [key \in Keys |-> [j \in 1 .. k |-> NoItem]]]
    /\ UNCHANGED << clock, slots, timestamps, counter, writer >>

\* The newest slot is written again only get_max_k - 1 puts after the oldest
\* that is spared: an item put after the count was read is what the writer then
\* waits for, unless k leaves less than two items in between.
WholeUntil(k, start, curr_idx) ==
    get_time_budget + (IF k + 2 <= get_max_k THEN start ELSE timestamps[curr_idx])

GetCount ==
    /\ reader.pc = "counting"
    /\ reader' = [reader EXCEPT
                     !.pc = "copying", !.count = counter,
                     !.until = WholeUntil(reader.k, reader.start,
                                          (counter - 1) % buffer_size)]
    /\ UNCHANGED << clock, slots, timestamps, counter, writer >>

\* The slot of the j-th of the k newest items: up to curr_idx, and what is
\* missing wraps around to the end of the array.
SlotOf(curr_idx, k, j) ==
    LET first == curr_idx - k + j
    IN  IF first >= 0 THEN first ELSE buffer_size + first

GetKey ==
    /\ reader.pc = "copying" /\ reader.done < NumKeys
    /\ LET key == reader.done + 1
           curr_idx == (reader.count - 1) % buffer_size
       IN  reader' = [reader EXCEPT
                         !.done = key,
                         !.got[key] = [j \in 1 .. reader.k |->
                                          slots[SlotOf(curr_idx, reader.k, j)][key]]]
    /\ UNCHANGED << clock, slots, timestamps, counter, writer >>

\* Too late is an exception, noticed only after copying.
GetEnd ==
    /\ reader.pc = "copying" /\ reader.done = NumKeys
    /\ reader' = [reader EXCEPT
                     !.pc = IF clock - reader.start > get_time_budget
                            THEN "timeout" ELSE "returned",
                     !.late = clock >= reader.until,
                     !.start = 0, !.until = 0]
    /\ UNCHANGED << clock, slots, timestamps, counter, writer >>

GetResult ==
    /\ reader.pc \in {"timeout", "returned"}
    /\ reader' = NoGet
    /\ UNCHANGED << clock, slots, timestamps, counter, writer >>

RingNext ==
    \/ Tick
    \/ PutBegin \/ PutKey \/ PutStamp \/ PutCount \/ WriterEnds
    \/ \E k \in 1 .. get_max_k : GetBegin(k)
    \/ GetCount \/ GetKey \/ GetEnd \/ GetResult

RingSpec == RingInit /\ [][RingNext]_ringVars

-----------------------------------------------------------------------------
RingTypeOK ==
    /\ clock \in Nat
    /\ slots \in [Indices -> [Keys -> Int]]
    /\ timestamps \in [Indices -> Int]
    /\ counter \in Nat
    /\ writer \in [pc : {"out", "copying", "stamped", "gone"}, done : 0 .. NumKeys]
    /\ reader.pc \in {"out", "counting", "copying", "timeout", "returned"}
    /\ reader.pc # "out" => /\ reader.k \in 1 .. get_max_k
                            /\ reader.got \in [Keys -> [1 .. reader.k -> Int]]

(* What get and get_last_k return is the last k items in order, every key   *)
(* of the same item, if the copy is done before reader.until: for a window  *)
(* of at most get_max_k - 2 items that is all that the reader's own check   *)
(* lets through (but for the last instant of it); for a wider one the       *)
(* newest item has to be younger than get_time_budget still when the copy   *)
(* ends.  A put, however fast or slow, and a writer killed in the middle of *)
(* one never show.                                                          *)
CopiesWhole ==
    reader.pc = "returned" /\ ~reader.late =>
        \A key \in Keys, j \in 1 .. reader.k :
            reader.got[key][j] = reader.count - reader.k + j - 1
=============================================================================
