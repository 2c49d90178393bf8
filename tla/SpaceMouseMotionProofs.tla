------------------------ MODULE SpaceMouseMotionProofs ------------------------
(***************************************************************************)
(* What get and get_last_k return is whole, for every size of the buffer   *)
(* and of the window, every time budget and every number of arrays; and    *)
(* the SpaceMouse process and the arm node use the ring buffer by its own  *)
(* operations only, so it holds for them.  On top of that, the choice of a *)
(* motion: each deflection moves the target at most once, in order and     *)
(* while it is fresh, and none is passed over without a reason.            *)
(*                                                                         *)
(* The argument: until the writer has counted far enough the slots of a    *)
(* window cannot be the next one; and when it has, the item whose age it   *)
(* waits for was put so late that reader.until has passed.                 *)
(***************************************************************************)
EXTENDS SpaceMouseMotion, TLAPS, WellFoundedInduction, NaturalsInduction

-----------------------------------------------------------------------------
(* Slots of items. *)

Slot(i) == i % buffer_size

\* There is more than one slot, and more slots than the widest window.
LEMMA Sizes ==
    /\ buffer_size \in Nat \ {0}
    /\ buffer_size = Spare + get_max_k
    /\ get_max_k \in Nat \ {0} /\ Spare \in Nat \ {0}
    /\ NumKeys \in Nat \ {0} /\ get_time_budget \in Nat \ {0}
BY MaxKAssumption, SpareAssumption, BudgetAssumption, KeysAssumption DEF buffer_size

\* Division with remainder by the size of the buffer.
LEMMA Division ==
    ASSUME NEW i \in Nat
    PROVE  /\ i \div buffer_size \in Nat
           /\ i % buffer_size \in Indices
           /\ i = (buffer_size * (i \div buffer_size)) + (i % buffer_size)
BY Sizes DEF Indices

\* The remainder is what is left of any multiple.
LEMMA Remainder ==
    ASSUME NEW q \in Nat, NEW r \in Indices
    PROVE  ((buffer_size * q) + r) % buffer_size = r
BY Sizes DEF Indices

\* Fewer than buffer_size items apart means another slot.
LEMMA OtherSlot ==
    ASSUME NEW i \in Nat, NEW j \in Nat, i < j, j < i + buffer_size
    PROVE  Slot(i) # Slot(j)
<1> SUFFICES ASSUME i % buffer_size = j % buffer_size PROVE FALSE BY DEF Slot
<1> DEFINE B == buffer_size
           qi == i \div B
           qj == j \div B
<1>1. B \in Nat \ {0} /\ qi \in Nat /\ qj \in Nat /\ i % B \in 0 .. B - 1
  BY Division, Sizes DEF Indices
<1>2. i = (B * qi) + (i % B) /\ j = (B * qj) + (i % B)
  BY Division
<1>3. qj > qi
  <2> SUFFICES ASSUME qj <= qi PROVE FALSE BY <1>1
  <2>1. B * qj <= B * qi BY <1>1
  <2> QED BY <1>1, <1>2, <2>1
<1>4. B * qj >= B * (qi + 1) BY <1>1, <1>3
<1>5. B * (qi + 1) = (B * qi) + B BY <1>1
<1>6. B * qi \in Nat /\ B * qj \in Nat BY <1>1
<1> QED BY <1>1, <1>2, <1>4, <1>5, <1>6

\* The slot comes around after buffer_size items.
LEMMA SameSlot == ASSUME NEW i \in Nat PROVE Slot(i + buffer_size) = Slot(i)
<1> DEFINE B == buffer_size
           q == i \div B
<1>1. B \in Nat \ {0} /\ q \in Nat /\ i % B \in Indices /\ i = (B * q) + (i % B)
  BY Division, Sizes
<1>2. i + B = (B * (q + 1)) + (i % B) BY <1>1 DEF Indices
<1>3. ((B * (q + 1)) + (i % B)) % B = i % B
  <2>1. q + 1 \in Nat BY <1>1
  <2> HIDE DEF q
  <2> QED BY <1>1, <2>1, Remainder
<1> QED BY <1>2, <1>3 DEF Slot

\* Going ahead from a slot is going ahead from its item.
LEMMA AheadSlot ==
    ASSUME NEW i \in Nat, NEW d \in Nat
    PROVE  (Slot(i) + d) % buffer_size = Slot(i + d)
<1> DEFINE B == buffer_size
           r == i % B
           s == (r + d) % B
<1>1. B \in Nat \ {0} /\ i \div B \in Nat /\ r \in 0 .. B - 1 /\ i = (B * (i \div B)) + r
  BY Division, Sizes DEF Indices
<1>2. r + d \in Nat BY <1>1
<1>3. (r + d) \div B \in Nat /\ s \in Indices /\ r + d = (B * ((r + d) \div B)) + s
  BY <1>2, Division
<1>4. i + d = (B * ((i \div B) + ((r + d) \div B))) + s
  BY <1>1, <1>3 DEF Indices
<1>5. (i \div B) + ((r + d) \div B) \in Nat BY <1>1, <1>3
<1>6. ((B * ((i \div B) + ((r + d) \div B))) + s) % B = s
  <2> HIDE DEF s
  <2> QED BY <1>3, <1>5, Remainder
<1> QED BY <1>4, <1>6 DEF Slot

\* Put looks at the slot of the item get_max_k - 1 ahead.
LEMMA LookaheadSlot ==
    counter \in Nat => timestamp_lookahead_idx = Slot(counter + get_max_k - 1)
<1> SUFFICES ASSUME counter \in Nat PROVE timestamp_lookahead_idx = Slot(counter + get_max_k - 1)
  OBVIOUS
<1>1. Slot(counter) \in Nat BY Division DEF Slot, Indices
<1>2. (Slot(counter) + (get_max_k - 1)) % buffer_size = Slot(counter + (get_max_k - 1))
  BY AheadSlot, Sizes
<1> QED BY <1>1, <1>2, Sizes DEF timestamp_lookahead_idx, next_idx, Slot

\* A copy finds item j of its window in that item's slot.
LEMMA WindowSlot ==
    ASSUME NEW m \in Nat, NEW k \in 1 .. get_max_k, k <= m, NEW j \in 1 .. k
    PROVE  SlotOf((m - 1) % buffer_size, k, j) = Slot(m - k + j - 1)
<1> DEFINE B == buffer_size
           q == (m - 1) \div B
           r == (m - 1) % B
           first == r - k + j
<1>1. m - 1 \in Nat /\ k \in Nat /\ j \in Nat BY Sizes
<1>2. B \in Nat \ {0} /\ q \in Nat /\ r \in 0 .. B - 1 /\ m - 1 = (B * q) + r
  BY <1>1, Division, Sizes DEF Indices
<1>3. k - j \in 0 .. B - 1 BY Sizes
<1>4. m - k + j - 1 = (B * q) + first BY <1>1, <1>2
<1>5. CASE first >= 0
  <2>1. first \in Indices BY <1>1, <1>2, <1>3, <1>5 DEF Indices
  <2> QED BY <1>2, <1>4, <1>5, <2>1, Remainder DEF SlotOf, Slot
<1>6. CASE first < 0
  <2>1. q # 0 BY <1>1, <1>2, <1>4, <1>6
  <2>2. q - 1 \in Nat BY <1>2, <2>1
  <2>3. B + first \in Indices BY <1>1, <1>2, <1>3, <1>6 DEF Indices
  <2>4. m - k + j - 1 = (B * (q - 1)) + (B + first)
    BY <1>1, <1>2, <1>4, <2>2
  <2>5. ((B * (q - 1)) + (B + first)) % B = B + first
    <3> HIDE DEF q, first
    <3> QED BY <2>2, <2>3, Remainder
  <2>6. SlotOf(r, k, j) = B + first BY <1>1, <1>2, <1>6 DEF SlotOf
  <2>7. (m - k + j - 1) % B = B + first
    <3> DEFINE x == m - k + j - 1
               y == (B * (q - 1)) + (B + first)
    <3>1. x = y BY <2>4
    <3>2. y % B = B + first BY <2>5
    <3> HIDE DEF x, y, first, B
    <3> QED BY <3>1, <3>2 DEF x
  <2> QED BY <2>6, <2>7 DEF Slot
<1> QED BY <1>1, <1>2, <1>5, <1>6

-----------------------------------------------------------------------------
(* The invariant of the ring buffer. *)

Types ==
    /\ RingTypeOK
    /\ writer.pc = "out" => writer.done = 0
    /\ writer.pc = "stamped" => writer.done = NumKeys

Get(pc, k, start, count, done, got, until, late) ==
    [pc |-> pc, k |-> k, start |-> start, count |-> count, done |-> done, got |-> got,
     until |-> until, late |-> late]

ReaderTypes ==
    /\ reader = Get(reader.pc, reader.k, reader.start, reader.count, reader.done,
                    reader.got, reader.until, reader.late)
    /\ reader.k \in Nat /\ reader.start \in Nat /\ reader.count \in Nat
    /\ reader.done \in 0 .. NumKeys /\ reader.until \in Int /\ reader.late \in BOOLEAN
    /\ reader.pc = "counting" => reader.k <= counter /\ reader.done = 0
    /\ reader.pc \in {"copying", "timeout", "returned"} =>
          reader.k <= reader.count /\ reader.count <= counter
    /\ reader.start <= clock
    /\ reader.pc = "returned" => reader.done = NumKeys

\* Item i is still in its slot, for the keys the writer has not come to.
InSlots ==
    \A i \in Nat, key \in Keys :
        /\ i < counter
        /\ counter < i + buffer_size \/ (counter = i + buffer_size /\ writer.done < key)
        => slots[Slot(i)][key] = i

\* The item being put, as far as it is written.
PutSoFar ==
    \A key \in Keys : key <= writer.done => slots[Slot(counter)][key] = counter

\* Item i has its own time stamp in its slot.
Stamped(i) ==
    /\ i < counter \/ (i = counter /\ writer.pc = "stamped")
    /\ \/ counter < i + buffer_size
       \/ counter = i + buffer_size /\ writer.pc \in {"out", "copying"}

StampOf(i) == timestamps[Slot(i)]

StampsInOrder ==
    \A i \in Nat : Stamped(i) =>
        /\ StampOf(i) <= clock
        /\ \A j \in Nat : Stamped(j) /\ i <= j => StampOf(i) <= StampOf(j)

\* From this item on, every item was stamped late enough for the window.
FirstAfter == IF reader.k + 2 <= get_max_k THEN reader.count + 1 ELSE reader.count - 1

Oldest == reader.count - reader.k

\* While the window is copied: the items put behind it, how far the writer may
\* have come, and what was copied.
Copying ==
    reader.pc = "copying" =>
        /\ reader.until <= clock + get_time_budget
        /\ \A i \in Nat : Stamped(i) /\ i >= FirstAfter =>
              reader.until <= StampOf(i) + get_time_budget
        /\ clock < reader.until =>
              /\ \/ counter < Oldest + buffer_size
                 \/ counter = Oldest + buffer_size /\ writer.done = 0
              /\ \A key \in Keys, j \in 1 .. reader.k :
                    key <= reader.done => reader.got[key][j] = Oldest + j - 1

RingInv ==
    /\ Types /\ ReaderTypes
    /\ InSlots /\ PutSoFar /\ StampsInOrder
    /\ Copying /\ CopiesWhole

-----------------------------------------------------------------------------
(* Every step keeps it. *)

Writes == PutBegin \/ PutKey \/ PutStamp \/ PutCount \/ WriterEnds
Reads == (\E k \in 1 .. get_max_k : GetBegin(k)) \/ GetCount \/ GetKey \/ GetEnd \/ GetResult

\* What RingInv says that the proofs below use.
LEMMA RingTypes ==
    RingInv =>
        /\ clock \in Nat /\ counter \in Nat
        /\ slots \in [Indices -> [Keys -> Int]]
        /\ writer \in [pc : {"out", "copying", "stamped", "gone"}, done : 0 .. NumKeys]
        /\ reader.pc \in {"out", "counting", "copying", "timeout", "returned"}
        /\ reader.pc # "out" => /\ reader.k \in 1 .. get_max_k
                                /\ reader.got \in [Keys -> [1 .. reader.k -> Int]]
        /\ reader.pc \in {"copying", "timeout", "returned"} =>
              reader.k <= reader.count /\ reader.count <= counter
        /\ reader.count \in Nat /\ reader.done \in 0 .. NumKeys
        /\ reader.pc = "returned" => reader.done = NumKeys
BY DEF RingInv, Types, RingTypeOK, ReaderTypes

\* Nothing is stored, asked for or stamped at the start.
LEMMA RingInitInv == RingInit => RingInv
<1> SUFFICES ASSUME RingInit PROVE RingInv OBVIOUS
<1> USE Sizes DEF RingInit, NoGet
<1>1. Types BY DEF Types, RingTypeOK, NoItem, NeverWritten
<1>2. ReaderTypes BY DEF ReaderTypes, Get
<1>3. InSlots /\ PutSoFar BY DEF InSlots, PutSoFar, Keys
<1>4. StampsInOrder BY DEF StampsInOrder, Stamped
<1>5. Copying /\ CopiesWhole BY DEF Copying, CopiesWhole
<1> QED BY <1>1, <1>2, <1>3, <1>4, <1>5 DEF RingInv

\* The next slot exists.
LEMMA NextSlot == counter \in Nat => next_idx = Slot(counter) /\ Slot(counter) \in Indices
BY Division DEF next_idx, Slot

\* What the types say of the reader alone.
ReaderShape ==
    /\ reader.pc \in {"out", "counting", "copying", "timeout", "returned"}
    /\ reader.pc # "out" => /\ reader.k \in 1 .. get_max_k
                            /\ reader.got \in [Keys -> [1 .. reader.k -> Int]]

\* The writer's side of the types.
LEMMA WriteTypes == RingInv /\ Writes => Types' /\ ReaderTypes'
<1> SUFFICES ASSUME RingInv, Writes PROVE Types' /\ ReaderTypes' OBVIOUS
<1>1. Types /\ ReaderTypes /\ ReaderShape /\ counter \in Nat /\ clock \in Nat
  BY DEF RingInv, Types, RingTypeOK, ReaderShape
<1>2. UNCHANGED << clock, reader >> /\ counter' \in {counter, counter + 1}
  BY DEF Writes, PutBegin, PutKey, PutStamp, PutCount, WriterEnds
<1>3. ReaderTypes' /\ ReaderShape'
  BY <1>1, <1>2, Sizes DEF ReaderTypes, ReaderShape
<1>4. /\ clock' \in Nat /\ counter' \in Nat
      /\ slots' \in [Indices -> [Keys -> Int]] /\ timestamps' \in [Indices -> Int]
  <2> USE NextSlot, Sizes DEF Types, RingTypeOK
  <2>1. CASE PutKey
    <3>1. writer.done + 1 \in Keys BY <1>1, <2>1 DEF PutKey, Keys
    <3>2. /\ UNCHANGED << clock, timestamps, counter >>
          /\ slots' = [slots EXCEPT ![Slot(counter)][writer.done + 1] = counter]
      BY <1>1, <2>1 DEF PutKey
    <3>3. Slot(counter) \in Indices BY <1>1
    <3>4. slots \in [Indices -> [Keys -> Int]] /\ timestamps \in [Indices -> Int] BY <1>1
    <3> HIDE DEF Types, RingTypeOK
    <3> DEFINE item == [slots[Slot(counter)] EXCEPT ![writer.done + 1] = counter]
    <3>5. item \in [Keys -> Int] BY <1>1, <3>1, <3>3, <3>4
    <3>6. slots' = [slots EXCEPT ![Slot(counter)] = item] BY <3>2
    <3> HIDE DEF item
    <3>7. slots' \in [Indices -> [Keys -> Int]] BY <3>3, <3>4, <3>5, <3>6
    <3> QED BY <1>1, <3>2, <3>4, <3>7
  <2>2. CASE PutStamp BY <1>1, <2>2 DEF PutStamp
  <2>3. CASE PutBegin \/ PutCount \/ WriterEnds
    BY <1>1, <2>3 DEF PutBegin, PutCount, WriterEnds
  <2> QED BY <2>1, <2>2, <2>3 DEF Writes
<1>5. /\ writer' \in [pc : {"out", "copying", "stamped", "gone"}, done : 0 .. NumKeys]
      /\ writer'.pc = "out" => writer'.done = 0
      /\ writer'.pc = "stamped" => writer'.done = NumKeys
  BY <1>1, Sizes
  DEF Types, RingTypeOK, Writes, PutBegin, PutKey, PutStamp, PutCount, WriterEnds
<1> QED BY <1>3, <1>4, <1>5 DEF Types, RingTypeOK, ReaderShape

\* The reader's side.
LEMMA ReadTypes == RingInv /\ Reads => Types' /\ ReaderTypes'
<1> SUFFICES ASSUME RingInv, Reads PROVE Types' /\ ReaderTypes' OBVIOUS
<1>1. /\ Types /\ ReaderTypes /\ ReaderShape /\ counter \in Nat /\ clock \in Nat
      /\ slots \in [Indices -> [Keys -> Int]] /\ timestamps \in [Indices -> Int]
  BY DEF RingInv, Types, RingTypeOK, ReaderShape
<1>2. UNCHANGED << clock, slots, timestamps, counter, writer >>
  BY DEF Reads, GetBegin, GetCount, GetKey, GetEnd, GetResult
<1>3. ReaderTypes' /\ ReaderShape'
  <2>1. CASE \E k \in 1 .. get_max_k : GetBegin(k)
    <3>1. PICK k \in 1 .. get_max_k : GetBegin(k) BY <2>1
    <3>2. [key \in Keys |-> [j \in 1 .. k |-> NoItem]] \in [Keys -> [1 .. k -> Int]]
      BY DEF NoItem
    <3>3. reader' = Get("counting", k, clock, 0, 0,
                        [key \in Keys |-> [j \in 1 .. k |-> NoItem]], 0, FALSE)
      BY <3>1 DEF GetBegin, NoGet, Get
    <3>4. k \in Nat /\ k <= counter BY <3>1 DEF GetBegin
    <3> QED BY <1>1, <1>2, <3>2, <3>3, <3>4, Sizes DEF Get, ReaderTypes, ReaderShape
  <2>2. CASE GetCount
    <3>1. WholeUntil(reader.k, reader.start, (counter - 1) % buffer_size) \in Int
      <4>1. counter - 1 \in Nat BY <1>1, <2>2, Sizes DEF GetCount, ReaderTypes, ReaderShape
      <4>2. (counter - 1) % buffer_size \in Indices BY <4>1, Division
      <4> QED BY <1>1, <4>2, Sizes DEF WholeUntil, ReaderTypes
    <3> DEFINE until == WholeUntil(reader.k, reader.start, (counter - 1) % buffer_size)
    <3>2. reader' = [reader EXCEPT !.pc = "copying", !.count = counter, !.until = until]
      BY <2>2 DEF GetCount
    <3> HIDE DEF until
    <3>3. reader' = Get("copying", reader.k, reader.start, counter, reader.done,
                        reader.got, until, reader.late)
      BY <1>1, <3>2 DEF ReaderTypes, Get
    <3>4. reader.pc = "counting" BY <2>2 DEF GetCount
    <3>5. until \in Int BY <3>1 DEF until
    <3> QED BY <1>1, <1>2, <3>3, <3>4, <3>5, Sizes DEF Get, ReaderTypes, ReaderShape
  <2>3. CASE GetKey
    <3> DEFINE curr == (reader.count - 1) % buffer_size
               copy == [j \in 1 .. reader.k |->
                           slots[SlotOf(curr, reader.k, j)][reader.done + 1]]
    <3>0. reader.pc = "copying" /\ reader.done < NumKeys BY <2>3 DEF GetKey
    <3>1. reader.done + 1 \in Keys /\ reader.k \in 1 .. get_max_k /\ reader.k <= reader.count
      <4>1. reader.done \in 0 .. NumKeys BY <1>1 DEF ReaderTypes
      <4>2. reader.done + 1 \in Keys BY <3>0, <4>1, Sizes DEF Keys
      <4> QED BY <3>0, <4>2, RingTypes
    <3>2. ASSUME NEW j \in 1 .. reader.k
          PROVE  slots[SlotOf(curr, reader.k, j)][reader.done + 1] \in Int
      <4>1. reader.count \in Nat BY <1>1 DEF ReaderTypes
      <4>2. SlotOf(curr, reader.k, j) = Slot(reader.count - reader.k + j - 1)
        BY <3>1, <4>1, WindowSlot
      <4>3. reader.count - reader.k + j - 1 \in Nat BY <3>1, <4>1, Sizes
      <4>4. SlotOf(curr, reader.k, j) \in Indices BY <4>2, <4>3, Division DEF Slot
      <4> QED BY <1>1, <3>1, <4>4
    <3>3. copy \in [1 .. reader.k -> Int] BY <3>2
    <3>4. reader' = [reader EXCEPT !.done = reader.done + 1, !.got[reader.done + 1] = copy]
      BY <2>3 DEF GetKey
    <3> HIDE DEF copy
    <3>5. reader.got \in [Keys -> [1 .. reader.k -> Int]]
      BY <1>1, <2>3 DEF GetKey, ReaderShape
    <3>6. [reader.got EXCEPT ![reader.done + 1] = copy] \in [Keys -> [1 .. reader.k -> Int]]
      BY <3>1, <3>3, <3>5
    <3>7. reader' = Get(reader.pc, reader.k, reader.start, reader.count, reader.done + 1,
                        [reader.got EXCEPT ![reader.done + 1] = copy],
                        reader.until, reader.late)
      BY <1>1, <3>4 DEF ReaderTypes, Get
    <3>8. reader' = Get(reader'.pc, reader'.k, reader'.start, reader'.count, reader'.done,
                        reader'.got, reader'.until, reader'.late)
      BY <3>7 DEF Get
    <3>10. /\ reader'.pc = "copying" /\ reader'.k = reader.k /\ reader'.start = reader.start
           /\ reader'.count = reader.count /\ reader'.done = reader.done + 1
           /\ reader'.got = [reader.got EXCEPT ![reader.done + 1] = copy]
           /\ reader'.until = reader.until /\ reader'.late = reader.late
      BY <3>0, <3>7 DEF Get
    <3>11. ReaderShape' BY <3>1, <3>6, <3>10 DEF ReaderShape
    <3>12. reader.done + 1 \in 0 .. NumKeys BY <3>1, Sizes DEF Keys
    <3>13. ReaderTypes' BY <1>1, <1>2, <3>0, <3>8, <3>10, <3>12 DEF ReaderTypes
    <3> QED BY <3>11, <3>13
  <2>4. CASE GetEnd
    <3> DEFINE pc == IF clock - reader.start > get_time_budget THEN "timeout" ELSE "returned"
               late == clock >= reader.until
    <3>1. reader' = [reader EXCEPT !.pc = pc, !.late = late, !.start = 0, !.until = 0]
      BY <2>4 DEF GetEnd
    <3>4. pc \in {"timeout", "returned"} /\ late \in BOOLEAN OBVIOUS
    <3> HIDE DEF pc, late
    <3>2. reader' = Get(pc, reader.k, 0, reader.count, reader.done, reader.got, 0, late)
      BY <1>1, <3>1 DEF ReaderTypes, Get
    <3>3. reader.pc = "copying" /\ reader.done = NumKeys BY <2>4 DEF GetEnd
    <3> QED BY <1>1, <1>2, <3>2, <3>3, <3>4, Sizes DEF Get, ReaderTypes, ReaderShape
  <2>5. CASE GetResult
    BY <1>1, <2>5, Sizes DEF GetResult, NoGet, Get, ReaderTypes, ReaderShape
  <2> QED BY <2>1, <2>2, <2>3, <2>4, <2>5 DEF Reads
<1> QED BY <1>1, <1>2, <1>3 DEF Types, RingTypeOK, ReaderShape

\* A put changes one slot, the one the oldest item had.
LEMMA WriteSlots == RingInv /\ Writes => InSlots' /\ PutSoFar'
<1> SUFFICES ASSUME RingInv, Writes PROVE InSlots' /\ PutSoFar' OBVIOUS
<1> USE NextSlot, Sizes DEF RingInv, Types, RingTypeOK
<1>1. CASE PutBegin BY <1>1 DEF PutBegin, InSlots, PutSoFar, Keys
<1>2. CASE PutKey
  <2>1. \A i \in Nat : i < counter /\ counter < i + buffer_size => Slot(i) # Slot(counter)
    BY OtherSlot
  <2>2. /\ slots' = [slots EXCEPT ![Slot(counter)][writer.done + 1] = counter]
        /\ writer'.done = writer.done + 1 /\ counter' = counter
        /\ writer.done + 1 \in Keys
    BY <1>2 DEF PutKey, Keys
  <2>3. InSlots'
    <3> HIDE DEF RingInv, Types, RingTypeOK
    <3> SUFFICES ASSUME NEW i \in Nat, NEW key \in Keys, i < counter,
                        counter < i + buffer_size
                          \/ (counter = i + buffer_size /\ writer.done + 1 < key)
                 PROVE  slots'[Slot(i)][key] = i
      BY <2>2 DEF InSlots
    <3>0. counter < i + buffer_size \/ (counter = i + buffer_size /\ writer.done < key)
      <4>1. writer.done \in Nat BY RingTypes
      <4>2. key \in Nat BY DEF Keys
      <4> QED BY <4>1, <4>2
    <3>1. Slot(i) \in Indices /\ slots[Slot(i)][key] = i
      BY <3>0, Division DEF RingInv, InSlots, Slot
    <3>2. counter \in Nat /\ slots \in [Indices -> [Keys -> Int]] /\ writer.done \in Nat
      BY RingTypes
    <3>3. CASE counter < i + buffer_size BY <2>1, <2>2, <3>1, <3>2, <3>3
    <3>4. CASE writer.done + 1 < key BY <2>2, <3>1, <3>2, <3>4
    <3> QED BY <3>3, <3>4
  <2>4. PutSoFar' BY <2>2 DEF PutSoFar, Keys
  <2> QED BY <2>3, <2>4
<1>3. CASE PutStamp BY <1>3 DEF PutStamp, InSlots, PutSoFar, Keys
<1>4. CASE PutCount
  <2>1. PutSoFar' BY <1>4 DEF PutCount, PutSoFar, Keys
  <2>2. InSlots' BY <1>4 DEF PutCount, PutSoFar, InSlots, Keys
  <2> QED BY <2>1, <2>2
<1>5. CASE WriterEnds BY <1>5 DEF WriterEnds, InSlots, PutSoFar, Keys
<1> QED BY <1>1, <1>2, <1>3, <1>4, <1>5 DEF Writes

\* The other steps of a put stamp no item: what has a stamp after them had it
\* before.
LEMMA StampedBefore ==
    ASSUME RingInv, PutBegin \/ PutKey \/ PutCount \/ WriterEnds, NEW i \in Nat, Stamped(i)'
    PROVE  Stamped(i)
<1>1. /\ counter \in Nat /\ buffer_size \in Nat
      /\ writer \in [pc : {"out", "copying", "stamped", "gone"}, done : 0 .. NumKeys]
  BY RingTypes, Sizes
<1>2. CASE PutBegin BY <1>1, <1>2 DEF PutBegin, Stamped
<1>3. CASE PutKey BY <1>1, <1>3 DEF PutKey, Stamped
<1>4. CASE PutCount BY <1>1, <1>4 DEF PutCount, Stamped
<1>5. CASE WriterEnds BY <1>1, <1>5 DEF WriterEnds, Stamped
<1> QED BY <1>2, <1>3, <1>4, <1>5

\* A time stamp is written last and is the latest of all.
LEMMA WriteStamps == RingInv /\ Writes => StampsInOrder'
<1> SUFFICES ASSUME RingInv, Writes PROVE StampsInOrder' OBVIOUS
<1> USE NextSlot, Sizes DEF RingInv, Types, RingTypeOK
<1>1. UNCHANGED clock
  BY DEF Writes, PutBegin, PutKey, PutStamp, PutCount, WriterEnds
<1>2. CASE PutStamp
  <2>1. \A i \in Nat : Stamped(i)' /\ i # counter => Stamped(i) /\ StampOf(i)' = StampOf(i)
    <3> SUFFICES ASSUME NEW i \in Nat, Stamped(i)', i # counter
                 PROVE  Stamped(i) /\ StampOf(i)' = StampOf(i)
      OBVIOUS
    <3>1. i < counter /\ counter < i + buffer_size BY <1>2 DEF PutStamp, Stamped
    <3>2. Slot(i) # Slot(counter) BY <3>1, OtherSlot
    <3>3. Slot(i) \in Indices BY Division DEF Slot
    <3> QED BY <1>2, <3>1, <3>2, <3>3 DEF PutStamp, Stamped, StampOf
  <2>2. \A i \in Nat : i = counter => StampOf(i)' = clock BY <1>2 DEF PutStamp, StampOf
  <2>3. \A i \in Nat : Stamped(i)' => i <= counter BY <1>2 DEF PutStamp, Stamped
  <2> SUFFICES ASSUME NEW i \in Nat, Stamped(i)'
               PROVE  /\ StampOf(i)' <= clock
                      /\ \A j \in Nat : Stamped(j)' /\ i <= j => StampOf(i)' <= StampOf(j)'
    BY <1>1 DEF StampsInOrder
  <2>4. clock \in Nat /\ counter \in Nat OBVIOUS
  <2>5. CASE i = counter
    <3>1. \A j \in Nat : Stamped(j)' /\ i <= j => j = counter BY <2>3, <2>4, <2>5
    <3> QED BY <2>2, <2>4, <2>5, <3>1
  <2>6. CASE i # counter
    <3>1. Stamped(i) /\ StampOf(i)' = StampOf(i) /\ StampOf(i) <= clock
      BY <2>1, <2>6 DEF StampsInOrder
    <3>2. ASSUME NEW j \in Nat, Stamped(j)', i <= j PROVE StampOf(i)' <= StampOf(j)'
      <4>1. CASE j = counter BY <2>2, <3>1, <4>1
      <4>2. CASE j # counter BY <2>1, <3>1, <3>2, <4>2 DEF StampsInOrder
      <4> QED BY <4>1, <4>2
    <3> QED BY <3>1, <3>2
  <2> QED BY <2>5, <2>6
<1>3. CASE PutBegin \/ PutKey \/ PutCount \/ WriterEnds
  <2>1. UNCHANGED timestamps BY <1>3 DEF PutBegin, PutKey, PutCount, WriterEnds
  <2>2. \A i \in Nat : Stamped(i)' => Stamped(i) BY <1>3, StampedBefore
  <2> QED BY <1>1, <2>1, <2>2 DEF StampsInOrder, StampOf
<1> QED BY <1>2, <1>3 DEF Writes

\* The writer does not come to a window that is being copied before its time.
LEMMA WriteCopying == RingInv /\ Writes => Copying'
<1> SUFFICES ASSUME RingInv, Writes, reader.pc = "copying" PROVE Copying'
  BY DEF Writes, PutBegin, PutKey, PutStamp, PutCount, WriterEnds, Copying
<1> DEFINE low == Oldest
<1>1. /\ UNCHANGED << clock, reader >>
      /\ counter \in Nat /\ clock \in Nat /\ writer.done \in 0 .. NumKeys
      /\ timestamps \in [Indices -> Int]
  BY DEF Writes, PutBegin, PutKey, PutStamp, PutCount, WriterEnds, RingInv, Types, RingTypeOK
<1>2. /\ reader.k \in 1 .. get_max_k /\ reader.count \in Nat /\ reader.k <= reader.count
      /\ reader.count <= counter /\ reader.until \in Int
  BY DEF RingInv, Types, RingTypeOK, ReaderTypes
<1>3. /\ reader.until <= clock + get_time_budget
      /\ \A i \in Nat : Stamped(i) /\ i >= FirstAfter =>
            reader.until <= StampOf(i) + get_time_budget
  BY DEF RingInv, Copying
<1>4. low \in Nat /\ low' = low /\ FirstAfter' = FirstAfter /\ FirstAfter \in Nat
  BY <1>1, <1>2, Sizes DEF Oldest, FirstAfter
<1>5. \A i \in Nat : Stamped(i)' /\ i >= FirstAfter =>
         reader.until <= StampOf(i)' + get_time_budget
  <2>1. CASE PutStamp
    <3> SUFFICES ASSUME NEW i \in Nat, Stamped(i)', i >= FirstAfter
                 PROVE  reader.until <= StampOf(i)' + get_time_budget
      OBVIOUS
    <3>1. CASE i = counter
      BY <1>1, <1>3, <2>1, <3>1, NextSlot DEF PutStamp, StampOf
    <3>2. CASE i # counter
      <4>1. i < counter /\ counter < i + buffer_size
        BY <1>1, <2>1, <3>2, Sizes DEF PutStamp, Stamped
      <4>2. Slot(i) # Slot(counter) BY <1>1, <4>1, OtherSlot
      <4>3. Slot(i) \in Indices BY Division DEF Slot
      <4>4. Stamped(i) BY <4>1 DEF Stamped
      <4>5. StampOf(i)' = StampOf(i)
        BY <1>1, <2>1, <4>2, <4>3, NextSlot DEF PutStamp, StampOf
      <4> QED BY <1>3, <4>4, <4>5
    <3> QED BY <3>1, <3>2
  <2>2. CASE PutBegin \/ PutKey \/ PutCount \/ WriterEnds
    <3>1. UNCHANGED timestamps BY <2>2 DEF PutBegin, PutKey, PutCount, WriterEnds
    <3>2. \A i \in Nat : Stamped(i)' => Stamped(i) BY <2>2, StampedBefore
    <3> QED BY <1>3, <3>1, <3>2 DEF StampOf
  <2> QED BY <2>1, <2>2 DEF Writes
<1>6. ASSUME clock < reader.until
      PROVE  \/ counter' < low + buffer_size
             \/ counter' = low + buffer_size /\ writer'.done = 0
  <2>1. \/ counter < low + buffer_size
        \/ counter = low + buffer_size /\ writer.done = 0
    BY <1>6 DEF RingInv, Copying
  <2>2. CASE PutKey
    <3> SUFFICES ASSUME counter = low + buffer_size PROVE FALSE
      BY <1>1, <1>4, <2>1, <2>2, Sizes DEF PutKey
    <3> DEFINE ahead == low + get_max_k - 1
    <3>1. ahead \in Nat /\ ahead >= FirstAfter
      BY <1>2, <1>4, Sizes DEF Oldest, FirstAfter
    <3>2. Stamped(ahead)
      BY <1>1, <1>4, <2>2, <3>1, Sizes DEF PutKey, Stamped
    <3>3. timestamp_lookahead_idx = Slot(ahead)
      <4>1. counter + get_max_k - 1 = ahead + buffer_size BY <1>4, Sizes
      <4>2. Slot(ahead + buffer_size) = Slot(ahead) BY <3>1, SameSlot
      <4> QED BY <1>1, <4>1, <4>2, LookaheadSlot
    <3>4. StampOf(ahead) \in Int BY <1>1, <3>1, Division DEF StampOf, Slot
    <3>5. clock - StampOf(ahead) >= get_time_budget
      BY <2>2, <3>3 DEF PutKey, StampOf
    <3>6. reader.until <= StampOf(ahead) + get_time_budget BY <1>3, <3>1, <3>2
    <3> HIDE DEF ahead
    <3> QED BY <1>1, <1>2, <1>6, <3>4, <3>5, <3>6, Sizes
  <2>3. CASE PutCount
    <3>1. writer.done = NumKeys /\ counter' = counter + 1 /\ writer'.done = 0
      BY <2>3 DEF PutCount, RingInv, Types
    <3> QED BY <1>1, <1>4, <2>1, <3>1, Sizes
  <2>4. CASE PutBegin \/ PutStamp \/ WriterEnds
    <3>1. counter' = counter /\ (writer'.done = 0 \/ writer'.done = writer.done)
      BY <2>4 DEF PutBegin, PutStamp, WriterEnds, RingInv, Types, RingTypeOK
    <3> QED BY <2>1, <3>1
  <2> QED BY <2>2, <2>3, <2>4 DEF Writes
<1>7. clock < reader.until =>
         \A key \in Keys, j \in 1 .. reader.k :
            key <= reader.done => reader.got[key][j] = low + j - 1
  BY DEF RingInv, Copying
<1> QED BY <1>1, <1>3, <1>4, <1>5, <1>6, <1>7 DEF Copying

\* Reading changes nothing the writer has written.
LEMMA ReadRing == RingInv /\ Reads => InSlots' /\ PutSoFar' /\ StampsInOrder'
<1> SUFFICES ASSUME RingInv, Reads PROVE InSlots' /\ PutSoFar' /\ StampsInOrder' OBVIOUS
<1>1. UNCHANGED << clock, slots, timestamps, counter, writer >>
  BY DEF Reads, GetBegin, GetCount, GetKey, GetEnd, GetResult
<1>2. InSlots /\ PutSoFar /\ StampsInOrder BY DEF RingInv
<1> QED BY <1>1, <1>2 DEF InSlots, PutSoFar, StampsInOrder, Stamped, StampOf

\* The oldest time that matters for the window, when the counter is read.
LEMMA CountCopying == RingInv /\ GetCount => Copying'
<1> SUFFICES ASSUME RingInv, GetCount PROVE Copying' OBVIOUS
<1> DEFINE k == reader.k
           until == WholeUntil(k, reader.start, (counter - 1) % buffer_size)
<1>1. /\ UNCHANGED << clock, slots, timestamps, counter, writer >>
      /\ reader.pc = "counting"
      /\ counter \in Nat /\ clock \in Nat /\ timestamps \in [Indices -> Int]
      /\ k \in 1 .. get_max_k /\ k <= counter
      /\ reader.start \in Nat /\ reader.start <= clock /\ reader.done = 0
  BY DEF GetCount, RingInv, Types, RingTypeOK, ReaderTypes
<1>2. reader' = Get("copying", k, reader.start, counter, 0, reader.got, until, reader.late)
  <2> HIDE DEF until
  <2>1. reader' = [reader EXCEPT !.pc = "copying", !.count = counter, !.until = until]
    BY DEF GetCount, until
  <2> QED BY <1>1, <2>1 DEF RingInv, ReaderTypes, Get
<1>3. /\ reader'.pc = "copying" /\ reader'.k = k /\ reader'.count = counter
      /\ reader'.done = 0 /\ reader'.until = until
  BY <1>2 DEF Get
<1>4. Oldest' = counter - k
  BY <1>3 DEF Oldest
<1>5. counter - 1 \in Nat /\ (counter - 1) % buffer_size = Slot(counter - 1)
      /\ Slot(counter - 1) \in Indices
  <2>1. counter - 1 \in Nat BY <1>1, Sizes
  <2> QED BY <2>1, Division DEF Slot
<1>6. Stamped(counter - 1)
  <2>1. counter - 1 < counter /\ counter < counter - 1 + buffer_size
    BY <1>1, Sizes
  <2> QED BY <2>1 DEF Stamped
<1>7. StampOf(counter - 1) \in Int /\ StampOf(counter - 1) <= clock
  BY <1>1, <1>5, <1>6 DEF StampOf, RingInv, StampsInOrder
<1>8. until <= clock + get_time_budget /\ until \in Int
  BY <1>1, <1>5, <1>7, Sizes DEF WholeUntil, StampOf
<1>9. ASSUME NEW i \in Nat, Stamped(i), i >= FirstAfter'
      PROVE  until <= StampOf(i) + get_time_budget
  <2>1. CASE k + 2 <= get_max_k
    <3>1. i >= counter + 1 BY <1>3, <1>9, <2>1 DEF FirstAfter
    <3> QED BY <1>1, <1>9, <3>1 DEF Stamped
  <2>2. CASE ~(k + 2 <= get_max_k)
    <3>1. i >= counter - 1 BY <1>3, <1>9, <2>2 DEF FirstAfter
    <3>2. StampOf(counter - 1) <= StampOf(i)
      BY <1>5, <1>6, <1>9, <3>1 DEF RingInv, StampsInOrder
    <3>3. until = get_time_budget + StampOf(counter - 1)
      BY <1>5, <2>2 DEF WholeUntil, StampOf
    <3>4. StampOf(i) \in Int BY <1>1, Division DEF StampOf, Slot
    <3> HIDE DEF until
    <3> QED BY <1>7, <3>2, <3>3, <3>4, Sizes
  <2> QED BY <2>1, <2>2
<1>10. counter < (counter - k) + buffer_size
  BY <1>1, Sizes
<1>11. \A i \in Nat : Stamped(i)' => Stamped(i) /\ StampOf(i)' = StampOf(i)
  BY <1>1 DEF Stamped, StampOf
<1>12. \A key \in Keys : ~(key <= 0)
  BY DEF Keys
<1> HIDE DEF until, k
<1> QED BY <1>1, <1>3, <1>4, <1>8, <1>9, <1>10, <1>11, <1>12 DEF Copying

\* Copying one key of a window that nothing has come to yet.
LEMMA KeyCopying == RingInv /\ GetKey => Copying'
<1> SUFFICES ASSUME RingInv, GetKey PROVE Copying' OBVIOUS
<1> DEFINE k == reader.k
           key0 == reader.done + 1
           curr == (reader.count - 1) % buffer_size
           copy == [j \in 1 .. k |-> slots[SlotOf(curr, k, j)][key0]]
<1>1. /\ UNCHANGED << clock, slots, timestamps, counter, writer >>
      /\ reader.pc = "copying" /\ reader.done \in Nat /\ key0 \in Keys
      /\ counter \in Nat /\ clock \in Nat /\ writer.done \in 0 .. NumKeys
      /\ k \in 1 .. get_max_k /\ k <= reader.count /\ reader.count <= counter
      /\ reader.count \in Nat /\ reader.got \in [Keys -> [1 .. k -> Int]]
  <2>1. /\ UNCHANGED << clock, slots, timestamps, counter, writer >>
        /\ reader.pc = "copying" /\ reader.done < NumKeys
    BY DEF GetKey
  <2>2. /\ clock \in Nat /\ counter \in Nat /\ reader.count \in Nat
        /\ reader.done \in 0 .. NumKeys /\ writer.done \in 0 .. NumKeys
    BY RingTypes
  <2>3. /\ k \in 1 .. get_max_k /\ k <= reader.count /\ reader.count <= counter
        /\ reader.got \in [Keys -> [1 .. k -> Int]]
    BY <2>1, RingTypes
  <2>4. reader.done \in Nat /\ key0 \in Keys BY <2>1, <2>2, Sizes DEF Keys
  <2> HIDE DEF k, key0
  <2> QED BY <2>1, <2>2, <2>3, <2>4
<1>2. reader' = [reader EXCEPT !.done = key0, !.got[key0] = copy]
  BY DEF GetKey
<1>3. reader' = Get("copying", k, reader.start, reader.count, key0,
                    [reader.got EXCEPT ![key0] = copy], reader.until, reader.late)
  <2> HIDE DEF copy, key0
  <2> QED BY <1>1, <1>2 DEF RingInv, ReaderTypes, Get
<1>4. /\ reader'.pc = "copying" /\ reader'.k = k /\ reader'.count = reader.count
      /\ reader'.done = key0 /\ reader'.until = reader.until
      /\ reader'.got = [reader.got EXCEPT ![key0] = copy]
  BY <1>3 DEF Get
<1>5. Oldest' = Oldest /\ FirstAfter' = FirstAfter /\ Oldest \in Nat
  BY <1>1, <1>4, Sizes DEF Oldest, FirstAfter
<1>6. ASSUME clock < reader.until, NEW j \in 1 .. k
      PROVE  copy[j] = Oldest + j - 1
  <2> DEFINE i == Oldest + j - 1
  <2>1. i \in Nat /\ i < counter /\ i >= Oldest
    <3>1. j \in Nat /\ 1 <= j /\ j <= k /\ k \in Nat BY <1>1, Sizes
    <3>2. Oldest = reader.count - k BY DEF Oldest
    <3>3. counter \in Nat /\ reader.count \in Nat /\ reader.count <= counter BY <1>1
    <3>4. i \in Nat /\ i >= Oldest BY <1>5, <3>1
    <3> HIDE DEF k
    <3>5. i = reader.count - k + j - 1 BY <3>2
    <3> HIDE DEF i
    <3> QED BY <3>1, <3>3, <3>4, <3>5
  <2>2. SlotOf(curr, k, j) = Slot(i)
    BY <1>1, WindowSlot DEF Oldest
  <2>3. \/ counter < Oldest + buffer_size
        \/ counter = Oldest + buffer_size /\ writer.done = 0
    BY <1>1, <1>6 DEF RingInv, Copying
  <2>4. counter < i + buffer_size \/ (counter = i + buffer_size /\ writer.done < key0)
    BY <1>1, <1>5, <2>1, <2>3, Sizes DEF Keys
  <2> HIDE DEF i
  <2>5. slots[Slot(i)][key0] = i
    BY <1>1, <2>1, <2>4 DEF RingInv, InSlots
  <2> QED BY <2>2, <2>5 DEF i
<1>7. ASSUME clock < reader.until, NEW key \in Keys, NEW j \in 1 .. k, key <= key0
      PROVE  reader'.got[key][j] = Oldest + j - 1
  <2>1. CASE key = key0
    <3> HIDE DEF copy, key0
    <3> QED BY <1>1, <1>4, <1>6, <1>7, <2>1
  <2>2. CASE key # key0
    <3>1. key <= reader.done BY <1>1, <1>7, <2>2 DEF Keys
    <3>2. reader.got[key][j] = Oldest + j - 1
      BY <1>1, <1>7, <3>1 DEF RingInv, Copying
    <3> HIDE DEF copy, key0
    <3> QED BY <1>1, <1>4, <2>2, <3>2
  <2> QED BY <2>1, <2>2
<1>8. \A i \in Nat : Stamped(i)' => Stamped(i) /\ StampOf(i)' = StampOf(i)
  BY <1>1 DEF Stamped, StampOf
<1>9. /\ reader.until <= clock + get_time_budget
      /\ \A i \in Nat : Stamped(i) /\ i >= FirstAfter =>
            reader.until <= StampOf(i) + get_time_budget
      /\ clock < reader.until =>
              \/ counter < Oldest + buffer_size
              \/ counter = Oldest + buffer_size /\ writer.done = 0
  BY <1>1 DEF RingInv, Copying
<1> HIDE DEF copy, key0, k
<1> QED BY <1>1, <1>4, <1>5, <1>7, <1>8, <1>9 DEF Copying

\* A finished copy is whole if the window was free until it ended.
LEMMA EndCopies == RingInv /\ GetEnd => Copying' /\ CopiesWhole'
<1> SUFFICES ASSUME RingInv, GetEnd PROVE Copying' /\ CopiesWhole' OBVIOUS
<1> DEFINE pc == IF clock - reader.start > get_time_budget THEN "timeout" ELSE "returned"
           late == clock >= reader.until
<1>1. /\ reader.pc = "copying" /\ reader.done = NumKeys
      /\ clock \in Nat /\ reader.until \in Int
  BY DEF GetEnd, RingInv, Types, RingTypeOK, ReaderTypes
<1>2. reader' = [reader EXCEPT !.pc = pc, !.late = late, !.start = 0, !.until = 0]
  BY DEF GetEnd
<1>3. reader' = Get(pc, reader.k, 0, reader.count, reader.done, reader.got, 0, late)
  <2> HIDE DEF pc, late
  <2> QED BY <1>2 DEF RingInv, ReaderTypes, Get
<1>4. /\ reader'.pc = pc /\ reader'.late = late /\ reader'.k = reader.k
      /\ reader'.count = reader.count /\ reader'.got = reader.got
  BY <1>3 DEF Get
<1>5. Copying' BY <1>4 DEF Copying
<1>6. CopiesWhole'
  <2> SUFFICES ASSUME ~late, NEW key \in Keys, NEW j \in 1 .. reader.k
               PROVE  reader.got[key][j] = reader.count - reader.k + j - 1
    BY <1>4 DEF CopiesWhole
  <2>1. clock < reader.until BY <1>1
  <2>2. key <= reader.done BY <1>1, Sizes DEF Keys
  <2> QED BY <1>1, <2>1, <2>2 DEF RingInv, Copying, Oldest
<1> QED BY <1>5, <1>6

\* Every read keeps what is said of the copy.
LEMMA ReadCopies == RingInv /\ Reads => Copying' /\ CopiesWhole'
<1> SUFFICES ASSUME RingInv, Reads PROVE Copying' /\ CopiesWhole' OBVIOUS
<1> USE DEF RingInv, ReaderTypes, Get
<1>1. CASE \E k \in 1 .. get_max_k : GetBegin(k)
  <2>1. reader'.pc = "counting" BY <1>1 DEF GetBegin, NoGet
  <2> QED BY <2>1 DEF Copying, CopiesWhole
<1>2. CASE GetCount
  <2>1. reader'.pc = "copying" BY <1>2 DEF GetCount
  <2> QED BY <1>2, <2>1, CountCopying DEF CopiesWhole
<1>3. CASE GetKey
  <2>1. reader'.pc = "copying" BY <1>3 DEF GetKey
  <2> QED BY <1>3, <2>1, KeyCopying DEF CopiesWhole
<1>4. CASE GetEnd BY <1>4, EndCopies
<1>5. CASE GetResult
  <2>1. reader'.pc = "out" BY <1>5 DEF GetResult, NoGet
  <2> QED BY <2>1 DEF Copying, CopiesWhole
<1> QED BY <1>1, <1>2, <1>3, <1>4, <1>5 DEF Reads

\* Time only makes the window's end come closer.
LEMMA TickInv == RingInv /\ Tick => RingInv'
<1> SUFFICES ASSUME RingInv, Tick PROVE RingInv' OBVIOUS
<1>1. /\ UNCHANGED << slots, timestamps, counter, writer, reader >>
      /\ clock \in Nat /\ clock' = clock + 1
      /\ timestamps \in [Indices -> Int]
      /\ reader.until \in Int /\ reader.start \in Nat
  BY DEF Tick, RingInv, Types, RingTypeOK, ReaderTypes
<1>2. Types' BY <1>1 DEF RingInv, Types, RingTypeOK
<1>3. ReaderTypes' BY <1>1 DEF RingInv, ReaderTypes, Get
<1>4. InSlots' /\ PutSoFar' /\ CopiesWhole'
  BY <1>1 DEF RingInv, InSlots, PutSoFar, CopiesWhole
<1>5. \A i \in Nat : (Stamped(i)' => Stamped(i)) /\ StampOf(i)' = StampOf(i) /\ StampOf(i) \in Int
  BY <1>1, Division DEF Stamped, StampOf, Slot
<1>6. StampsInOrder'
  <2>1. \A i \in Nat : Stamped(i)' => StampOf(i)' <= clock'
    BY <1>1, <1>5 DEF RingInv, StampsInOrder
  <2> QED BY <1>5, <2>1 DEF RingInv, StampsInOrder
<1>7. Copying'
  <2>1. Oldest' = Oldest /\ FirstAfter' = FirstAfter BY <1>1 DEF Oldest, FirstAfter
  <2>2. reader.pc = "copying" => reader.until <= clock' + get_time_budget
    BY <1>1, Sizes DEF RingInv, Copying
  <2>3. clock' < reader.until => clock < reader.until BY <1>1
  <2> QED BY <1>1, <1>5, <2>1, <2>2, <2>3 DEF RingInv, Copying
<1> QED BY <1>2, <1>3, <1>4, <1>6, <1>7 DEF RingInv

\* RingInv is inductive.
LEMMA RingStep == RingInv /\ [RingNext]_ringVars => RingInv'
<1> SUFFICES ASSUME RingInv, [RingNext]_ringVars PROVE RingInv' OBVIOUS
<1>1. CASE Tick BY <1>1, TickInv
<1>2. CASE Writes
  <2>1. UNCHANGED reader
    BY <1>2 DEF Writes, PutBegin, PutKey, PutStamp, PutCount, WriterEnds
  <2>2. CopiesWhole' BY <2>1 DEF RingInv, CopiesWhole
  <2> QED BY <1>2, <2>2, WriteTypes, WriteSlots, WriteStamps, WriteCopying DEF RingInv
<1>3. CASE Reads
  BY <1>3, ReadTypes, ReadRing, ReadCopies DEF RingInv
<1>4. CASE UNCHANGED ringVars
  BY <1>4
  DEF ringVars, RingInv, Types, RingTypeOK, ReaderTypes, Get, InSlots, PutSoFar,
      StampsInOrder, Stamped, StampOf, Copying, FirstAfter, Oldest, CopiesWhole
<1> QED BY <1>1, <1>2, <1>3, <1>4 DEF RingNext, Writes, Reads

(* Whatever puts and gets do to the ring buffer, what get and get_last_k     *)
(* return before the window's end is the last k items, whole and in order.  *)
THEOREM RingCopiesWhole == RingSpec => []CopiesWhole
<1>1. RingInv => CopiesWhole BY DEF RingInv
<1> QED BY RingInitInv, RingStep, <1>1, PTL DEF RingSpec

-----------------------------------------------------------------------------
(* The two processes. *)

(* The SpaceMouse process and the arm node's timer use the ring buffer by    *)
(* its operations only: their specification implements that of the buffer.  *)
THEOREM UsesRing == Spec => RingSpec
<1>1. Init => RingInit BY DEF Init
<1>2. [Next]_vars => [RingNext]_ringVars
  <2> SUFFICES ASSUME [Next]_vars PROVE [RingNext]_ringVars OBVIOUS
  <2>1. CASE Process
    BY <2>1 DEF Process, PollNoMotion, PollMotion, Put, RingNext
  <2>2. CASE TickBegin \/ TickGetLastK
    <3>1. PICK k : GetBegin(k) BY <2>2 DEF TickBegin, TickGetLastK
    <3>2. k \in 1 .. get_max_k BY <3>1 DEF GetBegin
    <3> QED BY <3>1, <3>2 DEF RingNext
  <2>3. CASE TickFails \/ TickStale \/ TickLatest \/ TickSelect
    BY <2>3 DEF TickFails, TickStale, TickLatest, TickSelect, RingNext
  <2>4. CASE TickOnlyOne BY <2>4 DEF TickOnlyOne
  <2>5. CASE GetCount \/ GetKey \/ GetEnd BY <2>5 DEF RingNext
  <2>6. CASE Tick BY <2>6 DEF RingNext
  <2>7. CASE UNCHANGED vars BY <2>7 DEF vars
  <2> QED BY <2>1, <2>2, <2>3, <2>4, <2>5, <2>6, <2>7 DEF Next, ArmNode
<1> QED BY <1>1, <1>2, PTL DEF Spec, RingSpec

(* So every sample and every window the timer works with is whole, unless    *)
(* its copy ended too late.                                                  *)
THEOREM CopiesAreWhole == Spec => []CopiesWhole
BY UsesRing, RingCopiesWhole, PTL
-----------------------------------------------------------------------------
(* What the two processes know of each other's samples.                     *)

\* The call under way, or to come, has counted this many items.
Counted == IF reader.pc \in {"copying", "timeout", "returned"} THEN reader.count ELSE counter

MotionTypes ==
    /\ sent \in Seq(Sample) /\ Len(sent) \in {counter, counter + 1}
    /\ writer.pc = "out" => Len(sent) = counter
    /\ writer.pc \in {"copying", "stamped"} => Len(sent) = counter + 1
    /\ arm \in [pc : {"idle", "latest", "recent", "select", "gone"}, now : Nat, latest : Sample]
    /\ last \in Nat \cup {None} /\ armed \in BOOLEAN /\ torn \in BOOLEAN
    /\ moves \in Seq([motion : Nat, fresh : BOOLEAN])

\* Even a torn copy is made of samples: a slot of a window was written before.
Items == 0 .. Len(sent) - 1

ItemsStored == \A i \in Nat, key \in Keys : i < counter => slots[Slot(i)][key] \in Items

ItemsGot ==
    reader.pc \in {"copying", "timeout", "returned"} =>
        \A key \in Keys, j \in 1 .. reader.k :
            key <= reader.done => reader.got[key][j] \in Items

\* The timer is in a call exactly when its callback waits for one.
CallOfArm ==
    /\ reader.pc = "out" <=> arm.pc \in {"idle", "recent", "gone"}
    /\ arm.pc = "latest" => reader.k = 1

\* Sequence numbers never fall, and a deflection is the first sample of its own.
SentInOrder ==
    \A n \in DOMAIN sent :
        /\ sent[n].motion # 0 =>
              /\ sent[n].motion = sent[n].rest.sequence
              /\ sent[n].rest.moved = sent[n].rest.received
        /\ \A m \in 1 .. n - 1 :
              /\ sent[m].rest.sequence <= sent[n].rest.sequence
              /\ sent[n].motion # 0 => sent[m].rest.sequence < sent[n].rest.sequence

LastSeen == last # None => \E m \in 1 .. Counted : last = sent[m].rest.sequence

LatestSeen ==
    arm.pc \in {"recent", "select"} =>
        /\ \E m \in 1 .. Counted : arm.latest = sent[m]
        /\ last <= arm.latest.rest.sequence
        /\ arm.now - arm.latest.rest.received <= sm_watchdog_sec

MovesBehind == \A i \in DOMAIN moves : moves[i].motion <= last

MotionInv ==
    /\ MotionTypes /\ ItemsStored /\ ItemsGot /\ CallOfArm /\ SentInOrder
    /\ ~torn => LastSeen /\ LatestSeen /\ MovesBehind
    /\ EachMotionOnce

-----------------------------------------------------------------------------
(* Samples and windows. *)

LEMMA SampleKeys == 1 \in Keys /\ 2 \in Keys
BY SampleKeysAssumption

\* The call under way counted at most what is counted now.
LEMMA CountedBound == RingInv => Counted \in Nat /\ Counted <= counter
BY RingTypes DEF Counted

\* Every returned window consists of samples, torn or not.
LEMMA GotSample ==
    ASSUME RingInv, MotionInv, reader.pc = "returned", NEW j \in 1 .. reader.k
    PROVE  Got(j) \in Sample
<1>1. /\ sent \in Seq(Sample) /\ Len(sent) \in Nat
      /\ reader.done = NumKeys /\ \A key \in Keys : key <= NumKeys
  BY RingTypes DEF MotionInv, MotionTypes, Keys
<1>2. reader.got[1][j] \in Items /\ reader.got[2][j] \in Items
  BY <1>1, SampleKeys DEF MotionInv, ItemsGot
<1>3. reader.got[1][j] + 1 \in DOMAIN sent /\ reader.got[2][j] + 1 \in DOMAIN sent
  BY <1>1, <1>2 DEF Items
<1>4. sent[reader.got[1][j] + 1] \in Sample /\ sent[reader.got[2][j] + 1] \in Sample
  BY <1>1, <1>3
<1> QED BY <1>4 DEF Got, Sample

\* One that was not late consists of the last reader.k samples that were counted.
LEMMA GotWhole ==
    ASSUME RingInv, MotionInv, reader.pc = "returned", ~reader.late, NEW j \in 1 .. reader.k
    PROVE  /\ reader.count - reader.k + j \in 1 .. Counted
           /\ reader.count - reader.k + j \in DOMAIN sent
           /\ Got(j) = sent[reader.count - reader.k + j]
<1> DEFINE n == reader.count - reader.k + j
<1>1. /\ reader.got[1][j] = reader.count - reader.k + j - 1
      /\ reader.got[2][j] = reader.count - reader.k + j - 1
  BY SampleKeys DEF RingInv, CopiesWhole
<1>2. /\ reader.count \in Nat /\ reader.k \in Nat /\ j \in Nat /\ j <= reader.k
      /\ reader.k <= reader.count /\ reader.count <= counter /\ counter \in Nat
  BY RingTypes, Sizes
<1>3. n \in Nat /\ n >= 1 /\ n <= reader.count BY <1>2
<1>4. Counted = reader.count BY DEF Counted
<1>5. sent \in Seq(Sample) /\ Len(sent) >= counter /\ Len(sent) \in Nat
  BY <1>2 DEF MotionInv, MotionTypes
<1>6. n \in 1 .. Len(sent) BY <1>2, <1>3, <1>5
<1>7. Got(j) = [motion |-> sent[n].motion, rest |-> sent[n].rest]
  BY <1>1, <1>2 DEF Got
<1>8. sent[n] \in Sample BY <1>5, <1>6
<1>9. sent[n] = [motion |-> sent[n].motion, rest |-> sent[n].rest] BY <1>8 DEF Sample
<1> QED BY <1>3, <1>4, <1>5, <1>6, <1>7, <1>9

-----------------------------------------------------------------------------
(* Every step keeps MotionInv. *)

\* Before the first sample there is nothing to relate.
LEMMA MotionInitInv == Init => MotionInv
<1> SUFFICES ASSUME Init PROVE MotionInv OBVIOUS
<1> USE DEF Init, RingInit
<1>1. MotionTypes
  <2>1. NoSample \in Sample BY DEF NoSample, Sample, Rest, None
  <2>2. sent \in Seq(Sample) /\ Len(sent) = 0 /\ moves \in Seq([motion : Nat, fresh : BOOLEAN])
    OBVIOUS
  <2>3. arm \in [pc : {"idle", "latest", "recent", "select", "gone"}, now : Nat, latest : Sample]
    BY <2>1 DEF Idle
  <2> QED BY <2>2, <2>3 DEF MotionTypes
<1>2. ItemsStored /\ ItemsGot /\ CallOfArm
  BY DEF ItemsStored, ItemsGot, CallOfArm, NoGet, Idle
<1>3. SentInOrder /\ LastSeen /\ LatestSeen /\ MovesBehind /\ EachMotionOnce
  BY DEF SentInOrder, LastSeen, LatestSeen, MovesBehind, EachMotionOnce, Idle
<1> QED BY <1>1, <1>2, <1>3 DEF MotionInv

\* A sample that was counted stays where it is, and more are counted: then what
\* the history says of samples stays true while the timer does nothing.
LEMMA HistoryKept ==
    ASSUME RingInv, MotionInv, UNCHANGED << last, moves, torn >>,
           Counted' \in Nat, Counted <= Counted',
           \A n \in 1 .. counter : sent'[n] = sent[n],
           arm'.pc \in {"recent", "select"} =>
              /\ arm.pc \in {"recent", "select"}
              /\ arm'.latest = arm.latest /\ arm'.now = arm.now
    PROVE  (~torn => LastSeen /\ LatestSeen /\ MovesBehind)' /\ EachMotionOnce'
<1>1. EachMotionOnce' BY DEF MotionInv, EachMotionOnce
<1>2. SUFFICES ASSUME ~torn'
               PROVE  LastSeen' /\ LatestSeen' /\ MovesBehind'
  BY <1>1
<1>3. LastSeen /\ LatestSeen /\ MovesBehind BY <1>2 DEF MotionInv
<1>4. Counted \in Nat /\ Counted <= counter /\ counter \in Nat BY CountedBound, RingTypes
<1>5. \A m \in 1 .. Counted : m \in 1 .. Counted' /\ sent'[m] = sent[m] BY <1>4
<1>6. LastSeen' BY <1>3, <1>5 DEF LastSeen
<1>7. LatestSeen' BY <1>3, <1>5 DEF LatestSeen
<1>8. MovesBehind' BY <1>3 DEF MovesBehind
<1> QED BY <1>6, <1>7, <1>8

\* The sample before the one that is put now has the highest sequence number.
LEMMA HighestSequence ==
    ASSUME MotionInv, NEW m \in DOMAIN sent
    PROVE  Sequence \in Nat /\ sent[m].rest.sequence <= Sequence
<1>1. sent \in Seq(Sample) /\ Len(sent) \in Nat BY DEF MotionInv, MotionTypes
<1>2. Len(sent) \in DOMAIN sent /\ m \in 1 .. Len(sent) BY <1>1
<1>3. sent[m] \in Sample /\ sent[Len(sent)] \in Sample BY <1>1, <1>2
<1>4. Sequence = sent[Len(sent)].rest.sequence BY <1>1, <1>2 DEF Sequence
<1>5. m = Len(sent) \/ m \in 1 .. Len(sent) - 1 BY <1>1, <1>2
<1>6. sent[m].rest.sequence <= sent[Len(sent)].rest.sequence
  BY <1>2, <1>3, <1>5 DEF MotionInv, SentInOrder, Sample, Rest
<1> QED BY <1>3, <1>4, <1>6 DEF Sample, Rest

\* A put begins: the sample is on its way, and not counted yet.
LEMMA PutMotion ==
    ASSUME RingInv, MotionInv, NEW sample \in Sample, Put(sample),
           Sequence <= sample.rest.sequence,
           sample.motion # 0 =>
              /\ sample.motion = sample.rest.sequence
              /\ sample.rest.moved = sample.rest.received
              /\ Sequence < sample.rest.sequence
    PROVE  MotionInv'
<1>1. /\ sent \in Seq(Sample) /\ Len(sent) \in Nat /\ Len(sent) = counter
      /\ sent' = Append(sent, sample)
  BY DEF MotionInv, MotionTypes, Put, PutBegin
<1>2. /\ sent' \in Seq(Sample) /\ Len(sent') = Len(sent) + 1
      /\ \A n \in 1 .. Len(sent) : sent'[n] = sent[n]
      /\ sent'[Len(sent) + 1] = sample
  BY <1>1
<1>3. /\ UNCHANGED << slots, counter, reader, arm, last, armed, moves, torn >>
      /\ writer'.pc = "copying"
  BY DEF Put, PutBegin
<1>4. MotionTypes' BY <1>1, <1>2, <1>3, RingTypes DEF MotionInv, MotionTypes
<1>5. Items \subseteq Items' BY <1>1, <1>2 DEF Items
<1>6. ItemsStored' BY <1>3, <1>5 DEF MotionInv, ItemsStored, Slot
<1>7. ItemsGot' BY <1>3, <1>5 DEF MotionInv, ItemsGot
<1>8. CallOfArm' BY <1>3 DEF MotionInv, CallOfArm
<1>9. SentInOrder'
  <2> SUFFICES ASSUME NEW n \in 1 .. Len(sent) + 1
               PROVE  /\ sent'[n].motion # 0 =>
                            /\ sent'[n].motion = sent'[n].rest.sequence
                            /\ sent'[n].rest.moved = sent'[n].rest.received
                      /\ \A m \in 1 .. n - 1 :
                            /\ sent'[m].rest.sequence <= sent'[n].rest.sequence
                            /\ sent'[n].motion # 0 =>
                                  sent'[m].rest.sequence < sent'[n].rest.sequence
    BY <1>2 DEF SentInOrder
  <2>1. CASE n \in 1 .. Len(sent)
    <3>1. \A m \in 1 .. n - 1 : m \in 1 .. Len(sent) BY <1>1, <2>1
    <3> QED BY <1>1, <1>2, <2>1, <3>1 DEF MotionInv, SentInOrder
  <2>2. CASE n = Len(sent) + 1
    <3>1. \A m \in 1 .. n - 1 :
             /\ m \in DOMAIN sent /\ sent'[m] = sent[m] /\ sent[m] \in Sample
      BY <1>1, <1>2, <2>2
    <3>2. \A m \in 1 .. n - 1 : Sequence \in Nat /\ sent[m].rest.sequence <= Sequence
      BY <3>1, HighestSequence
    <3>3. sample.rest.sequence \in Nat BY DEF Sample, Rest
    <3>4. \A m \in 1 .. n - 1 : sent[m].rest.sequence \in Nat BY <3>1 DEF Sample, Rest
    <3> QED BY <1>2, <2>2, <3>1, <3>2, <3>3, <3>4
  <2> QED BY <2>1, <2>2
<1>10. (~torn => LastSeen /\ LatestSeen /\ MovesBehind)' /\ EachMotionOnce'
  <2>1. Counted' = Counted BY <1>3 DEF Counted
  <2>2. Counted \in Nat /\ \A n \in 1 .. counter : sent'[n] = sent[n]
    BY <1>1, <1>2, CountedBound
  <2> QED BY <1>3, <2>1, <2>2, HistoryKept
<1> QED BY <1>4, <1>6, <1>7, <1>8, <1>9, <1>10 DEF MotionInv

\* Nothing but the ring buffer, and there the writer's part, changes.
LEMMA WriterMotion ==
    ASSUME RingInv, MotionInv, PutKey \/ PutStamp \/ PutCount \/ WriterEnds,
           UNCHANGED motionVars
    PROVE  MotionInv'
<1>1. UNCHANGED << clock, reader, sent, arm, last, armed, moves, torn >>
  BY DEF motionVars, PutKey, PutStamp, PutCount, WriterEnds
<1>2. /\ counter \in Nat /\ Len(sent) \in Nat /\ Len(sent) \in {counter, counter + 1}
      /\ writer.pc \in {"copying", "stamped"} => Len(sent) = counter + 1
  BY RingTypes DEF MotionInv, MotionTypes
<1>3. counter' \in Nat /\ counter' \in {counter, counter + 1} /\ counter' <= Len(sent)
  BY <1>2 DEF PutKey, PutStamp, PutCount, WriterEnds
<1>4. MotionTypes'
  BY <1>1, <1>2, RingTypes
  DEF MotionInv, MotionTypes, PutKey, PutStamp, PutCount, WriterEnds
<1>5. Items' = Items BY <1>1 DEF Items
<1>6. ItemsStored'
  <2> SUFFICES ASSUME NEW i \in Nat, i < counter', NEW key \in Keys
               PROVE  slots'[Slot(i)][key] \in Items
    BY <1>5 DEF ItemsStored, Slot
  <2>1. i <= counter BY <1>2, <1>3
  <2>2. CASE PutKey
    <3>1. i < counter BY <2>2 DEF PutKey
    <3>2. slots[Slot(i)][key] \in Items BY <3>1 DEF MotionInv, ItemsStored
    <3>3. /\ slots' = [slots EXCEPT ![next_idx][writer.done + 1] = counter]
          /\ counter \in Items
      BY <1>2, <2>2 DEF PutKey, Items
    <3>4. next_idx \in Indices /\ slots \in [Indices -> [Keys -> Int]]
      BY <1>2, NextSlot, RingTypes
    <3>5. Slot(i) \in Indices BY <2>1, Division DEF Slot
    <3> QED BY <3>2, <3>3, <3>4, <3>5
  <2>3. CASE PutCount
    <3>1. slots' = slots /\ writer.pc = "stamped" BY <2>3 DEF PutCount
    <3>2. CASE i < counter BY <3>1, <3>2 DEF MotionInv, ItemsStored
    <3>3. CASE i = counter
      <4>1. key <= writer.done BY <3>1 DEF RingInv, Types, Keys
      <4>2. slots[Slot(counter)][key] = counter BY <4>1 DEF RingInv, PutSoFar
      <4>3. counter \in Items BY <1>2, <3>1 DEF Items
      <4> QED BY <3>1, <3>3, <4>2, <4>3
    <3> QED BY <1>2, <2>1, <3>2, <3>3
  <2>4. CASE PutStamp \/ WriterEnds
    BY <2>4 DEF PutStamp, WriterEnds, MotionInv, ItemsStored
  <2> QED BY <2>2, <2>3, <2>4
<1>7. ItemsGot' /\ CallOfArm' /\ SentInOrder'
  BY <1>1, <1>5 DEF MotionInv, ItemsGot, CallOfArm, SentInOrder
<1>8. (~torn => LastSeen /\ LatestSeen /\ MovesBehind)' /\ EachMotionOnce'
  <2>1. Counted' \in Nat /\ Counted <= Counted'
    BY <1>1, <1>2, <1>3, CountedBound, RingTypes DEF Counted
  <2> QED BY <1>1, <2>1, HistoryKept
<1> QED BY <1>4, <1>6, <1>7, <1>8 DEF MotionInv

\* A poll of the SpaceMouse, with a motion or without.
LEMMA ProcessMotion == RingInv /\ MotionInv /\ Process => MotionInv'
<1> SUFFICES ASSUME RingInv, MotionInv, Process PROVE MotionInv' OBVIOUS
<1>1. clock \in Nat BY RingTypes
<1>2. Sequence \in Nat
  <2>1. CASE sent = << >> BY <2>1 DEF Sequence
  <2>2. CASE sent # << >>
    <3>1. sent \in Seq(Sample) BY DEF MotionInv, MotionTypes
    <3>2. Len(sent) \in DOMAIN sent BY <2>2, <3>1
    <3> QED BY <3>2, HighestSequence
  <2> QED BY <2>1, <2>2
<1>3. CASE PollNoMotion
  <2> DEFINE s == [motion |-> 0,
                   rest |-> [moved |-> None, received |-> clock, sequence |-> Sequence]]
  <2>1. Put(s) BY <1>3 DEF PollNoMotion
  <2>2. s \in Sample /\ s.rest.sequence = Sequence /\ s.motion = 0
    BY <1>1, <1>2 DEF Sample, Rest, None
  <2>3. Sequence <= s.rest.sequence BY <1>2, <2>2
  <2> HIDE DEF s
  <2> QED BY <2>1, <2>2, <2>3, PutMotion
<1>4. CASE PollMotion
  <2>1. PICK deflected \in BOOLEAN :
           Put([motion |-> IF deflected THEN Sequence + 1 ELSE 0,
                rest |-> [moved |-> clock, received |-> clock, sequence |-> Sequence + 1]])
    BY <1>4 DEF PollMotion
  <2> DEFINE s == [motion |-> IF deflected THEN Sequence + 1 ELSE 0,
                   rest |-> [moved |-> clock, received |-> clock, sequence |-> Sequence + 1]]
  <2>2. Put(s) BY <2>1
  <2>3. /\ s \in Sample /\ s.rest.sequence = Sequence + 1
        /\ s.motion \in {0, Sequence + 1} /\ s.rest.moved = s.rest.received
    BY <1>1, <1>2 DEF Sample, Rest
  <2>4. Sequence <= s.rest.sequence /\ Sequence < s.rest.sequence BY <1>2, <2>3
  <2> HIDE DEF s
  <2> QED BY <2>2, <2>3, <2>4, PutMotion
<1>5. CASE (PutKey \/ PutStamp \/ PutCount \/ WriterEnds) /\ UNCHANGED motionVars
  BY <1>5, WriterMotion
<1> QED BY <1>3, <1>4, <1>5 DEF Process

\* A call goes on while the timer waits for it.
LEMMA CallMotion ==
    ASSUME RingInv, MotionInv, GetCount \/ GetKey \/ GetEnd, UNCHANGED motionVars
    PROVE  MotionInv'
<1>1. UNCHANGED << clock, slots, timestamps, counter, writer, sent, arm, last, armed, moves, torn >>
  BY DEF motionVars, GetCount, GetKey, GetEnd
<1>2. /\ reader = Get(reader.pc, reader.k, reader.start, reader.count, reader.done,
                      reader.got, reader.until, reader.late)
      /\ reader.pc = "counting" => reader.done = 0
  BY DEF RingInv, ReaderTypes
<1>3. /\ reader.pc # "out" /\ reader'.pc \in {"copying", "timeout", "returned"}
      /\ reader'.k = reader.k
      /\ reader'.count = IF reader.pc = "counting" THEN counter ELSE reader.count
      /\ reader.pc \in {"counting", "copying"}
  <2>1. CASE GetCount BY <1>2, <2>1 DEF GetCount, Get
  <2>2. CASE GetKey BY <1>2, <2>2 DEF GetKey, Get
  <2>3. CASE GetEnd BY <1>2, <2>3 DEF GetEnd, Get
  <2> QED BY <2>1, <2>2, <2>3
<1>4. MotionTypes' BY <1>1 DEF MotionInv, MotionTypes
<1>5. ItemsStored' BY <1>1 DEF MotionInv, ItemsStored, Items, Slot
<1>6. SentInOrder' BY <1>1 DEF MotionInv, SentInOrder
<1>7. CallOfArm' BY <1>1, <1>3 DEF MotionInv, CallOfArm
<1>8. ItemsGot'
  <2> SUFFICES ASSUME NEW key \in Keys, key <= reader'.done, NEW j \in 1 .. reader.k
               PROVE  reader'.got[key][j] \in Items
    BY <1>1, <1>3 DEF ItemsGot, Items
  <2>1. CASE GetCount
    <3>1. reader'.done = 0 BY <1>2, <2>1 DEF GetCount, Get
    <3> QED BY <3>1 DEF Keys
  <2>2. CASE GetEnd
    <3>1. reader.pc = "copying" /\ reader'.done = reader.done /\ reader'.got = reader.got
      BY <1>2, <2>2 DEF GetEnd, Get
    <3> QED BY <3>1 DEF MotionInv, ItemsGot
  <2>3. CASE GetKey
    <3> DEFINE key0 == reader.done + 1
               curr == (reader.count - 1) % buffer_size
               copy == [i \in 1 .. reader.k |-> slots[SlotOf(curr, reader.k, i)][key0]]
    <3>1. /\ reader.pc = "copying" /\ reader.done < NumKeys
          /\ reader' = [reader EXCEPT !.done = key0, !.got[key0] = copy]
      BY <2>3 DEF GetKey
    <3>2. /\ key0 \in Keys /\ reader.got \in [Keys -> [1 .. reader.k -> Int]]
          /\ reader.done \in Nat
      <4>1. /\ reader.pc = "copying" /\ reader.done < NumKeys
            /\ reader.done \in 0 .. NumKeys /\ NumKeys \in Nat
            /\ reader.got \in [Keys -> [1 .. reader.k -> Int]]
        BY <3>1, RingTypes, Sizes
      <4> QED BY <4>1 DEF Keys
    <3>3. reader'.done = key0 /\ reader'.got = [reader.got EXCEPT ![key0] = copy]
      <4> HIDE DEF key0, copy
      <4> QED BY <1>2, <3>1 DEF Get
    <3>4. CASE key = key0
      <4> DEFINE i == reader.count - reader.k + j - 1
      <4>1. /\ reader.k \in 1 .. get_max_k /\ reader.k <= reader.count
            /\ reader.count \in Nat /\ reader.count <= counter /\ counter \in Nat
        BY <3>1, RingTypes
      <4>2. i \in Nat /\ i < counter BY <4>1, Sizes
      <4>3. SlotOf(curr, reader.k, j) = Slot(i) BY <4>1, WindowSlot
      <4>4. slots[Slot(i)][key0] \in Items
        BY <3>2, <4>2 DEF MotionInv, ItemsStored
      <4>5. copy[j] \in Items BY <4>3, <4>4
      <4> HIDE DEF copy, key0
      <4> QED BY <3>2, <3>3, <3>4, <4>5
    <3>5. CASE key # key0
      <4>1. key <= reader.done BY <3>2, <3>3, <3>5 DEF Keys
      <4>2. reader.got[key][j] \in Items BY <3>1, <4>1 DEF MotionInv, ItemsGot
      <4> HIDE DEF copy, key0
      <4> QED BY <3>2, <3>3, <3>5, <4>2
    <3> QED BY <3>4, <3>5
  <2> QED BY <2>1, <2>2, <2>3
<1>9. (~torn => LastSeen /\ LatestSeen /\ MovesBehind)' /\ EachMotionOnce'
  <2>1. Counted' \in Nat /\ Counted <= Counted'
    BY <1>1, <1>3, CountedBound, RingTypes DEF Counted
  <2> QED BY <1>1, <2>1, HistoryKept
<1> QED BY <1>4, <1>5, <1>6, <1>7, <1>8, <1>9 DEF MotionInv

\* What the timer's steps have in common: no sample is put, and either a call
\* begins or none is under way afterwards.
LEMMA TimerFrame ==
    ASSUME RingInv, MotionInv,
           UNCHANGED << clock, slots, timestamps, counter, writer, sent >>,
           reader'.pc \in {"out", "counting"}
    PROVE  /\ Counted' = counter /\ counter \in Nat /\ Counted \in Nat /\ Counted <= Counted'
           /\ ItemsStored' /\ ItemsGot' /\ SentInOrder'
<1>1. Counted' = counter /\ counter \in Nat /\ Counted \in Nat /\ Counted <= Counted'
  BY CountedBound, RingTypes DEF Counted
<1>2. ItemsStored' BY DEF MotionInv, ItemsStored, Items, Slot
<1>3. ItemsGot' BY DEF ItemsGot
<1>4. SentInOrder' BY DEF MotionInv, SentInOrder
<1> QED BY <1>1, <1>2, <1>3, <1>4

\* Getting begins and ends.
LEMMA CallBegins ==
    ASSUME NEW k, GetBegin(k)
    PROVE  /\ reader.pc = "out" /\ reader'.pc = "counting" /\ reader'.k = k
           /\ UNCHANGED << clock, slots, timestamps, counter, writer >>
BY DEF GetBegin, NoGet

LEMMA CallEnds ==
    ASSUME GetResult
    PROVE  /\ reader'.pc = "out"
           /\ UNCHANGED << clock, slots, timestamps, counter, writer >>
BY DEF GetResult, NoGet

\* The timer asks for the newest sample, or for the window.
LEMMA BeginMotion ==
    ASSUME RingInv, MotionInv, TickBegin \/ TickGetLastK
    PROVE  MotionInv'
<1>1. /\ reader'.pc = "counting" /\ (TickBegin => reader'.k = 1)
      /\ UNCHANGED << clock, slots, timestamps, counter, writer, sent, last, armed, moves, torn >>
  <2>1. CASE TickBegin
    <3>1. GetBegin(1) BY <2>1 DEF TickBegin
    <3> QED BY <2>1, <3>1, CallBegins DEF TickBegin
  <2>2. CASE TickGetLastK /\ ~TickBegin
    <3>1. GetBegin(WindowSize) BY <2>2 DEF TickGetLastK
    <3> QED BY <2>2, <3>1, CallBegins DEF TickGetLastK
  <2> QED BY <2>1, <2>2
<1>2. /\ Counted' \in Nat /\ Counted <= Counted' /\ ItemsStored' /\ ItemsGot' /\ SentInOrder'
  BY <1>1, TimerFrame
<1>3. CASE TickBegin
  <2>1. arm' = [pc |-> "latest", now |-> clock, latest |-> NoSample]
    BY <1>3 DEF TickBegin, Idle
  <2>2. NoSample \in Sample BY DEF NoSample, Sample, Rest, None
  <2>3. MotionTypes' BY <1>1, <2>1, <2>2, RingTypes DEF MotionInv, MotionTypes
  <2>4. CallOfArm' BY <1>1, <1>3, <2>1 DEF CallOfArm
  <2>5. (~torn => LastSeen /\ LatestSeen /\ MovesBehind)' /\ EachMotionOnce'
    BY <1>1, <1>2, <2>1, HistoryKept
  <2> QED BY <1>2, <2>3, <2>4, <2>5 DEF MotionInv
<1>4. CASE TickGetLastK
  <2>1. /\ arm' = [arm EXCEPT !.pc = "select"] /\ arm.pc = "recent"
        /\ arm \in [pc : {"idle", "latest", "recent", "select", "gone"}, now : Nat, latest : Sample]
    BY <1>4 DEF TickGetLastK, MotionInv, MotionTypes
  <2>2. arm'.pc = "select" /\ arm'.now = arm.now /\ arm'.latest = arm.latest
    BY <2>1
  <2>3. MotionTypes' BY <1>1, <2>1 DEF MotionInv, MotionTypes
  <2>4. CallOfArm' BY <1>1, <2>2 DEF CallOfArm
  <2>5. (~torn => LastSeen /\ LatestSeen /\ MovesBehind)' /\ EachMotionOnce'
    BY <1>1, <1>2, <2>1, <2>2, HistoryKept
  <2> QED BY <1>2, <2>3, <2>4, <2>5 DEF MotionInv
<1> QED BY <1>3, <1>4

\* What _should_apply_motion_command leaves behind has its type.
LEMMA ApplyTypes ==
    ASSUME MotionInv, NEW s \in Sample, Apply(s)
    PROVE  /\ last' \in Nat \cup {None} /\ armed' \in BOOLEAN
           /\ moves' \in Seq([motion : Nat, fresh : BOOLEAN])
<1>1. last' \in Nat \cup {None} BY DEF Apply, Sample, Rest
<1>2. armed' \in BOOLEAN BY DEF Apply
<1>3. moves' \in Seq([motion : Nat, fresh : BOOLEAN])
  <2>1. moves \in Seq([motion : Nat, fresh : BOOLEAN]) BY DEF MotionInv, MotionTypes
  <2>2. Move(s) \in [motion : Nat, fresh : BOOLEAN]
    <3> DEFINE fresh == \A n \in DOMAIN sent :
                           sent[n].motion = s.motion =>
                              arm.now - sent[n].rest.moved <= sm_watchdog_sec
    <3>1. Move(s) = [motion |-> s.motion, fresh |-> fresh] BY DEF Move
    <3>2. fresh \in BOOLEAN OBVIOUS
    <3>3. s.motion \in Nat BY DEF Sample
    <3> HIDE DEF fresh
    <3> QED BY <3>1, <3>2, <3>3
  <2>3. moves' = moves \/ moves' = Append(moves, Move(s)) BY DEF Apply
  <2>4. ASSUME NEW M, moves \in Seq(M), NEW new \in M PROVE Append(moves, new) \in Seq(M)
    BY <2>4
  <2> QED BY <2>1, <2>2, <2>3, <2>4
<1> QED BY <1>1, <1>2, <1>3

\* A deflection is one sample only, so its age is that of the sample.
LEMMA Unique ==
    ASSUME MotionInv, NEW m \in DOMAIN sent, NEW n \in DOMAIN sent,
           sent[m].motion # 0, sent[n].motion = sent[m].motion
    PROVE  m = n
<1>1. sent \in Seq(Sample) /\ Len(sent) \in Nat BY DEF MotionInv, MotionTypes
<1>2. m \in 1 .. Len(sent) /\ n \in 1 .. Len(sent) BY <1>1
<1>3. sent[m] \in Sample /\ sent[n] \in Sample BY <1>1, <1>2
<1>4. sent[m].rest.sequence \in Nat /\ sent[m].rest.sequence = sent[n].rest.sequence
  BY <1>3 DEF MotionInv, SentInOrder, Sample, Rest
<1>5. CASE m < n
  <2>1. m \in 1 .. n - 1 BY <1>2, <1>5
  <2>2. sent[m].rest.sequence < sent[n].rest.sequence BY <2>1 DEF MotionInv, SentInOrder
  <2> QED BY <1>4, <2>2
<1>6. CASE n < m
  <2>1. n \in 1 .. m - 1 BY <1>2, <1>6
  <2>2. sent[n].rest.sequence < sent[m].rest.sequence BY <2>1 DEF MotionInv, SentInOrder
  <2> QED BY <1>4, <2>2
<1> QED BY <1>2, <1>5, <1>6

\* Applying a sample that was counted, is not older than last, and young enough
\* if it is a deflection: it is applied only when it is newer than every one
\* applied before.
LEMMA ApplyHistory ==
    ASSUME RingInv, MotionInv, ~torn, NEW m \in 1 .. counter,
           last <= sent[m].rest.sequence,
           sent[m].motion # 0 => arm.now - sent[m].rest.moved <= sm_watchdog_sec,
           Apply(sent[m]),
           UNCHANGED sent, Counted' = counter, arm'.pc = "idle"
    PROVE  LastSeen' /\ LatestSeen' /\ MovesBehind' /\ EachMotionOnce'
<1> DEFINE s == sent[m]
           new == Move(s)
<1>1. /\ counter \in Nat /\ sent \in Seq(Sample) /\ Len(sent) \in Nat /\ Len(sent) >= counter
      /\ last \in Nat \cup {None} /\ moves \in Seq([motion : Nat, fresh : BOOLEAN])
  BY RingTypes DEF MotionInv, MotionTypes
<1>2. m \in DOMAIN sent /\ m \in 1 .. Len(sent) BY <1>1
<1>3. s \in Sample /\ s.rest.sequence \in Nat /\ s.motion \in Nat
  <2>1. s \in Sample BY <1>1, <1>2
  <2> QED BY <2>1 DEF Sample, Rest
<1>4. last' = s.rest.sequence BY DEF Apply
<1>5. LastSeen'
  <2>1. m \in 1 .. Counted' /\ last' = sent'[m].rest.sequence BY <1>4
  <2> QED BY <2>1 DEF LastSeen
<1>6. LatestSeen' BY DEF LatestSeen
<1>7. last \in Int /\ last <= last' /\ last' \in Int BY <1>1, <1>3, <1>4 DEF None
<1>8. \A i \in DOMAIN moves : moves[i].motion \in Nat /\ moves[i].motion <= last
  <2>1. ASSUME NEW M, moves \in Seq(M), NEW i \in DOMAIN moves PROVE moves[i] \in M
    BY <2>1
  <2>2. \A i \in DOMAIN moves : moves[i] \in [motion : Nat, fresh : BOOLEAN]
    BY <1>1, <2>1
  <2> QED BY <2>2 DEF MotionInv, MovesBehind
<1>9. /\ \A i, j \in DOMAIN moves : i < j => moves[i].motion < moves[j].motion
      /\ \A i \in DOMAIN moves : moves[i].fresh
  BY DEF MotionInv, EachMotionOnce
<1>10. CASE moves' = moves
  <2>1. MovesBehind' BY <1>7, <1>8, <1>10 DEF MovesBehind
  <2>2. EachMotionOnce' BY <1>9, <1>10 DEF EachMotionOnce
  <2> QED BY <1>5, <1>6, <2>1, <2>2
<1>11. CASE moves' = Append(moves, new) /\ s.motion # 0 /\ last # s.rest.sequence
  <2>1. /\ Len(moves) \in Nat
        /\ DOMAIN moves = 1 .. Len(moves) /\ DOMAIN moves' = 1 .. Len(moves) + 1
        /\ \A i \in 1 .. Len(moves) : moves'[i] = moves[i]
        /\ moves'[Len(moves) + 1] = new
    BY <1>1, <1>11
  <2>2. s.motion = s.rest.sequence /\ new.motion = s.motion
    BY <1>2, <1>11 DEF MotionInv, SentInOrder, Move
  <2>3. \A i \in 1 .. Len(moves) : moves[i].motion < new.motion
    BY <1>3, <1>4, <1>7, <1>8, <1>11, <2>1, <2>2
  <2>4. new.fresh
    <3>1. ASSUME NEW n \in DOMAIN sent, sent[n].motion = s.motion
          PROVE  arm.now - sent[n].rest.moved <= sm_watchdog_sec
      <4>1. m = n BY <1>2, <1>11, <3>1, Unique
      <4> QED BY <1>11, <4>1
    <3>2. new.fresh = \A n \in DOMAIN sent :
                         sent[n].motion = s.motion =>
                            arm.now - sent[n].rest.moved <= sm_watchdog_sec
      BY DEF Move
    <3> QED BY <3>1, <3>2
  <2>5. MovesBehind'
    <3> HIDE DEF new
    <3>1. ASSUME NEW i \in 1 .. Len(moves) + 1 PROVE moves'[i].motion <= last'
      <4>1. CASE i \in 1 .. Len(moves)
        <5>1. moves[i].motion \in Nat /\ moves[i].motion <= last BY <1>8, <2>1, <4>1
        <5> QED BY <1>7, <2>1, <4>1, <5>1
      <4>2. CASE i = Len(moves) + 1 BY <1>3, <1>4, <2>1, <2>2, <4>2
      <4> QED BY <2>1, <4>1, <4>2
    <3> QED BY <2>1, <3>1 DEF MovesBehind
  <2>6. \A i, j \in DOMAIN moves' : i < j => moves'[i].motion < moves'[j].motion
    <3> HIDE DEF new
    <3> SUFFICES ASSUME NEW i \in 1 .. Len(moves) + 1, NEW j \in 1 .. Len(moves) + 1, i < j
                 PROVE  moves'[i].motion < moves'[j].motion
      BY <2>1
    <3>1. i \in 1 .. Len(moves) BY <2>1
    <3>2. CASE j \in 1 .. Len(moves) BY <1>9, <2>1, <3>1, <3>2
    <3>3. CASE j = Len(moves) + 1 BY <2>1, <2>3, <3>1, <3>3
    <3> QED BY <2>1, <3>2, <3>3
  <2>7. \A i \in DOMAIN moves' : moves'[i].fresh
    <3> SUFFICES ASSUME NEW i \in 1 .. Len(moves) + 1 PROVE moves'[i].fresh BY <2>1
    <3>1. i \in 1 .. Len(moves) \/ i = Len(moves) + 1 BY <2>1
    <3>2. CASE i \in 1 .. Len(moves)
      <4>1. moves'[i] = moves[i] /\ moves[i].fresh BY <1>9, <2>1, <3>2
      <4> QED BY <4>1
    <3>3. CASE i = Len(moves) + 1 BY <2>1, <2>4, <3>3
    <3> QED BY <3>1, <3>2, <3>3
  <2>8. EachMotionOnce' BY <2>6, <2>7 DEF EachMotionOnce
  <2> QED BY <1>5, <1>6, <2>5, <2>8
<1>12. moves' = moves \/ (moves' = Append(moves, new) /\ s.motion # 0 /\ last # s.rest.sequence)
  BY DEF Apply
<1> QED BY <1>10, <1>11, <1>12

\* What the steps below know before they start.
LEMMA TimerTypes ==
    MotionInv =>
        /\ sent \in Seq(Sample) /\ Len(sent) \in {counter, counter + 1}
        /\ arm \in [pc : {"idle", "latest", "recent", "select", "gone"}, now : Nat,
                    latest : Sample]
        /\ last \in Nat \cup {None} /\ armed \in BOOLEAN /\ torn \in BOOLEAN
        /\ moves \in Seq([motion : Nat, fresh : BOOLEAN])
        /\ writer.pc = "out" => Len(sent) = counter
        /\ writer.pc \in {"copying", "stamped"} => Len(sent) = counter + 1
BY DEF MotionInv, MotionTypes

\* The newest sample comes back: too late, too old, or in time.
LEMMA LatestMotion ==
    ASSUME RingInv, MotionInv, TickFails \/ TickStale \/ TickLatest
    PROVE  MotionInv'
<1>1. /\ arm.pc = "latest" /\ reader.pc \in {"timeout", "returned"} /\ reader'.pc = "out"
      /\ UNCHANGED << clock, slots, timestamps, counter, writer, sent, last, armed, moves >>
  BY CallEnds DEF TickFails, TickStale, TickLatest
<1>2. /\ Counted' = counter /\ counter \in Nat /\ Counted \in Nat /\ Counted <= Counted'
      /\ ItemsStored' /\ ItemsGot' /\ SentInOrder'
  BY <1>1, TimerFrame
<1>3. NoSample \in Sample BY DEF NoSample, Sample, Rest, None
<1>4. CASE TickFails \/ TickStale
  <2>1. arm'.pc \in {"idle", "gone"} /\ arm' \in [pc : {"idle", "gone"}, now : Nat, latest : Sample]
    BY <1>3, <1>4 DEF TickFails, TickStale, Idle
  <2>2. torn' = torn \/ torn' = (torn \/ reader.late) BY <1>4 DEF TickFails, TickStale
  <2>3. torn' \in BOOLEAN BY <2>2, TimerTypes
  <2>4. MotionTypes' BY <1>1, <2>1, <2>3, TimerTypes DEF MotionTypes
  <2>5. CallOfArm' BY <1>1, <2>1 DEF CallOfArm
  <2>6. ASSUME ~torn' PROVE LastSeen' /\ LatestSeen' /\ MovesBehind'
    <3>1. ~torn BY <2>2, <2>6
    <3>2. \A m \in 1 .. Counted : m \in 1 .. Counted' BY <1>2
    <3>3. LastSeen' BY <1>1, <3>1, <3>2 DEF MotionInv, LastSeen
    <3>4. LatestSeen' BY <2>1 DEF LatestSeen
    <3>5. MovesBehind' BY <1>1, <3>1 DEF MotionInv, MovesBehind
    <3> QED BY <3>3, <3>4, <3>5
  <2>7. EachMotionOnce' BY <1>1, <2>2 DEF MotionInv, EachMotionOnce
  <2> QED BY <1>2, <2>4, <2>5, <2>6, <2>7 DEF MotionInv
<1>5. CASE TickLatest
  <2>1. /\ reader.pc = "returned" /\ torn' = (torn \/ reader.late)
        /\ arm.now - Got(1).rest.received <= sm_watchdog_sec
        /\ arm' = [arm EXCEPT !.pc = "recent", !.latest = Got(1)]
    BY <1>5 DEF TickLatest
  <2>2. 1 \in 1 .. reader.k /\ reader.k = 1 BY <1>1 DEF MotionInv, CallOfArm
  <2>3. Got(1) \in Sample BY <2>1, <2>2, GotSample
  <2>4. /\ arm' \in [pc : {"recent"}, now : Nat, latest : Sample]
        /\ arm'.pc = "recent" /\ arm'.latest = Got(1) /\ arm'.now = arm.now
    BY <2>1, <2>3, TimerTypes
  <2>5. torn' \in BOOLEAN BY <2>1, TimerTypes
  <2>6. MotionTypes' BY <1>1, <2>4, <2>5, TimerTypes DEF MotionTypes
  <2>7. CallOfArm' BY <1>1, <2>4 DEF CallOfArm
  <2>8. ASSUME ~torn' PROVE LastSeen' /\ LatestSeen' /\ MovesBehind'
    <3>1. ~torn /\ ~reader.late BY <2>1, <2>8
    <3>2. \A m \in 1 .. Counted : m \in 1 .. Counted' BY <1>2
    <3>3. LastSeen /\ LastSeen' BY <1>1, <3>1, <3>2 DEF MotionInv, LastSeen
    <3>4. MovesBehind' BY <1>1, <3>1 DEF MotionInv, MovesBehind
    <3> DEFINE n == reader.count
    <3>5. n \in 1 .. Counted /\ n \in DOMAIN sent /\ Got(1) = sent[n] /\ n = Counted
      <4>1. reader.count \in Nat BY RingTypes
      <4>2. reader.count - reader.k + 1 = n BY <2>2, <4>1
      <4>3. Counted = n BY <2>1 DEF Counted
      <4> HIDE DEF n
      <4> QED BY <2>1, <2>2, <3>1, <4>2, <4>3, GotWhole
    <3>6. last <= sent[n].rest.sequence
      <4>1. sent[n] \in Sample /\ sent[n].rest.sequence \in Nat
        <5>1. sent[n] \in Sample BY <3>5, TimerTypes
        <5> QED BY <5>1 DEF Sample, Rest
      <4>2. CASE last = None BY <4>1, <4>2 DEF None
      <4>3. CASE last # None
        <5>1. PICK m \in 1 .. Counted : last = sent[m].rest.sequence
          BY <3>3, <4>3 DEF LastSeen
        <5>2. m \in 1 .. n - 1 \/ m = n BY <1>2, <3>5, <5>1
        <5> QED BY <3>5, <4>1, <5>1, <5>2 DEF MotionInv, SentInOrder
      <4> QED BY <4>2, <4>3
    <3>7. LatestSeen'
      <4>1. n \in 1 .. Counted' /\ sent'[n] = arm'.latest BY <1>1, <2>4, <3>2, <3>5
      <4> HIDE DEF n
      <4> QED BY <1>1, <2>1, <2>4, <3>5, <3>6, <4>1 DEF LatestSeen
    <3> QED BY <3>3, <3>4, <3>7
  <2>9. EachMotionOnce' BY <1>1, <2>1 DEF MotionInv, EachMotionOnce
  <2> QED BY <1>2, <2>6, <2>7, <2>8, <2>9 DEF MotionInv
<1> QED BY <1>4, <1>5

\* Every nonempty set of naturals has a least element, so a bounded one has a
\* greatest.
LEMMA Least ==
    ASSUME NEW S, S \subseteq Nat, S # {}
    PROVE  \E m \in S : \A n \in S : m <= n
<1> DEFINE R == OpToRel(<, Nat)
<1>1. \A m, n \in Nat : << n, m >> \in R <=> n < m BY DEF OpToRel
<1>2. IsWellFoundedOn(R, Nat) BY NatLessThanWellFounded
<1> HIDE DEF R
<1>3. PICK m \in S : \A n \in S : ~(<< n, m >> \in R) BY <1>2, WFMin
<1>4. \A n \in S : ~(n < m) BY <1>1, <1>3
<1> QED BY <1>4

LEMMA Greatest ==
    ASSUME NEW k \in Nat, NEW S, S \subseteq 1 .. k, S # {}
    PROVE  \E m \in S : \A n \in S : n <= m
<1> DEFINE D == {k - n : n \in S}
<1>1. D \subseteq Nat /\ D # {}
  <2>1. \A n \in S : n \in 1 .. k /\ k - n \in Nat OBVIOUS
  <2> QED BY <2>1
<1>2. PICK d \in D : \A e \in D : d <= e
  <2> HIDE DEF D
  <2> QED BY <1>1, Least
<1>3. PICK m \in S : d = k - m OBVIOUS
<1>4. ASSUME NEW n \in S PROVE n <= m
  <2>1. k - n \in D OBVIOUS
  <2>2. k - m <= k - n BY <1>2, <1>3, <2>1
  <2>3. m \in Nat /\ n \in Nat OBVIOUS
  <2> QED BY <2>2, <2>3
<1> QED BY <1>4

\* A window with candidates has a newest one.
LEMMA NewestCandidate ==
    ASSUME RingInv, reader.pc = "returned", Candidates # {}
    PROVE  (CHOOSE j \in Candidates : \A i \in Candidates : i <= j) \in Candidates
<1>1. reader.k \in Nat BY RingTypes, Sizes
<1>2. Candidates \subseteq 1 .. reader.k BY DEF Candidates
<1>3. \E j \in Candidates : \A i \in Candidates : i <= j BY <1>1, <1>2, Greatest
<1> QED BY <1>3

\* The window comes back, or there is only one sample, and one is applied.
LEMMA SelectMotion ==
    ASSUME RingInv, MotionInv, TickOnlyOne \/ TickSelect
    PROVE  MotionInv'
<1>1. /\ arm.pc \in {"recent", "select"} /\ reader'.pc = "out"
      /\ UNCHANGED << clock, slots, timestamps, counter, writer, sent >>
  <2>1. CASE TickOnlyOne
    <3>1. arm.pc = "recent" /\ UNCHANGED << ringVars, sent >> BY <2>1 DEF TickOnlyOne
    <3>2. reader.pc = "out" BY <3>1 DEF MotionInv, CallOfArm
    <3> QED BY <3>1, <3>2 DEF ringVars
  <2>2. CASE TickSelect
    <3>1. arm.pc = "select" /\ GetResult /\ UNCHANGED sent BY <2>2 DEF TickSelect
    <3> QED BY <3>1, CallEnds
  <2> QED BY <2>1, <2>2
<1>2. arm' = Idle BY DEF TickOnlyOne, TickSelect
<1>3. /\ torn' = torn \/ torn' = (torn \/ (reader.pc = "returned" /\ reader.late))
      /\ arm.pc = "select" => torn' = (torn \/ (reader.pc = "returned" /\ reader.late))
  BY DEF TickOnlyOne, TickSelect
<1>4. /\ Counted' = counter /\ counter \in Nat /\ Counted \in Nat /\ Counted <= Counted'
      /\ ItemsStored' /\ ItemsGot' /\ SentInOrder'
  BY <1>1, TimerFrame
<1>5. arm'.pc = "idle" /\ arm' \in [pc : {"idle"}, now : Nat, latest : Sample]
  BY <1>2 DEF Idle, NoSample, Sample, Rest, None
<1>6. CallOfArm' BY <1>1, <1>5 DEF CallOfArm
<1>7. torn' \in BOOLEAN BY <1>3, TimerTypes
<1>8. ASSUME NEW s \in Sample, Apply(s)
      PROVE  MotionTypes'
  BY <1>1, <1>5, <1>7, <1>8, ApplyTypes, TimerTypes DEF MotionTypes
<1>9. ASSUME NEW m \in 1 .. counter, Apply(sent[m]), last <= sent[m].rest.sequence,
             sent[m].motion # 0 => arm.now - sent[m].rest.moved <= sm_watchdog_sec, ~torn
      PROVE  LastSeen' /\ LatestSeen' /\ MovesBehind' /\ EachMotionOnce'
  BY <1>1, <1>4, <1>5, <1>9, ApplyHistory
<1>10. CASE Apply(arm.latest)
  <2>1. arm.latest \in Sample BY TimerTypes
  <2>2. ASSUME ~torn' PROVE LastSeen' /\ LatestSeen' /\ MovesBehind' /\ EachMotionOnce'
    <3>0. ~torn BY <1>3, <2>2
    <3>1. ~torn /\ LatestSeen BY <3>0 DEF MotionInv
    <3>2. PICK m \in 1 .. Counted : arm.latest = sent[m] BY <1>1, <3>1 DEF LatestSeen
    <3>3. m \in 1 .. counter /\ m \in DOMAIN sent
      <4>1. Counted <= counter /\ Counted \in Nat BY CountedBound
      <4>2. sent \in Seq(Sample) /\ Len(sent) >= counter /\ Len(sent) \in Nat
        BY <1>4, TimerTypes
      <4> QED BY <1>4, <4>1, <4>2
    <3>4. sent[m].motion # 0 => arm.now - sent[m].rest.moved <= sm_watchdog_sec
      BY <1>1, <3>1, <3>2, <3>3 DEF MotionInv, SentInOrder, LatestSeen
    <3>5. last <= sent[m].rest.sequence BY <1>1, <3>1, <3>2 DEF LatestSeen
    <3> QED BY <1>9, <1>10, <3>1, <3>2, <3>3, <3>4, <3>5
  <2>3. torn' => EachMotionOnce' BY DEF EachMotionOnce
  <2> QED BY <1>4, <1>6, <1>8, <1>10, <2>1, <2>2, <2>3 DEF MotionInv
<1>11. CASE ~Apply(arm.latest)
  <2> DEFINE j == CHOOSE j \in Candidates : \A i \in Candidates : i <= j
  <2>1. /\ TickSelect /\ reader.pc = "returned" /\ Candidates # {} /\ Apply(Got(j))
    BY <1>11 DEF TickOnlyOne, TickSelect
  <2>2. j \in Candidates
    BY <2>1, NewestCandidate
  <2> HIDE DEF j
  <2>3. /\ j \in 1 .. reader.k /\ Got(j).rest.sequence > last /\ Got(j).motion # 0
        /\ arm.now - Got(j).rest.moved <= sm_watchdog_sec
    BY <2>2 DEF Candidates
  <2>4. Got(j) \in Sample BY <2>1, <2>3, GotSample
  <2>5. ASSUME ~torn' PROVE LastSeen' /\ LatestSeen' /\ MovesBehind' /\ EachMotionOnce'
    <3> DEFINE m == reader.count - reader.k + j
    <3>1. ~torn /\ ~reader.late BY <1>3, <2>1, <2>5 DEF TickSelect
    <3>2. m \in 1 .. Counted /\ Got(j) = sent[m] BY <2>1, <2>3, <3>1, GotWhole
    <3>3. m \in 1 .. counter
      <4>1. Counted <= counter /\ Counted \in Nat BY CountedBound
      <4> HIDE DEF m
      <4> QED BY <1>4, <3>2, <4>1
    <3>4. last <= sent[m].rest.sequence
      <4>1. Got(j).rest.sequence \in Nat /\ last \in Int
        BY <2>4, TimerTypes DEF Sample, Rest, None
      <4> HIDE DEF m
      <4> QED BY <2>3, <3>2, <4>1
    <3> HIDE DEF m
    <3> QED BY <1>9, <2>1, <2>3, <3>1, <3>2, <3>3, <3>4
  <2>6. torn' => EachMotionOnce' BY DEF EachMotionOnce
  <2> QED BY <1>4, <1>6, <1>8, <2>1, <2>4, <2>5, <2>6 DEF MotionInv
<1> QED BY <1>10, <1>11

\* MotionInv is inductive on top of RingInv.
LEMMA MotionStep == RingInv /\ MotionInv /\ [Next]_vars => MotionInv'
<1> SUFFICES ASSUME RingInv, MotionInv, [Next]_vars PROVE MotionInv' OBVIOUS
<1>1. CASE Process BY <1>1, ProcessMotion
<1>2. CASE TickBegin \/ TickGetLastK BY <1>2, BeginMotion
<1>3. CASE TickFails \/ TickStale \/ TickLatest BY <1>3, LatestMotion
<1>4. CASE TickOnlyOne \/ TickSelect BY <1>4, SelectMotion
<1>5. CASE (GetCount \/ GetKey \/ GetEnd) /\ UNCHANGED motionVars BY <1>5, CallMotion
<1>6. CASE (Tick /\ UNCHANGED motionVars) \/ UNCHANGED vars
  <2>1. UNCHANGED << slots, counter, writer, reader, sent, arm, last, armed, moves, torn >>
    BY <1>6 DEF Tick, motionVars, vars, ringVars
  <2>2. Counted' = Counted /\ Items' = Items BY <2>1 DEF Counted, Items
  <2>3. MotionTypes' BY <2>1 DEF MotionInv, MotionTypes
  <2>4. ItemsStored' /\ ItemsGot' /\ CallOfArm' /\ SentInOrder'
    BY <2>1, <2>2 DEF MotionInv, ItemsStored, ItemsGot, CallOfArm, SentInOrder, Slot
  <2>5. (~torn => LastSeen /\ LatestSeen /\ MovesBehind)' /\ EachMotionOnce'
    BY <2>1, <2>2, CountedBound, HistoryKept
  <2> QED BY <2>3, <2>4, <2>5 DEF MotionInv
<1> QED BY <1>1, <1>2, <1>3, <1>4, <1>5, <1>6 DEF Next, ArmNode

\* Both invariants hold of the two processes.
LEMMA MotionAlways == Spec => [](RingInv /\ MotionInv)
<1>1. RingInv /\ [RingNext]_ringVars => RingInv' BY RingStep
<1>2. Spec => RingSpec BY UsesRing
<1>3. RingSpec => []RingInv BY RingInitInv, RingStep, PTL DEF RingSpec
<1> QED BY <1>2, <1>3, MotionInitInv, MotionStep, PTL DEF Spec

(* Every variable of the two processes and of the ring buffer keeps its type; *)
(* in particular the timer only ever works with samples, never with a slot   *)
(* that was not written, not even in a copy that ended too late.             *)
THEOREM TypeCorrect == Spec => []TypeOK
<1>1. RingInv /\ MotionInv => TypeOK
  <2> SUFFICES ASSUME RingInv, MotionInv PROVE TypeOK OBVIOUS
  <2>1. RingTypeOK BY DEF RingInv, Types
  <2>2. last \in Int BY TimerTypes DEF None
  <2> QED BY <2>1, <2>2, TimerTypes DEF TypeOK
<1> QED BY MotionAlways, <1>1, PTL

(* timer_callback moves the target at most once for a deflection of the      *)
(* stick, never for an older one after a newer one, and never for one that   *)
(* was polled more than sm_watchdog_sec before, for every size of the        *)
(* buffer, of the window and of the sequence of events, and whenever the     *)
(* process is killed, while no copy is used that ended too late to be whole. *)
THEOREM MotionsOnce == Spec => []EachMotionOnce
<1>1. MotionInv => EachMotionOnce BY DEF MotionInv
<1> QED BY MotionAlways, <1>1, PTL

-----------------------------------------------------------------------------
(* No deflection is passed over. *)

\* What NoMotionLost says of a step.
NotLost ==
    arm.pc = "select" /\ reader.pc = "returned" /\ ~torn' /\ armed /\ last # None =>
        \A n \in DOMAIN sent :
            last < sent[n].motion /\ sent[n].motion <= last' =>
                \/ moves' # moves
                \/ arm.now - sent[n].rest.moved > sm_watchdog_sec
                \/ n - 1 < reader.count - reader.k

\* The timer selects from a whole window.  With a candidate a deflection is
\* applied; without one the newest sample is taken, and a deflection that it
\* passes over was in the window, so it was too old to be a candidate.
LEMMA SelectLosesNothing ==
    ASSUME RingInv, MotionInv, TickSelect
    PROVE  NotLost
<1> SUFFICES ASSUME reader.pc = "returned", ~torn', armed, last # None,
                    NEW n \in DOMAIN sent,
                    last < sent[n].motion, sent[n].motion <= last', moves' = moves,
                    ~(arm.now - sent[n].rest.moved > sm_watchdog_sec),
                    ~(n - 1 < reader.count - reader.k)
             PROVE  FALSE
  BY DEF NotLost
<1>1. /\ sent \in Seq(Sample) /\ Len(sent) \in Nat /\ last \in Nat
      /\ moves \in Seq([motion : Nat, fresh : BOOLEAN])
      /\ reader.k \in 1 .. get_max_k /\ reader.k \in Nat /\ reader.k <= reader.count
      /\ reader.count \in Nat /\ reader.count <= counter /\ counter \in Nat
  BY TimerTypes, RingTypes, Sizes
<1>2. n \in 1 .. Len(sent) /\ sent[n] \in Sample
  <2>1. n \in 1 .. Len(sent) BY <1>1
  <2> QED BY <1>1, <2>1
<1>3. /\ sent[n].motion \in Nat /\ sent[n].rest.sequence \in Nat
      /\ sent[n].rest.received \in Nat
  BY <1>2 DEF Sample, Rest
<1>4. sent[n].motion # 0 BY <1>1, <1>3
<1>5. sent[n].motion = sent[n].rest.sequence /\ sent[n].rest.moved = sent[n].rest.received
  BY <1>4 DEF MotionInv, SentInOrder
<1>6. torn' = (torn \/ reader.late) /\ arm.pc = "select" BY DEF TickSelect
<1>7. ~torn /\ ~reader.late BY <1>6
<1>8. Counted = reader.count BY DEF Counted
<1>9. ASSUME NEW s, s.motion # 0, s.rest.sequence > last, s.rest.sequence \in Nat, Apply(s)
      PROVE  FALSE
  <2>1. last \notin {None, s.rest.sequence} BY <1>1, <1>9
  <2>2. moves' = Append(moves, Move(s)) BY <1>9, <2>1 DEF Apply
  <2>3. Len(moves') = Len(moves) + 1 /\ Len(moves) \in Nat
    <3>1. ASSUME NEW M, moves \in Seq(M), NEW new
          PROVE  Len(Append(moves, new)) = Len(moves) + 1 /\ Len(moves) \in Nat
      BY <3>1
    <3> QED BY <1>1, <2>2, <3>1
  <2> QED BY <2>3
<1>10. CASE Candidates # {}
  <2> DEFINE j == CHOOSE j \in Candidates : \A i \in Candidates : i <= j
  <2>1. Apply(Got(j)) BY <1>10 DEF TickSelect
  <2>2. j \in Candidates BY <1>10, NewestCandidate
  <2> HIDE DEF j
  <2>3. j \in 1 .. reader.k /\ Got(j).rest.sequence > last /\ Got(j).motion # 0
    BY <2>2 DEF Candidates
  <2>4. Got(j) \in Sample BY <2>3, GotSample
  <2>5. Got(j).rest.sequence \in Nat BY <2>4 DEF Sample, Rest
  <2> QED BY <1>9, <2>1, <2>3, <2>5
<1>11. CASE Candidates = {}
  <2>1. Apply(arm.latest) BY <1>11 DEF TickSelect
  <2>2. last' = arm.latest.rest.sequence BY <2>1 DEF Apply
  <2>3. PICK m \in 1 .. Counted : arm.latest = sent[m]
    BY <1>6, <1>7 DEF MotionInv, LatestSeen
  <2>4. CASE n <= reader.count
    <3> DEFINE j == n - (reader.count - reader.k)
    <3>1. j \in 1 .. reader.k /\ reader.count - reader.k + j = n BY <1>1, <1>2, <2>4
    <3> HIDE DEF j
    <3>2. Got(j) = sent[n] BY <1>7, <3>1, GotWhole
    <3>3. sent[n].rest.sequence > last /\ sent[n].rest.moved # None
      BY <1>1, <1>3, <1>5 DEF None
    <3>4. j \in Candidates
      <4>1. arm.now - sent[n].rest.moved <= sm_watchdog_sec
        <5>1. arm.now \in Nat BY TimerTypes
        <5> QED BY <1>3, <1>5, <5>1, WatchdogAssumption
      <4> QED BY <1>4, <3>1, <3>2, <3>3, <4>1 DEF Candidates
    <3> QED BY <1>11, <3>4
  <2>5. CASE n > reader.count
    <3>1. m \in 1 .. n - 1 BY <1>1, <1>2, <1>8, <2>3, <2>5
    <3>2. m \in 1 .. Len(sent) BY <1>1, <1>2, <3>1
    <3>3. sent[m] \in Sample BY <1>1, <3>2
    <3>4. sent[m].rest.sequence \in Nat BY <3>3 DEF Sample, Rest
    <3>5. sent[m].rest.sequence < sent[n].rest.sequence
      BY <1>4, <3>1 DEF MotionInv, SentInOrder
    <3> QED BY <1>3, <1>5, <2>2, <2>3, <3>4, <3>5
  <2> QED BY <1>1, <1>2, <2>4, <2>5
<1> QED BY <1>10, <1>11

(* What _select_spacemouse_motion_sample passes over is too old, or was      *)
(* pushed out of the window by get_max_k newer samples, or a newer deflection *)
(* is applied in its place; whatever the sizes, as long as no copy was used  *)
(* that ended too late.                                                      *)
THEOREM NoneLost == Spec => NoMotionLost
<1>1. RingInv /\ MotionInv /\ [Next]_vars => [NotLost]_vars
  <2> SUFFICES ASSUME RingInv, MotionInv, Next PROVE NotLost BY DEF vars
  <2>1. CASE TickSelect BY <2>1, SelectLosesNothing
  <2>2. CASE TickBegin \/ TickFails \/ TickStale \/ TickLatest \/ TickOnlyOne \/ TickGetLastK
    BY <2>2 DEF TickBegin, TickFails, TickStale, TickLatest, TickOnlyOne, TickGetLastK, NotLost
  <2>3. CASE last' = last
    <3> SUFFICES ASSUME NEW n \in DOMAIN sent, last < sent[n].motion, sent[n].motion <= last
                 PROVE  FALSE
      BY <2>3 DEF NotLost
    <3>1. sent \in Seq(Sample) /\ n \in 1 .. Len(sent) BY TimerTypes
    <3>2. sent[n] \in Sample BY <3>1
    <3>3. sent[n].motion \in Nat /\ last \in Int BY <3>2, TimerTypes DEF Sample, None
    <3> QED BY <3>3
  <2>4. CASE \/ Process
             \/ (GetCount \/ GetKey \/ GetEnd) /\ UNCHANGED motionVars
             \/ Tick /\ UNCHANGED motionVars
    <3>1. last' = last
      BY <2>4 DEF Process, PollNoMotion, PollMotion, Put, motionVars
    <3> QED BY <2>3, <3>1
  <2> QED BY <2>1, <2>2, <2>4 DEF Next, ArmNode
<1> QED BY MotionAlways, <1>1, PTL DEF Spec, NoMotionLost, NotLost
=============================================================================
