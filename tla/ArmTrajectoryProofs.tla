------------------------ MODULE ArmTrajectoryProofs ------------------------
(***************************************************************************)
(* Proofs about the trajectory commands for every instance: the commanded  *)
(* trajectory stays in the order of time and every lookup in it is         *)
(* defined; the assertion of calc_joint_vel never fails; a command neither *)
(* makes the arm jump nor loses a waypoint that is still to come, appending *)
(* keeps what comes before, and no position lies outside what was asked.   *)
(***************************************************************************)
EXTENDS ArmTrajectory, TLAPS, WellFoundedInduction, NaturalsInduction

(* Every nonempty set of naturals has a least element. *)
LEMMA LeastNat ==
    ASSUME NEW S, S \subseteq Nat, S # {}
    PROVE  \E m \in S : \A n \in S : m <= n
<1> DEFINE R == OpToRel(<, Nat)
<1>1. \A m, n \in Nat : << n, m >> \in R <=> n < m
  BY DEF OpToRel
<1>2. IsWellFoundedOn(R, Nat) BY NatLessThanWellFounded
<1> HIDE DEF R
<1>3. PICK m \in S : \A n \in S : ~(<< n, m >> \in R)
  BY <1>2, WFMin
<1>4. \A n \in S : ~(n < m) BY <1>1, <1>3
<1>5. \A n \in S : m <= n BY <1>4
<1> QED BY <1>5

(* The elements of a trajectory. *)
LEMMA PointFact ==
    ASSUME NEW traj \in Seq(Point)
    PROVE  /\ Len(traj) \in Nat
           /\ \A j \in 1 .. Len(traj) :
                 traj[j] \in Point /\ traj[j].timestamp \in Int /\ traj[j].pos \in Int
<1>1. Len(traj) \in Nat /\ \A j \in 1 .. Len(traj) : traj[j] \in Point
  OBVIOUS
<1>2. \A p \in Point : p.timestamp \in Int /\ p.pos \in Int
  BY DEF Point
<1> QED BY <1>1, <1>2

(* The loop that drops leading points stops: what Leading returns. *)
LEMMA LeadingFact ==
    ASSUME NEW traj \in Seq(Point), NEW t \in Int
    PROVE  /\ Leading(traj, t) \in 0 .. Len(traj)
           /\ \A j \in 1 .. Leading(traj, t) : traj[j].timestamp < t
           /\ Leading(traj, t) < Len(traj) => traj[Leading(traj, t) + 1].timestamp >= t
<1> DEFINE Stops(k) == /\ \A j \in 1 .. k : traj[j].timestamp < t
                       /\ k < Len(traj) => traj[k + 1].timestamp >= t
           S == {m \in 1 .. Len(traj) : traj[m].timestamp >= t}
<1>0. Len(traj) \in Nat /\ \A j \in 1 .. Len(traj) : traj[j] \in Point /\ traj[j].timestamp \in Int
  BY PointFact
<1>1. \E k \in 0 .. Len(traj) : Stops(k)
  <2>1. CASE S = {}
    <3>1. \A j \in 1 .. Len(traj) : traj[j].timestamp < t
      BY <1>0, <2>1
    <3>2. Stops(Len(traj)) BY <3>1, <1>0
    <3> QED BY <3>2, <1>0
  <2>2. CASE S # {}
    <3>1. PICK m \in S : \A n \in S : m <= n
      <4>1. S \subseteq Nat BY <1>0
      <4> QED BY <4>1, <2>2, LeastNat
    <3>2. \A j \in 1 .. m - 1 : traj[j].timestamp < t
      BY <3>1, <1>0
    <3>3. m - 1 \in 0 .. Len(traj) /\ Stops(m - 1)
      BY <3>1, <3>2, <1>0
    <3> QED BY <3>3
  <2> QED BY <2>1, <2>2
<1>2. Leading(traj, t) = CHOOSE k \in 0 .. Len(traj) : Stops(k)
  BY DEF Leading
<1> QED BY <1>1, <1>2

(* From and Before as sequences. *)
LEMMA FromFact ==
    ASSUME NEW traj \in Seq(Point), NEW t \in Int
    PROVE  /\ From(traj, t) \in Seq(Point)
           /\ Len(From(traj, t)) = Len(traj) - Leading(traj, t)
           /\ \A i \in 1 .. Len(From(traj, t)) :
                 /\ i + Leading(traj, t) \in 1 .. Len(traj)
                 /\ From(traj, t)[i] = traj[i + Leading(traj, t)]
           /\ From(traj, t) # << >> => From(traj, t)[1].timestamp >= t
<1> DEFINE k == Leading(traj, t)
<1>1. k \in 0 .. Len(traj) /\ Len(traj) \in Nat BY LeadingFact
<1>2. From(traj, t) = SubSeq(traj, k + 1, Len(traj)) BY DEF From
<1> HIDE DEF k
<1>3. /\ SubSeq(traj, k + 1, Len(traj)) \in Seq(Point)
      /\ Len(SubSeq(traj, k + 1, Len(traj))) = Len(traj) - k
      /\ \A i \in 1 .. Len(traj) - k : SubSeq(traj, k + 1, Len(traj))[i] = traj[k + 1 + i - 1]
  BY <1>1
<1>4. k < Len(traj) => traj[k + 1].timestamp >= t BY LeadingFact DEF k
<1>5. /\ From(traj, t) \in Seq(Point)
      /\ Len(From(traj, t)) = Len(traj) - k
      /\ \A i \in 1 .. Len(traj) - k : From(traj, t)[i] = traj[i + k] /\ i + k \in 1 .. Len(traj)
  BY <1>1, <1>2, <1>3
<1>6. From(traj, t) # << >> => k < Len(traj) /\ From(traj, t)[1] = traj[k + 1]
  BY <1>1, <1>5
<1> QED BY <1>1, <1>4, <1>5, <1>6 DEF k

LEMMA BeforeFact ==
    ASSUME NEW traj \in Seq(Point), NEW t \in Int
    PROVE  /\ Before(traj, t) \in Seq(Point)
           /\ Len(Before(traj, t)) = Leading(traj, t)
           /\ Len(Before(traj, t)) <= Len(traj)
           /\ \A i \in 1 .. Len(Before(traj, t)) :
                 Before(traj, t)[i] = traj[i] /\ traj[i].timestamp < t
<1> DEFINE k == Leading(traj, t)
<1>1. k \in 0 .. Len(traj) /\ Len(traj) \in Nat /\ \A j \in 1 .. k : traj[j].timestamp < t
  BY LeadingFact
<1>2. Before(traj, t) = SubSeq(traj, 1, k) BY DEF Before
<1> HIDE DEF k
<1>3. /\ SubSeq(traj, 1, k) \in Seq(Point)
      /\ Len(SubSeq(traj, 1, k)) = k
      /\ \A i \in 1 .. k : SubSeq(traj, 1, k)[i] = traj[i]
  BY <1>1
<1> QED BY <1>1, <1>2, <1>3 DEF k

(* The loop of interpolate finds a segment, and one that takes time. *)
LEMMA LookupFact ==
    ASSUME NEW traj \in Seq(Point), traj # << >>, NEW t \in Int
    PROVE  Defined(traj, t)
<1>0. Len(traj) \in Nat \ {0} /\ \A j \in 1 .. Len(traj) : traj[j].timestamp \in Int
  BY PointFact
<1> SUFFICES ASSUME Len(traj) # 1, t > traj[1].timestamp, t < Final(traj).timestamp
             PROVE  \E i \in 1 .. Len(traj) - 1 :
                       /\ Covers(traj, i, t)
                       /\ \A j \in 1 .. i - 1 : ~Covers(traj, j, t)
                       /\ traj[i].timestamp < traj[i + 1].timestamp
  BY <1>0 DEF Defined, Final
<1> DEFINE S == {j \in 1 .. Len(traj) : traj[j].timestamp >= t}
<1>1. Len(traj) \in S BY <1>0 DEF Final
<1>2. PICK m \in S : \A n \in S : m <= n
  <2>1. S \subseteq Nat BY <1>0
  <2> QED BY <2>1, <1>1, LeastNat
<1>3. m \in 2 .. Len(traj) BY <1>0, <1>2
<1>4. \A j \in 1 .. m - 1 : traj[j].timestamp < t BY <1>0, <1>2
<1>5. Covers(traj, m - 1, t) /\ traj[m - 1].timestamp < traj[m].timestamp
  BY <1>0, <1>2, <1>3, <1>4 DEF Covers
<1>6. \A j \in 1 .. (m - 1) - 1 : ~Covers(traj, j, t)
  BY <1>0, <1>3, <1>4 DEF Covers
<1> QED BY <1>3, <1>5, <1>6

LEMMA InterpolateType ==
    ASSUME NEW traj \in Seq(Point), traj # << >>, NEW t \in Int
    PROVE  interpolate(traj, t) \in Int /\ CurrentState(traj, t) \in Point
<1>0. Len(traj) \in Nat \ {0} /\ \A j \in 1 .. Len(traj) : traj[j].timestamp \in Int /\ traj[j].pos \in Int
  BY PointFact
<1>1. interpolate(traj, t) \in Int
  <2>1. CASE Len(traj) = 1 \/ t <= traj[1].timestamp
    BY <2>1, <1>0 DEF interpolate
  <2>2. CASE ~(Len(traj) = 1 \/ t <= traj[1].timestamp) /\ t >= Final(traj).timestamp
    BY <2>2, <1>0 DEF interpolate, Final
  <2>3. CASE ~(Len(traj) = 1 \/ t <= traj[1].timestamp) /\ ~(t >= Final(traj).timestamp)
    <3> DEFINE i == Segment(traj, t)
    <3>1. PICK h \in 1 .. Len(traj) - 1 :
             /\ Covers(traj, h, t)
             /\ \A j \in 1 .. h - 1 : ~Covers(traj, j, t)
             /\ traj[h].timestamp < traj[h + 1].timestamp
      BY <2>3, LookupFact DEF Defined
    <3>2. /\ i \in 1 .. Len(traj) - 1 /\ Covers(traj, i, t)
          /\ \A j \in 1 .. i - 1 : ~Covers(traj, j, t)
      BY <3>1 DEF Segment
    <3> HIDE DEF i
    <3>3. i = h BY <3>1, <3>2, <1>0
    <3>4. traj[i + 1].timestamp - traj[i].timestamp \in Nat \ {0}
      BY <3>1, <3>3, <1>0
    <3>5. OnSegment(traj[i], traj[i + 1], t) \in Int
      <4> DEFINE d == traj[i + 1].pos - traj[i].pos
                 s == t - traj[i].timestamp
                 w == traj[i + 1].timestamp - traj[i].timestamp
      <4>1. traj[i].pos \in Int /\ d \in Int /\ s \in Int /\ w \in Nat \ {0}
        BY <3>2, <3>4, <1>0
      <4>2. OnSegment(traj[i], traj[i + 1], t) = traj[i].pos + (d * s) \div w
        BY DEF OnSegment
      <4> HIDE DEF d, s, w
      <4>3. d * s \in Int BY <4>1
      <4>4. (d * s) \div w \in Int
        <5> DEFINE x == d * s
        <5>1. x \in Int BY <4>3
        <5> HIDE DEF x
        <5>2. x \div w \in Int BY <4>1, <5>1
        <5> QED BY <5>2 DEF x
      <4> QED BY <4>1, <4>2, <4>4
    <3>6. interpolate(traj, t) = OnSegment(traj[i], traj[i + 1], t)
      BY <2>3 DEF interpolate, i
    <3> QED BY <3>5, <3>6
  <2> QED BY <2>1, <2>2, <2>3
<1> QED BY <1>1 DEF CurrentState, At, Point

-----------------------------------------------------------------------------
(* The updates keep the order of time. *)

LEMMA AscendingParts ==
    ASSUME NEW traj \in Seq(Point), Ascending(traj), NEW t \in Int
    PROVE  Ascending(From(traj, t)) /\ Ascending(Before(traj, t))
<1>0. Len(traj) \in Nat BY PointFact
<1>1. Leading(traj, t) \in 0 .. Len(traj) BY LeadingFact
<1>2. Ascending(From(traj, t))
  <2> DEFINE f == From(traj, t)
             k == Leading(traj, t)
  <2>1. /\ Len(f) = Len(traj) - k
        /\ \A i \in 1 .. Len(f) : i + k \in 1 .. Len(traj) /\ f[i] = traj[i + k]
    BY FromFact
  <2> HIDE DEF f, k
  <2>2. ASSUME NEW i \in 1 .. Len(f) - 1
        PROVE  f[i].timestamp <= f[i + 1].timestamp
    <3>1. k \in 0 .. Len(traj) BY <1>1 DEF k
    <3>2. Len(f) \in Nat /\ i \in Nat BY <1>0, <2>1, <3>1
    <3>3. i \in 1 .. Len(f) /\ i + 1 \in 1 .. Len(f) BY <3>2
    <3>4. f[i] = traj[i + k] /\ f[i + 1] = traj[(i + 1) + k] BY <2>1, <3>3
    <3>5. (i + 1) + k = (i + k) + 1 /\ i + k \in 1 .. Len(traj) - 1
      BY <1>0, <2>1, <3>1, <3>2
    <3> QED BY <3>4, <3>5 DEF Ascending
  <2>3. Ascending(f) BY <2>2 DEF Ascending
  <2> QED BY <2>3 DEF f
<1>3. Ascending(Before(traj, t))
  BY <1>0, <1>1, BeforeFact DEF Ascending
<1> QED BY <1>2, <1>3

(* The elements of one sequence after another. *)
LEMMA ConcatFact ==
    ASSUME NEW a \in Seq(Point), NEW b \in Seq(Point)
    PROVE  /\ a \o b \in Seq(Point)
           /\ Len(a \o b) = Len(a) + Len(b)
           /\ \A i \in 1 .. Len(a) : (a \o b)[i] = a[i]
           /\ \A i \in Len(a) + 1 .. Len(a) + Len(b) : (a \o b)[i] = b[i - Len(a)]
<1>0. Len(a) \in Nat /\ Len(b) \in Nat BY PointFact
<1> QED BY <1>0

LEMMA AscendingConcat ==
    ASSUME NEW a \in Seq(Point), NEW b \in Seq(Point), Ascending(a), Ascending(b),
           a # << >> /\ b # << >> => Final(a).timestamp <= b[1].timestamp
    PROVE  a \o b \in Seq(Point) /\ Ascending(a \o b)
<1>0. Len(a) \in Nat /\ Len(b) \in Nat BY PointFact
<1>1. /\ a \o b \in Seq(Point)
      /\ Len(a \o b) = Len(a) + Len(b)
      /\ \A i \in 1 .. Len(a) : (a \o b)[i] = a[i]
      /\ \A i \in Len(a) + 1 .. Len(a) + Len(b) : (a \o b)[i] = b[i - Len(a)]
  BY ConcatFact
<1>2. ASSUME NEW i \in 1 .. Len(a \o b) - 1
      PROVE  (a \o b)[i].timestamp <= (a \o b)[i + 1].timestamp
  <2>1. CASE i < Len(a)
    BY <2>1, <1>0, <1>1 DEF Ascending
  <2>2. CASE i = Len(a)
    BY <2>2, <1>0, <1>1 DEF Final
  <2>3. CASE i > Len(a)
    <3>1. (a \o b)[i] = b[i - Len(a)] /\ (a \o b)[i + 1] = b[(i - Len(a)) + 1]
      BY <2>3, <1>0, <1>1
    <3>2. i - Len(a) \in 1 .. Len(b) - 1 BY <2>3, <1>0, <1>1
    <3> QED BY <3>1, <3>2 DEF Ascending
  <2> QED BY <2>1, <2>2, <2>3, <1>0
<1> QED BY <1>1, <1>2 DEF Ascending

LEMMA SinglePoint ==
    ASSUME NEW p \in Point
    PROVE  /\ << p >> \in Seq(Point) /\ Ascending(<< p >>)
           /\ << p >> # << >> /\ Len(<< p >>) = 1 /\ << p >>[1] = p /\ Final(<< p >>) = p
BY DEF Ascending, Final

LEMMA TwoPoints ==
    ASSUME NEW p \in Point, NEW q \in Point, p.timestamp <= q.timestamp
    PROVE  << p, q >> \in Seq(Point) /\ Ascending(<< p, q >>) /\ << p, q >> # << >>
BY DEF Ascending

LEMMA CurrentFact ==
    ASSUME NEW traj \in Seq(Point), traj # << >>, NEW t \in Int
    PROVE  CurrentState(traj, t) \in Point /\ CurrentState(traj, t).timestamp = t
BY InterpolateType DEF CurrentState, At

LEMMA OverrideWaypointFact ==
    ASSUME NEW traj \in Seq(Point), NEW t \in Int, NEW w \in Point,
           ~WaypointRefused(traj, t, w)
    PROVE  LET new == override_waypoint(traj, t, w)
           IN  new \in Seq(Point) /\ new # << >> /\ Ascending(new)
<1>1. traj # << >> /\ w.timestamp \in Int /\ t < w.timestamp
  BY DEF WaypointRefused, Point
<1>2. CurrentState(traj, t) \in Point /\ CurrentState(traj, t).timestamp = t
  BY <1>1, CurrentFact
<1> QED BY <1>1, <1>2, TwoPoints DEF override_waypoint

LEMMA AppendWaypointFact ==
    ASSUME NEW traj \in Seq(Point), Ascending(traj), NEW t \in Int, NEW w \in Point,
           ~WaypointRefused(traj, t, w)
    PROVE  LET new == append_waypoint(traj, t, w)
           IN  new \in Seq(Point) /\ new # << >> /\ Ascending(new)
<1> DEFINE c == CurrentState(traj, t)
           f == From(traj, t + 1)
           b == Before(f, w.timestamp + 1)
<1>1. traj # << >> /\ w.timestamp \in Int /\ t < w.timestamp
  BY DEF WaypointRefused, Point
<1>2. c \in Point /\ c.timestamp = t BY <1>1, CurrentFact
<1>3. /\ f \in Seq(Point) /\ Ascending(f)
      /\ f # << >> => f[1].timestamp >= t + 1
  <2>1. t + 1 \in Int OBVIOUS
  <2> HIDE DEF f
  <2>2. f \in Seq(Point) /\ (f # << >> => f[1].timestamp >= t + 1)
    BY <2>1, FromFact DEF f
  <2>3. Ascending(f) BY <2>1, AscendingParts DEF f
  <2> QED BY <2>2, <2>3
<1>4. /\ b \in Seq(Point) /\ Ascending(b)
      /\ \A i \in 1 .. Len(b) : b[i] = f[i] /\ b[i].timestamp < w.timestamp + 1
  <2>1. w.timestamp + 1 \in Int BY <1>1
  <2> HIDE DEF f, b
  <2>2. b \in Seq(Point) /\ \A i \in 1 .. Len(b) : b[i] = f[i] /\ f[i].timestamp < w.timestamp + 1
    BY <2>1, <1>3, BeforeFact DEF b
  <2>3. Ascending(b) BY <2>1, <1>3, AscendingParts DEF b
  <2> QED BY <2>2, <2>3
<1>5. append_waypoint(traj, t, w) = (<< c >> \o b) \o << w >>
  BY DEF append_waypoint
<1> HIDE DEF c, b
<1>6. b # << >> => Len(b) \in Nat \ {0} /\ b[1].timestamp \in Int /\ Final(b).timestamp \in Int
  BY <1>4, PointFact DEF Final
<1>7. b # << >> => t <= b[1].timestamp /\ Final(b).timestamp <= w.timestamp
  <2>1. SUFFICES ASSUME b # << >> PROVE t <= b[1].timestamp /\ Final(b).timestamp <= w.timestamp
    OBVIOUS
  <2>2. 1 \in 1 .. Len(b) /\ Len(b) \in 1 .. Len(b) BY <2>1, <1>6
  <2>3. f # << >> /\ b[1] = f[1] BY <2>1, <2>2, <1>3, <1>4, BeforeFact, <1>1 DEF b
  <2>4. Final(b).timestamp < w.timestamp + 1 BY <2>2, <1>4 DEF Final
  <2> QED BY <2>1, <2>3, <2>4, <1>1, <1>3, <1>6
<1>8. << c >> \o b \in Seq(Point) /\ Ascending(<< c >> \o b)
  BY <1>2, <1>4, <1>7, SinglePoint, AscendingConcat
<1>9. << c >> \o b # << >> /\ Final(<< c >> \o b) = IF b = << >> THEN c ELSE Final(b)
  BY <1>2, <1>4, PointFact DEF Final
<1>10. Final(<< c >> \o b).timestamp <= w.timestamp
  BY <1>9, <1>7, <1>2, <1>1
<1>11. (<< c >> \o b) \o << w >> \in Seq(Point) /\ Ascending((<< c >> \o b) \o << w >>)
  BY <1>8, <1>10, SinglePoint, AscendingConcat
<1>12. (<< c >> \o b) \o << w >> # << >>
  BY <1>8, <1>9
<1> QED BY <1>5, <1>11, <1>12

LEMMA OverrideTrajFact ==
    ASSUME NEW traj \in Seq(Point), NEW t \in Int, NEW new \in Seq(Point),
           ~TrajRefused(traj, t, new), ~TrajIgnored(t, new)
    PROVE  LET res == override_traj(traj, t, new)
           IN  res \in Seq(Point) /\ res # << >> /\ Ascending(res)
<1> DEFINE c == CurrentState(traj, t)
           p == From(new, t)
<1>1. traj # << >> /\ p # << >> /\ Ascending(p)
  BY DEF TrajRefused, TrajIgnored, Pending
<1>2. c \in Point /\ c.timestamp = t BY <1>1, CurrentFact
<1>3. p \in Seq(Point) /\ p[1].timestamp >= t BY <1>1, FromFact
<1>4. override_traj(traj, t, new) = << c >> \o p BY DEF override_traj, Pending
<1> HIDE DEF c, p
<1>5. p[1].timestamp \in Int BY <1>1, <1>3, PointFact
<1>6. << c >> \o p \in Seq(Point) /\ Ascending(<< c >> \o p)
  BY <1>1, <1>2, <1>3, <1>5, SinglePoint, AscendingConcat
<1>7. << c >> \o p # << >> BY <1>2, <1>3, PointFact
<1> QED BY <1>4, <1>6, <1>7

LEMMA AppendTrajFact ==
    ASSUME NEW traj \in Seq(Point), Ascending(traj), NEW t \in Int, NEW new \in Seq(Point),
           ~TrajRefused(traj, t, new), ~TrajIgnored(t, new)
    PROVE  LET res == append_traj(traj, t, new)
           IN  res \in Seq(Point) /\ res # << >> /\ Ascending(res)
<1> DEFINE c == CurrentState(traj, t)
           p == From(new, t)
           b == Before(traj, p[1].timestamp)
           k == From(b, t + 1)
<1>1. traj # << >> /\ p # << >> /\ Ascending(p)
  BY DEF TrajRefused, TrajIgnored, Pending
<1>2. c \in Point /\ c.timestamp = t BY <1>1, CurrentFact
<1>3. p \in Seq(Point) /\ p[1].timestamp >= t BY <1>1, FromFact
<1>4. p[1].timestamp \in Int BY <1>1, <1>3, PointFact
<1>5. append_traj(traj, t, new) = (<< c >> \o k) \o p BY DEF append_traj, Pending
<1>6. /\ b \in Seq(Point) /\ Ascending(b)
      /\ \A i \in 1 .. Len(b) : b[i].timestamp < p[1].timestamp
  <2> DEFINE end == p[1].timestamp
  <2>1. end \in Int BY <1>4
  <2> HIDE DEF end, p
  <2>2. Before(traj, end) \in Seq(Point)
    BY <2>1, BeforeFact
  <2>3. \A i \in 1 .. Len(Before(traj, end)) : Before(traj, end)[i].timestamp < end
    BY <2>1, BeforeFact
  <2>4. Ascending(Before(traj, end)) BY <2>1, AscendingParts
  <2> QED BY <2>2, <2>3, <2>4 DEF end
<1>7. /\ k \in Seq(Point) /\ Ascending(k)
      /\ k # << >> => k[1].timestamp >= t + 1
      /\ \A i \in 1 .. Len(k) : k[i].timestamp < p[1].timestamp
  <2>1. t + 1 \in Int OBVIOUS
  <2> HIDE DEF b, k, p
  <2>2. /\ k \in Seq(Point) /\ (k # << >> => k[1].timestamp >= t + 1)
        /\ \A i \in 1 .. Len(k) : i + Leading(b, t + 1) \in 1 .. Len(b) /\ k[i] = b[i + Leading(b, t + 1)]
    BY <1>6, <2>1, FromFact DEF k
  <2>3. Ascending(k) BY <1>6, <2>1, AscendingParts DEF k
  <2> QED BY <1>6, <2>2, <2>3
<1> HIDE DEF c, p, b, k
<1>8. k # << >> => /\ Len(k) \in Nat \ {0} /\ k[1].timestamp \in Int
                   /\ Final(k).timestamp \in Int /\ Final(k).timestamp < p[1].timestamp
  BY <1>7, PointFact DEF Final
<1>9. << c >> \o k \in Seq(Point) /\ Ascending(<< c >> \o k)
  <2>1. k # << >> => c.timestamp <= k[1].timestamp BY <1>2, <1>7, <1>8
  <2>2. k \in Seq(Point) /\ Ascending(k) BY <1>7
  <2> QED BY <1>2, <2>1, <2>2, SinglePoint, AscendingConcat
<1>10. << c >> \o k # << >> /\ Final(<< c >> \o k) = IF k = << >> THEN c ELSE Final(k)
  <2>1. k \in Seq(Point) /\ Len(k) \in Nat BY <1>7, PointFact
  <2> QED BY <1>2, <2>1 DEF Final
<1>11. Final(<< c >> \o k).timestamp <= p[1].timestamp
  BY <1>10, <1>8, <1>2, <1>3, <1>4
<1>12. (<< c >> \o k) \o p \in Seq(Point) /\ Ascending((<< c >> \o k) \o p)
  BY <1>1, <1>3, <1>9, <1>11, AscendingConcat
<1>13. (<< c >> \o k) \o p # << >>
  BY <1>3, <1>9, <1>10
<1> QED BY <1>5, <1>12, <1>13

-----------------------------------------------------------------------------
(* calc_joint_vel. *)

StrictlyAscending(traj) ==
    \A i, j \in 1 .. Len(traj) : i < j => traj[i].timestamp < traj[j].timestamp

(* The while loop that advances one index stops, and where. *)
LEMMA AdvanceFact ==
    ASSUME NEW traj \in Seq(Point), NEW from \in Nat \ {0}, NEW last \in Nat,
           NEW ahead \in {0, 1}, NEW bound \in Int,
           from <= last, last + ahead <= Len(traj)
    PROVE  LET k == Advance(traj, from, last, ahead, bound)
           IN  /\ k \in from .. last
               /\ \A j \in from .. k - 1 : traj[j + ahead].timestamp < bound
               /\ k < last => traj[k + ahead].timestamp >= bound
<1> DEFINE Stops(k) == /\ \A j \in from .. k - 1 : traj[j + ahead].timestamp < bound
                       /\ k < last => traj[k + ahead].timestamp >= bound
           S == {k \in from .. last : k < last => traj[k + ahead].timestamp >= bound}
<1>0. Len(traj) \in Nat /\ \A j \in 1 .. Len(traj) : traj[j].timestamp \in Int
  BY PointFact
<1>1. last \in S OBVIOUS
<1>2. PICK k \in S : \A n \in S : k <= n
  <2>1. S \subseteq Nat OBVIOUS
  <2> QED BY <1>1, <2>1, LeastNat
<1>3. ASSUME NEW j \in from .. k - 1
      PROVE  traj[j + ahead].timestamp < bound
  <2>1. j \notin S BY <1>2
  <2>2. j \in from .. last /\ j < last /\ j + ahead \in 1 .. Len(traj) BY <1>0, <1>2
  <2> QED BY <1>0, <2>1, <2>2
<1>4. k \in from .. last /\ Stops(k) BY <1>2, <1>3
<1>5. Advance(traj, from, last, ahead, bound) = CHOOSE m \in from .. last : Stops(m)
  BY DEF Advance
<1> QED BY <1>4, <1>5

(* What one pass knows of the indices of the pass before. *)
IndexOK(traj, i, idx4) ==
    /\ idx4[1] \in 1 .. Len(traj) - 1 /\ idx4[2] \in 1 .. Len(traj) - 1
    /\ idx4[3] \in 1 .. Len(traj) /\ idx4[4] \in 1 .. Len(traj)
    /\ idx4[1] = 1 \/ traj[idx4[1]].timestamp < traj[i].timestamp - 2 * Half
    /\ idx4[2] = 1 \/ traj[idx4[2]].timestamp < traj[i].timestamp - Half
    /\ idx4[3] = 1 \/ traj[idx4[3] - 1].timestamp < traj[i].timestamp + Half

WindowOK(traj, idx4) ==
    /\ idx4[1] <= idx4[2] /\ idx4[2] < idx4[3] /\ idx4[3] <= idx4[4]

LEMMA PassFact ==
    ASSUME TrajectoryAssumption,
           NEW traj \in Seq(Point), Len(traj) >= 2, StrictlyAscending(traj),
           NEW i \in 1 .. Len(traj), NEW idx4, IndexOK(traj, i, idx4)
    PROVE  LET res == calc_joint_vel(traj, i, idx4, Half)
           IN  IndexOK(traj, i, res) /\ WindowOK(traj, res)
                 /\ res \in Indices \X Indices \X Indices \X Indices
<1> DEFINE t == traj[i].timestamp
           n == Len(traj)
           a == Advance(traj, idx4[1], n - 1, 1, t - 2 * Half)
           b == Advance(traj, idx4[2], n - 1, 1, t - Half)
           c == Advance(traj, idx4[3], n, 0, t + Half)
           d == Advance(traj, idx4[4], n, 0, t + 2 * Half)
<1>0. n \in Nat /\ n >= 2 /\ (\A j \in 1 .. n : traj[j].timestamp \in Int) /\ t \in Int
      /\ Half \in Nat /\ Half > 0 /\ i \in 1 .. n
  BY PointFact DEF TrajectoryAssumption
<1>1. calc_joint_vel(traj, i, idx4, Half) = << a, b, c, d >> BY DEF calc_joint_vel
<1>2. /\ idx4[1] \in Nat \ {0} /\ idx4[1] <= n - 1 /\ idx4[2] \in Nat \ {0} /\ idx4[2] <= n - 1
      /\ idx4[3] \in Nat \ {0} /\ idx4[3] <= n /\ idx4[4] \in Nat \ {0} /\ idx4[4] <= n
  <2>1. /\ idx4[1] \in 1 .. n - 1 /\ idx4[2] \in 1 .. n - 1
        /\ idx4[3] \in 1 .. n /\ idx4[4] \in 1 .. n
    BY DEF IndexOK
  <2>2. \A k \in Int : (k \in 1 .. n - 1 => k \in Nat \ {0} /\ k <= n - 1)
                       /\ (k \in 1 .. n => k \in Nat \ {0} /\ k <= n)
    BY <1>0
  <2> HIDE DEF n
  <2> QED BY <2>1, <2>2, <1>0
<1>3. /\ idx4[1] = 1 \/ traj[idx4[1]].timestamp < t - 2 * Half
      /\ idx4[2] = 1 \/ traj[idx4[2]].timestamp < t - Half
      /\ idx4[3] = 1 \/ traj[idx4[3] - 1].timestamp < t + Half
  BY DEF IndexOK
<1>4. \A p, q \in 1 .. n : p < q => traj[p].timestamp < traj[q].timestamp
  BY DEF StrictlyAscending
<1>a. /\ a \in idx4[1] .. n - 1
      /\ \A j \in idx4[1] .. a - 1 : traj[j + 1].timestamp < t - 2 * Half
  <2>1. t - 2 * Half \in Int /\ n - 1 \in Nat /\ (n - 1) + 1 <= n BY <1>0
  <2> HIDE DEF n, t
  <2> QED BY <1>2, <2>1, AdvanceFact DEF n
<1>b. /\ b \in idx4[2] .. n - 1
      /\ \A j \in idx4[2] .. b - 1 : traj[j + 1].timestamp < t - Half
      /\ b < n - 1 => traj[b + 1].timestamp >= t - Half
  <2>1. t - Half \in Int /\ n - 1 \in Nat /\ (n - 1) + 1 <= n BY <1>0
  <2> HIDE DEF n, t
  <2> QED BY <1>2, <2>1, AdvanceFact DEF n
<1>c. /\ c \in idx4[3] .. n
      /\ \A j \in idx4[3] .. c - 1 : traj[j + 0].timestamp < t + Half
      /\ c < n => traj[c + 0].timestamp >= t + Half
  <2>1. t + Half \in Int /\ n + 0 <= n BY <1>0
  <2> HIDE DEF n, t
  <2> QED BY <1>0, <1>2, <2>1, AdvanceFact DEF n
<1>d. /\ d \in idx4[4] .. n
      /\ d < n => traj[d + 0].timestamp >= t + 2 * Half
  <2>1. t + 2 * Half \in Int /\ n + 0 <= n BY <1>0
  <2> HIDE DEF n, t
  <2> QED BY <1>0, <1>2, <2>1, AdvanceFact DEF n
<1> HIDE DEF a, b, c, d
<1>5. a \in 1 .. n - 1 /\ b \in 1 .. n - 1 /\ c \in 1 .. n /\ d \in 1 .. n
  <2>1. a \in 1 .. n - 1 BY <1>0, <1>2, <1>a
  <2>2. b \in 1 .. n - 1 BY <1>0, <1>2, <1>b
  <2>3. c \in 1 .. n BY <1>0, <1>2, <1>c
  <2>4. d \in 1 .. n BY <1>0, <1>2, <1>d
  <2> QED BY <2>1, <2>2, <2>3, <2>4
<1>6. a = 1 \/ traj[a].timestamp < t - 2 * Half
  <2>1. CASE a = idx4[1] BY <2>1, <1>3
  <2>2. CASE a # idx4[1]
    <3>1. a - 1 \in idx4[1] .. a - 1 BY <2>2, <1>a, <1>2, <1>0
    <3>2. traj[(a - 1) + 1].timestamp < t - 2 * Half BY <3>1, <1>a
    <3> QED BY <3>2, <1>5
  <2> QED BY <2>1, <2>2
<1>7. b = 1 \/ traj[b].timestamp < t - Half
  <2>1. CASE b = idx4[2] BY <2>1, <1>3
  <2>2. CASE b # idx4[2]
    <3>1. b - 1 \in idx4[2] .. b - 1 BY <2>2, <1>b, <1>2, <1>0
    <3>2. traj[(b - 1) + 1].timestamp < t - Half BY <3>1, <1>b
    <3> QED BY <3>2, <1>5
  <2> QED BY <2>1, <2>2
<1>8. c = 1 \/ traj[c - 1].timestamp < t + Half
  <2>1. CASE c = idx4[3] BY <2>1, <1>3
  <2>2. CASE c # idx4[3]
    <3>1. c - 1 \in idx4[3] .. c - 1 BY <2>2, <1>c, <1>2, <1>0
    <3>2. traj[(c - 1) + 0].timestamp < t + Half BY <3>1, <1>c
    <3> QED BY <3>2, <1>5
  <2> QED BY <2>1, <2>2
<1>9. a <= b
  <2>1. SUFFICES ASSUME b < a PROVE FALSE BY <1>5
  <2>2. b < n - 1 /\ b + 1 \in 1 .. n /\ a \in 1 .. n /\ a # 1 BY <2>1, <1>5, <1>0
  <2>3. traj[b + 1].timestamp >= t - Half BY <2>2, <1>b
  <2>4. traj[a].timestamp < t - 2 * Half BY <2>2, <1>6
  <2>5. traj[b + 1].timestamp <= traj[a].timestamp
    <3>1. CASE b + 1 = a BY <3>1, <2>2, <1>0
    <3>2. CASE b + 1 < a BY <3>2, <2>2, <1>4, <1>0
    <3> QED BY <3>1, <3>2, <2>1, <2>2, <1>5
  <2>6. t \in Int /\ Half \in Nat /\ Half > 0 BY <1>0
  <2>7. traj[b + 1].timestamp \in Int /\ traj[a].timestamp \in Int BY <2>2, <1>0
  <2> HIDE DEF t, n
  <2> QED BY <2>3, <2>4, <2>5, <2>6, <2>7
<1>10. b < c
  <2>1. SUFFICES ASSUME c <= b PROVE FALSE BY <1>5
  <2>2. c < n /\ b \in 1 .. n BY <2>1, <1>5, <1>0
  <2>3. traj[c + 0].timestamp >= t + Half /\ c + 0 = c BY <2>2, <1>c, <1>5
  <2>4. traj[c].timestamp <= traj[b].timestamp BY <2>1, <2>2, <1>4, <1>5, <1>0
  <2>5. CASE b = 1
    <3>1. traj[1].timestamp <= t BY <1>4, <1>0
    <3> QED BY <3>1, <2>5, <2>2, <2>3, <2>4, <1>5, <1>0
  <2>6. CASE b # 1
    <3>1. /\ traj[b].timestamp \in Int /\ traj[c].timestamp \in Int
          /\ traj[b].timestamp < t - Half /\ traj[c].timestamp >= t + Half
      BY <2>6, <2>2, <2>3, <1>7, <1>5, <1>0
    <3>2. t - Half < t + Half BY <1>0
    <3> HIDE DEF t, n
    <3> QED BY <3>1, <3>2, <2>4, <1>0
  <2> QED BY <2>5, <2>6
<1>11. c <= d
  <2>1. SUFFICES ASSUME d < c PROVE FALSE BY <1>5
  <2>2. d < n /\ c # 1 /\ c - 1 \in 1 .. n BY <2>1, <1>5, <1>0
  <2>3. traj[d + 0].timestamp >= t + 2 * Half /\ d + 0 = d BY <2>2, <1>d, <1>5
  <2>4. traj[c - 1].timestamp < t + Half BY <2>2, <1>8
  <2>5. traj[d].timestamp <= traj[c - 1].timestamp
    <3>1. CASE c - 1 = d BY <3>1, <2>2, <1>0
    <3>2. CASE d < c - 1 BY <3>2, <2>2, <1>4, <1>5, <1>0
    <3> QED BY <3>1, <3>2, <2>1, <2>2, <1>5
  <2>6. /\ traj[d].timestamp \in Int /\ traj[c - 1].timestamp \in Int
        /\ traj[d].timestamp >= t + 2 * Half
    BY <2>2, <2>3, <1>5, <1>0
  <2>7. t + Half < t + 2 * Half BY <1>0
  <2> HIDE DEF t, n
  <2> QED BY <2>4, <2>5, <2>6, <2>7, <1>0
<1>12. IndexOK(traj, i, << a, b, c, d >>)
  BY <1>5, <1>6, <1>7, <1>8 DEF IndexOK
<1>13. WindowOK(traj, << a, b, c, d >>)
  BY <1>9, <1>10, <1>11 DEF WindowOK
<1>14. << a, b, c, d >> \in Indices \X Indices \X Indices \X Indices
  BY <1>5, <1>0 DEF Indices
<1> QED BY <1>1, <1>12, <1>13, <1>14

-----------------------------------------------------------------------------
(* The inductive invariant. *)

PlanOK ==
    /\ Ascending(plan)
    /\ client # "interpolator" => plan # << >>

BuiltOK ==
    pc \in {"collect", "velocity", "lockTraj"} =>
        Len(built) >= 3 /\ StrictlyAscending(built)

\* While the waypoints are collected the last point is the latest one so far.
CollectOK ==
    pc = "collect" =>
        IF prevStamp = 0 THEN Final(built).timestamp = start
        ELSE Final(built).timestamp = prevStamp

\* Outside calc_joint_vel its indices are the first ones.
FreshOK == pc \notin {"velocity", "lockTraj"} => idx = FirstIdx

PassOK ==
    pc = "velocity" => /\ pass \in 1 .. Len(built)
                       /\ IndexOK(built, pass, idx) /\ WindowOK(built, idx)

ClientOK == pc # "idle" => client # "interpolator"

IInv == TypeOK /\ PlanOK /\ BuiltOK /\ CollectOK /\ FreshOK /\ PassOK /\ ClientOK

LEMMA WaypointType == ASSUME TrajectoryAssumption PROVE Waypoints \subseteq Point
<1>1. Positions \subseteq Int /\ StampSet \subseteq Int BY DEF TrajectoryAssumption
<1>2. ASSUME NEW w \in [pos : Positions, timestamp : StampSet]
      PROVE  w \in [pos : Int, timestamp : Int]
  <2>1. w = [pos |-> w.pos, timestamp |-> w.timestamp] /\ w.pos \in Int /\ w.timestamp \in Int
    BY <1>1
  <2> QED BY <2>1
<1> QED BY <1>2 DEF Waypoints, Point

LEMMA PointType == ASSUME NEW p \in Int, NEW t \in Int
                   PROVE At(p, t) \in Point /\ At(p, t).timestamp = t
BY DEF At, Point

LEMMA InitOK == ASSUME TrajectoryAssumption, Init PROVE IInv
<1>1. StartTime \in Nat \ {0} /\ \A p \in Positions : p \in Int
  BY DEF TrajectoryAssumption
<1>2. plan \in Seq(Point) /\ PlanOK
  <2>1. CASE client = "interpolator"
    <3>1. plan = << >> BY <2>1 DEF Init
    <3> QED BY <3>1, <2>1 DEF PlanOK, Ascending
  <2>2. CASE client # "interpolator"
    <3>1. PICK p \in Positions : plan = << At(p, StartTime) >>
      BY <2>2 DEF Init, init_fixed
    <3>2. At(p, StartTime) \in Point BY <1>1, PointType
    <3> QED BY <3>1, <3>2, SinglePoint DEF PlanOK
  <2> QED BY <2>1, <2>2
<1>3. Nowhere \in Point BY PointType DEF Nowhere
<1> QED BY <1>1, <1>2, <1>3
  DEF Init, IInv, TypeOK, BuiltOK, CollectOK, FreshOK, PassOK, ClientOK, FirstIdx, Indices

(* Steps that end a command: the locals are reset. *)
LEMMA ResetOK ==
    ASSUME TypeOK, Reset
    PROVE  /\ start' \in Nat /\ todo' \in Seq(Point) /\ built' \in Seq(Point)
           /\ prevStamp' \in Int /\ target' \in Point
           /\ pass' \in Nat /\ idx' \in Indices \X Indices \X Indices \X Indices
<1>1. Nowhere \in Point BY PointType DEF Nowhere
<1> QED BY <1>1 DEF Reset, FirstIdx, Indices

(* A step that changes neither the trajectory under construction nor the    *)
(* place in it keeps what is known of it.                                   *)
LEMMA IdleOK ==
    ASSUME IInv, TypeOK', PlanOK', ClientOK', FreshOK',
           pc' \notin {"collect", "velocity", "lockTraj"}
    PROVE  IInv'
BY DEF IInv, BuiltOK, CollectOK, PassOK

LEMMA ClockSteps ==
    ASSUME TrajectoryAssumption, IInv, Tick \/ BgReadClock \/ BgLookup
    PROVE  IInv'
<1>1. UNCHANGED << client, plan, pc, locals, commands >> /\ now' \in Nat \ {0} /\ bgStamp' \in Nat
  BY DEF Tick, BgReadClock, BgLookup, IInv, TypeOK
<1> QED BY <1>1 DEF IInv, TypeOK, PlanOK, BuiltOK, CollectOK, PassOK, ClientOK, FreshOK, Reset, locals

LEMMA StampType ==
    ASSUME TrajectoryAssumption, TypeOK, NEW w \in Point, client \in Clients
    PROVE  WithStamp(w) \in Point
<1>1. Preview[client] \in Nat BY DEF TrajectoryAssumption
<1>2. now + Preview[client] \in Int BY <1>1 DEF TypeOK
<1> QED BY <1>2 DEF WithStamp, Point

LEMMA WaypointSteps ==
    ASSUME TrajectoryAssumption, IInv,
           \/ \E w \in Waypoints : set_joint_cmd(w) \/ set_eef_cmd(w)
           \/ SolveCmd \/ reset_to_home \/ HomeReached \/ HomeRefused
    PROVE  IInv'
<1> USE DEF IInv
<1>0. /\ now \in Nat /\ HomeWait \in Nat /\ client \in Clients
  BY DEF TypeOK, TrajectoryAssumption
<1>h. At(0, now + HomeWait) \in Point BY <1>0, PointType
<1>1. ASSUME NEW w \in Waypoints, set_joint_cmd(w) PROVE IInv'
  <2>1. WithStamp(w) \in Point BY StampType, WaypointType, <1>0
  <2>2. TypeOK' BY <1>1, <2>1 DEF set_joint_cmd, Begin, TypeOK
  <2>3. PlanOK' BY <1>1 DEF set_joint_cmd, PlanOK
  <2>4. ClientOK' /\ FreshOK' /\ pc' = "lockCmd" BY <1>1 DEF set_joint_cmd, Begin, ClientOK, FreshOK, Reset, locals
  <2> QED BY <2>2, <2>3, <2>4, IdleOK
<1>2. ASSUME NEW w \in Waypoints, set_eef_cmd(w) PROVE IInv'
  <2>1. w \in Point BY WaypointType
  <2>2. TypeOK' BY <1>2, <2>1 DEF set_eef_cmd, Begin, TypeOK
  <2>3. PlanOK' BY <1>2 DEF set_eef_cmd, PlanOK
  <2>4. ClientOK' /\ FreshOK' /\ pc' = "solveCmd" BY <1>2 DEF set_eef_cmd, Begin, ClientOK, FreshOK, Reset, locals
  <2> QED BY <2>2, <2>3, <2>4, IdleOK
<1>3. ASSUME SolveCmd PROVE IInv'
  <2>1. WithStamp(target) \in Point BY StampType, <1>0 DEF TypeOK
  <2>2. TypeOK'
    <3>1. CASE pc' = "idle" /\ Reset
      BY <3>1, <1>3, ResetOK DEF SolveCmd, TypeOK
    <3>2. CASE target' = WithStamp(target) /\ pc' = "lockCmd"
                 /\ UNCHANGED << start, todo, built, prevStamp, pass, idx >>
      BY <3>2, <1>3, <2>1 DEF SolveCmd, TypeOK
    <3> QED BY <3>1, <3>2, <1>3 DEF SolveCmd
  <2>3. PlanOK' BY <1>3 DEF SolveCmd, PlanOK
  <2>4. ClientOK' /\ FreshOK' /\ pc' \in {"idle", "lockCmd"} BY <1>3 DEF SolveCmd, ClientOK, FreshOK, Reset, locals
  <2> QED BY <2>2, <2>3, <2>4, IdleOK
<1>4. ASSUME reset_to_home PROVE IInv'
  <2>2. TypeOK' BY <1>4, <1>h DEF reset_to_home, Begin, TypeOK
  <2>3. PlanOK' BY <1>4 DEF reset_to_home, PlanOK
  <2>4. ClientOK' /\ FreshOK' /\ pc' = "lockHome" BY <1>4 DEF reset_to_home, Begin, ClientOK, FreshOK, Reset, locals, Controllers
  <2> QED BY <2>2, <2>3, <2>4, IdleOK
<1>5. ASSUME HomeReached PROVE IInv'
  <2>2. TypeOK' BY <1>5, <1>h DEF HomeReached, TypeOK
  <2>3. PlanOK' BY <1>5 DEF HomeReached, PlanOK
  <2>4. ClientOK' /\ FreshOK' /\ pc' = "lockCmd" BY <1>5 DEF HomeReached, ClientOK, FreshOK, Reset, locals
  <2> QED BY <2>2, <2>3, <2>4, IdleOK
<1>6. ASSUME HomeRefused PROVE IInv'
  <2>1. pc' = "idle" /\ Reset /\ plan' = plan BY <1>6 DEF HomeRefused
  <2>2. TypeOK' BY <1>6, <2>1, ResetOK DEF HomeRefused, TypeOK
  <2>3. PlanOK' BY <1>6 DEF HomeRefused, PlanOK
  <2>4. ClientOK' /\ FreshOK' BY <1>6 DEF HomeRefused, ClientOK, FreshOK, Reset, locals
  <2> QED BY <2>1, <2>2, <2>3, <2>4, IdleOK
<1> QED BY <1>1, <1>2, <1>3, <1>4, <1>5, <1>6

(* The steps that install a new trajectory. *)
LEMMA LockCmdStep ==
    ASSUME TrajectoryAssumption, IInv, LockCmd
    PROVE  IInv'
<1> USE DEF IInv
<1>0. now \in Int /\ target \in Point /\ plan \in Seq(Point) /\ PlanOK
  BY DEF TypeOK
<1>1. plan' \in Seq(Point) /\ Ascending(plan') /\ (plan # << >> => plan' # << >>)
  <2>1. CASE plan' = init_fixed(target)
    BY <2>1, <1>0, SinglePoint DEF init_fixed
  <2>2. CASE plan' = plan
    BY <2>2, <1>0 DEF PlanOK
  <2>3. CASE ~WaypointRefused(plan, now, target) /\ plan' = override_waypoint(plan, now, target)
    BY <2>3, <1>0, OverrideWaypointFact
  <2> QED BY <2>1, <2>2, <2>3 DEF LockCmd
<1>2. TypeOK' BY <1>1, ResetOK DEF LockCmd, TypeOK
<1>3. PlanOK' BY <1>1 DEF LockCmd, PlanOK
<1>4. ClientOK' /\ FreshOK' /\ pc' = "idle" BY DEF LockCmd, ClientOK, FreshOK, Reset, locals
<1> QED BY <1>2, <1>3, <1>4, IdleOK

LEMMA LockHomeStep ==
    ASSUME TrajectoryAssumption, IInv, LockHome
    PROVE  IInv'
<1> USE DEF IInv
<1>0. now \in Nat /\ target \in Point /\ target.timestamp \in Int /\ \A p \in Positions : p \in Int
  BY DEF TypeOK, TrajectoryAssumption, Point
<1>1. CASE target.timestamp <= now
  <2>1. plan' = plan /\ pc' = "idle" /\ Reset BY <1>1 DEF LockHome
  <2>2. TypeOK' BY <2>1, ResetOK DEF LockHome, TypeOK
  <2>3. PlanOK' BY <2>1 DEF LockHome, PlanOK
  <2>4. ClientOK' /\ FreshOK' BY <2>1 DEF LockHome, ClientOK, FreshOK, Reset, locals
  <2> QED BY <2>1, <2>2, <2>3, <2>4, IdleOK
<1>2. CASE ~(target.timestamp <= now)
  <2>1. PICK p \in Positions : plan' = << At(p, now), target >>
    BY <1>2 DEF LockHome, init
  <2>2. At(p, now) \in Point /\ At(p, now).timestamp = now BY <1>0, PointType
  <2>3. plan' \in Seq(Point) /\ Ascending(plan') /\ plan' # << >>
    BY <1>0, <1>2, <2>1, <2>2, TwoPoints
  <2>4. pc' = "homing" /\ UNCHANGED locals BY <1>2 DEF LockHome
  <2>5. TypeOK' BY <2>3, <2>4 DEF LockHome, TypeOK, locals
  <2>6. PlanOK' BY <2>3 DEF LockHome, PlanOK
  <2>7. ClientOK' /\ FreshOK' BY <2>4 DEF LockHome, ClientOK, FreshOK, Reset, locals
  <2> QED BY <2>4, <2>5, <2>6, <2>7, IdleOK
<1> QED BY <1>1, <1>2

LEMMA DampingStep ==
    ASSUME TrajectoryAssumption, IInv, set_to_damping
    PROVE  IInv'
<1> USE DEF IInv
<1>0. now \in Nat /\ \A p \in Positions : p \in Int
  BY DEF TypeOK, TrajectoryAssumption
<1>1. PICK p \in Positions : plan' = << At(p, now) >> BY DEF set_to_damping, init_fixed
<1>2. plan' \in Seq(Point) /\ Ascending(plan') /\ plan' # << >>
  BY <1>0, <1>1, PointType, SinglePoint
<1>3. TypeOK' BY <1>2 DEF set_to_damping, Begin, TypeOK, locals
<1>4. PlanOK' BY <1>2 DEF PlanOK
<1>5. ClientOK' /\ FreshOK' /\ pc' = "idle" BY DEF set_to_damping, Begin, ClientOK, FreshOK, Reset, locals
<1> QED BY <1>3, <1>4, <1>5, IdleOK

LEMMA UseSteps ==
    ASSUME TrajectoryAssumption, IInv,
           \/ \E p \in Positions, w \in Waypoints : UseInit(p, w)
           \/ \E w \in Waypoints : UseWaypoint(w)
           \/ \E new \in Trajs : UseTraj(new)
    PROVE  IInv'
<1> USE DEF IInv
<1>0. /\ now \in Nat /\ plan \in Seq(Point) /\ Ascending(plan)
      /\ \A p \in Positions : p \in Int
      /\ \A new \in Trajs : new \in Seq(Point)
      /\ \A w \in Waypoints : w \in Point /\ w.timestamp \in Int
  BY WaypointType DEF TypeOK, TrajectoryAssumption, PlanOK, Point
<1>1. /\ client = "interpolator" /\ client' = client /\ pc = "idle"
      /\ commands' = commands + 1 /\ UNCHANGED << now, bgStamp, pc, locals >>
  BY DEF UseInit, UseWaypoint, UseTraj, Begin
<1>2. plan' \in Seq(Point) /\ Ascending(plan')
  <2>1. ASSUME NEW p \in Positions, NEW w \in Waypoints, UseInit(p, w)
        PROVE  plan' \in Seq(Point) /\ Ascending(plan')
    <3>1. CASE w.timestamp <= now BY <3>1, <2>1, <1>0 DEF UseInit
    <3>2. CASE ~(w.timestamp <= now)
      <4>1. plan' = << At(p, now), w >> BY <3>2, <2>1 DEF UseInit, init
      <4>2. At(p, now) \in Point /\ At(p, now).timestamp = now BY <1>0, PointType
      <4> QED BY <4>1, <4>2, <3>2, <1>0, TwoPoints
    <3> QED BY <3>1, <3>2
  <2>2. ASSUME NEW w \in Waypoints, UseWaypoint(w)
        PROVE  plan' \in Seq(Point) /\ Ascending(plan')
    <3>1. CASE WaypointRefused(plan, now, w) BY <3>1, <2>2, <1>0 DEF UseWaypoint
    <3>2. CASE ~WaypointRefused(plan, now, w)
      BY <3>2, <2>2, <1>0, OverrideWaypointFact, AppendWaypointFact DEF UseWaypoint
    <3> QED BY <3>1, <3>2
  <2>3. ASSUME NEW new \in Trajs, UseTraj(new)
        PROVE  plan' \in Seq(Point) /\ Ascending(plan')
    <3>1. CASE TrajRefused(plan, now, new) \/ TrajIgnored(now, new)
      BY <3>1, <2>3, <1>0 DEF UseTraj
    <3>2. CASE ~(TrajRefused(plan, now, new) \/ TrajIgnored(now, new))
      BY <3>2, <2>3, <1>0, OverrideTrajFact, AppendTrajFact DEF UseTraj
    <3> QED BY <3>1, <3>2
  <2> QED BY <2>1, <2>2, <2>3
<1>3. TypeOK' BY <1>1, <1>2 DEF TypeOK, locals
<1>4. PlanOK' BY <1>1, <1>2 DEF PlanOK
<1>5. ClientOK' /\ FreshOK' /\ pc' = "idle" BY <1>1 DEF ClientOK, FreshOK, Reset, locals
<1> QED BY <1>3, <1>4, <1>5, IdleOK

(* The steps of set_joint_traj and set_eef_traj. *)
LEMMA BeginTrajStep ==
    ASSUME TrajectoryAssumption, IInv, NEW new \in Trajs, BeginTraj(new)
    PROVE  IInv'
<1> USE DEF IInv
<1>0. /\ now \in Nat \ {0} /\ plan \in Seq(Point) /\ plan # << >> /\ new \in Seq(Point)
      /\ Half \in Nat \ {0} /\ pc = "idle" /\ client # "interpolator"
  BY DEF TypeOK, PlanOK, TrajectoryAssumption, BeginTraj, Begin, Controllers
<1>1. CASE now - 2 * Window <= 0
  <2>1. UNCHANGED << pc, locals, client, now, plan, bgStamp >> /\ commands' = commands + 1
    BY <1>1 DEF BeginTraj, Begin
  <2>2. TypeOK' BY <2>1 DEF TypeOK, locals
  <2>3. PlanOK' /\ ClientOK' /\ FreshOK' /\ pc' = "idle" BY <2>1, <1>0 DEF PlanOK, ClientOK, FreshOK, Reset, locals
  <2> QED BY <2>2, <2>3, IdleOK
<1>2. CASE ~(now - 2 * Window <= 0)
  <2> DEFINE p == CurrentState(plan, now - 2 * Window)
             q == CurrentState(plan, now - Window)
             r == CurrentState(plan, now)
  <2>1. /\ p \in Point /\ p.timestamp = now - 4 * Half
        /\ q \in Point /\ q.timestamp = now - 2 * Half
        /\ r \in Point /\ r.timestamp = now
    BY <1>0, CurrentFact DEF Window
  <2>2. /\ built' = << p, q, r >> /\ start' = now /\ todo' = new /\ prevStamp' = 0
        /\ pc' = "collect" /\ UNCHANGED << client, now, plan, bgStamp, target, pass, idx >>
        /\ commands' = commands + 1
    BY <1>2 DEF BeginTraj, Begin
  <2> HIDE DEF p, q, r
  <2>3. /\ << p, q, r >> \in Seq(Point) /\ Len(<< p, q, r >>) = 3
        /\ Final(<< p, q, r >>) = r
    BY <2>1 DEF Final
  <2>4. StrictlyAscending(<< p, q, r >>)
    <3>1. SUFFICES ASSUME NEW i \in 1 .. 3, NEW j \in 1 .. 3, i < j
                   PROVE  << p, q, r >>[i].timestamp < << p, q, r >>[j].timestamp
      BY <2>3 DEF StrictlyAscending
    <3>2. (i = 1 /\ j = 2) \/ (i = 1 /\ j = 3) \/ (i = 2 /\ j = 3) BY <3>1
    <3> QED BY <3>2, <2>1, <1>0
  <2>5. TypeOK' BY <1>0, <2>2, <2>3 DEF TypeOK
  <2>6. PlanOK' /\ ClientOK' /\ FreshOK' BY <1>0, <2>2 DEF PlanOK, ClientOK, FreshOK, Reset, locals
  <2>7. BuiltOK' BY <2>2, <2>3, <2>4 DEF BuiltOK
  <2>8. CollectOK'
    <3>1. idx = FirstIdx BY <1>0 DEF FreshOK
    <3> QED BY <2>1, <2>2, <2>3, <3>1 DEF CollectOK
  <2>9. PassOK' BY <2>2 DEF PassOK
  <2> QED BY <2>5, <2>6, <2>7, <2>8, <2>9
<1> QED BY <1>1, <1>2

LEMMA AppendStrict ==
    ASSUME NEW traj \in Seq(Point), traj # << >>, StrictlyAscending(traj),
           NEW w \in Point, Final(traj).timestamp < w.timestamp
    PROVE  /\ Append(traj, w) \in Seq(Point) /\ Len(Append(traj, w)) = Len(traj) + 1
           /\ Final(Append(traj, w)) = w /\ StrictlyAscending(Append(traj, w))
<1> DEFINE new == Append(traj, w)
           n == Len(traj)
<1>1. /\ n \in Nat \ {0} /\ new \in Seq(Point) /\ Len(new) = n + 1
      /\ (\A i \in 1 .. n : new[i] = traj[i]) /\ new[n + 1] = w
      /\ w.timestamp \in Int /\ \A i \in 1 .. n : traj[i].timestamp \in Int
  BY PointFact DEF Point
<1>2. \A i \in 1 .. n : traj[i].timestamp <= traj[n].timestamp
  BY <1>1 DEF StrictlyAscending
<1> HIDE DEF new
<1>3. ASSUME NEW i \in 1 .. n + 1, NEW j \in 1 .. n + 1, i < j
      PROVE  new[i].timestamp < new[j].timestamp
  <2>1. CASE j <= n BY <2>1, <1>1, <1>3 DEF StrictlyAscending
  <2>2. CASE j = n + 1
    <3>1. i \in 1 .. n /\ new[i] = traj[i] /\ new[j] = w BY <2>2, <1>1, <1>3
    <3>2. traj[n].timestamp < w.timestamp BY DEF Final
    <3>3. traj[i].timestamp \in Int /\ traj[n].timestamp \in Int BY <1>1, <3>1
    <3> QED BY <3>1, <3>2, <3>3, <1>1, <1>2
  <2> QED BY <2>1, <2>2, <1>1
<1> QED BY <1>1, <1>3 DEF StrictlyAscending, Final, new

LEMMA CollectStep ==
    ASSUME TrajectoryAssumption, IInv, Collect
    PROVE  IInv'
<1> USE DEF IInv
<1> DEFINE w == Head(todo)
<1>0. /\ pc = "collect" /\ todo \in Seq(Point) /\ todo # << >> /\ w \in Point /\ w.timestamp \in Int
      /\ Tail(todo) \in Seq(Point) /\ start \in Nat /\ prevStamp \in Int
      /\ built \in Seq(Point) /\ Len(built) >= 3 /\ StrictlyAscending(built) /\ idx = FirstIdx
      /\ UNCHANGED << client, now, plan, bgStamp, commands >>
  <2>1. pc = "collect" /\ todo # << >> /\ UNCHANGED << client, now, plan, bgStamp, commands >>
    BY DEF Collect
  <2>2. w \in Point /\ Tail(todo) \in Seq(Point) BY <2>1 DEF TypeOK
  <2>3. w.timestamp \in Int BY <2>2 DEF Point
  <2> QED BY <2>1, <2>2, <2>3 DEF TypeOK, BuiltOK, FreshOK
<1>1. PlanOK' BY <1>0 DEF PlanOK
<1>2. CASE /\ todo' = Tail(todo) /\ UNCHANGED << pc, start, target, pass, idx >>
           /\ UNCHANGED << built, prevStamp >>
  <2>1. TypeOK' BY <1>0, <1>2 DEF TypeOK
  <2>2. BuiltOK' /\ CollectOK' /\ PassOK' /\ ClientOK' /\ FreshOK'
    BY <1>0, <1>2 DEF BuiltOK, CollectOK, PassOK, ClientOK, FreshOK, Reset, locals
  <2> QED BY <1>1, <2>1, <2>2
<1>3. CASE pc' = "idle" /\ Reset
  <2>1. TypeOK' BY <1>0, <1>3, ResetOK DEF TypeOK
  <2>2. ClientOK' /\ FreshOK' BY <1>0, <1>3 DEF ClientOK, FreshOK, Reset, locals
  <2> QED BY <1>1, <1>3, <2>1, <2>2, IdleOK
<1>4. CASE /\ w.timestamp > start /\ w.timestamp > prevStamp
           /\ todo' = Tail(todo) /\ UNCHANGED << pc, start, target, pass, idx >>
           /\ built' = Append(built, w) /\ prevStamp' = w.timestamp
  <2>1. Final(built).timestamp < w.timestamp
    BY <1>0, <1>4 DEF CollectOK
  <2>2. /\ built' \in Seq(Point) /\ Len(built') = Len(built) + 1 /\ Final(built') = w
        /\ StrictlyAscending(built')
    BY <1>0, <1>4, <2>1, AppendStrict
  <2>3. TypeOK' BY <1>0, <1>4, <2>2 DEF TypeOK
  <2>4. BuiltOK' BY <1>0, <1>4, <2>2 DEF BuiltOK
  <2>5. CollectOK'
    <3>1. prevStamp' # 0 /\ idx' = FirstIdx BY <1>0, <1>4
    <3> HIDE DEF w
    <3> QED BY <3>1, <1>4, <2>2 DEF CollectOK
  <2>6. PassOK' /\ ClientOK' /\ FreshOK' BY <1>0, <1>4 DEF PassOK, ClientOK, FreshOK, Reset, locals
  <2> QED BY <1>1, <2>3, <2>4, <2>5, <2>6
<1>5. (w.timestamp <= start) \/ (w.timestamp > start) BY <1>0
<1>6. (w.timestamp <= prevStamp) \/ (w.timestamp > prevStamp) BY <1>0
<1> QED BY <1>2, <1>3, <1>4, <1>5, <1>6 DEF Collect

LEMMA VelocitySteps ==
    ASSUME TrajectoryAssumption, IInv, Collected \/ NextVelocity
    PROVE  IInv'
<1> USE DEF IInv
<1>0. /\ built \in Seq(Point) /\ Len(built) \in Nat /\ Len(built) >= 3 /\ StrictlyAscending(built)
      /\ Half \in Nat \ {0} /\ \A j \in 1 .. Len(built) : built[j].timestamp \in Int
  <2>1. pc \in {"collect", "velocity"} BY DEF Collected, NextVelocity
  <2>2. built \in Seq(Point) BY DEF TypeOK
  <2> QED BY <2>1, <2>2, PointFact DEF BuiltOK, TrajectoryAssumption
<1>1. UNCHANGED << client, now, plan, bgStamp, start, todo, built, prevStamp, target, commands >>
      /\ pc' = "velocity"
  BY DEF Collected, NextVelocity
<1>2. /\ pass' \in 1 .. Len(built) /\ IndexOK(built, pass', idx') /\ WindowOK(built, idx')
      /\ idx' \in Indices \X Indices \X Indices \X Indices
  <2>1. CASE Collected
    <3>1. IndexOK(built, 1, FirstIdx) BY <1>0 DEF IndexOK, FirstIdx
    <3>2. pass' = 1 /\ idx' = calc_joint_vel(built, 1, FirstIdx, Half) BY <2>1 DEF Collected
    <3>3. 1 \in 1 .. Len(built) /\ Len(built) >= 2 BY <1>0
    <3> QED BY <1>0, <3>1, <3>2, <3>3, PassFact
  <2>2. CASE NextVelocity
    <3>1. /\ pc = "velocity" /\ pass < Len(built) /\ pass' = pass + 1
          /\ idx' = calc_joint_vel(built, pass + 1, idx, Half)
      BY <2>2 DEF NextVelocity
    <3>2. pass \in 1 .. Len(built) /\ IndexOK(built, pass, idx) BY <3>1 DEF PassOK
    <3>3. pass + 1 \in 1 .. Len(built) /\ Len(built) >= 2 BY <1>0, <3>1, <3>2
    <3>4. /\ built[pass].timestamp < built[pass + 1].timestamp
          /\ built[pass].timestamp \in Int /\ built[pass + 1].timestamp \in Int
      BY <1>0, <3>2, <3>3 DEF StrictlyAscending
    <3>5. IndexOK(built, pass + 1, idx)
      <4>1. /\ idx[1] \in 1 .. Len(built) - 1 /\ idx[2] \in 1 .. Len(built) - 1
            /\ idx[3] \in 1 .. Len(built) /\ idx[4] \in 1 .. Len(built)
        BY <3>2 DEF IndexOK
      <4>2. idx[1] = 1 \/ built[idx[1]].timestamp < built[pass + 1].timestamp - 2 * Half
        <5>1. idx[1] = 1 \/ built[idx[1]].timestamp < built[pass].timestamp - 2 * Half
          BY <3>2 DEF IndexOK
        <5>2. built[idx[1]].timestamp \in Int /\ Half \in Int BY <4>1, <1>0
        <5> QED BY <5>1, <5>2, <3>4
      <4>3. idx[2] = 1 \/ built[idx[2]].timestamp < built[pass + 1].timestamp - Half
        <5>1. idx[2] = 1 \/ built[idx[2]].timestamp < built[pass].timestamp - Half
          BY <3>2 DEF IndexOK
        <5>2. built[idx[2]].timestamp \in Int /\ Half \in Int BY <4>1, <1>0
        <5> QED BY <5>1, <5>2, <3>4
      <4>4. idx[3] = 1 \/ built[idx[3] - 1].timestamp < built[pass + 1].timestamp + Half
        <5>1. idx[3] = 1 \/ built[idx[3] - 1].timestamp < built[pass].timestamp + Half
          BY <3>2 DEF IndexOK
        <5>2. idx[3] # 1 => idx[3] - 1 \in 1 .. Len(built) BY <4>1, <1>0
        <5>3. idx[3] # 1 => built[idx[3] - 1].timestamp \in Int BY <5>2, <1>0
        <5>4. Half \in Int BY <1>0
        <5> QED BY <5>1, <5>3, <5>4, <3>4
      <4> QED BY <4>1, <4>2, <4>3, <4>4 DEF IndexOK
    <3> QED BY <1>0, <3>1, <3>3, <3>5, PassFact
  <2> QED BY <2>1, <2>2
<1>3. TypeOK' BY <1>1, <1>2, <1>0 DEF TypeOK
<1>4. PlanOK' /\ ClientOK' BY <1>1 DEF PlanOK, ClientOK, Collected, NextVelocity
<1>5. BuiltOK' /\ CollectOK' /\ FreshOK' BY <1>0, <1>1 DEF BuiltOK, CollectOK, FreshOK
<1>6. PassOK' BY <1>1, <1>2 DEF PassOK
<1> QED BY <1>3, <1>4, <1>5, <1>6

LEMMA TrajSteps ==
    ASSUME TrajectoryAssumption, IInv, VelocityDone \/ LockTraj
    PROVE  IInv'
<1> USE DEF IInv
<1>1. CASE VelocityDone
  <2>1. /\ pc = "velocity" /\ pc' = "lockTraj" /\ start' = now
        /\ UNCHANGED << client, now, plan, bgStamp, todo, built, prevStamp, target, pass, idx, commands >>
    BY <1>1 DEF VelocityDone
  <2>2. TypeOK' BY <2>1 DEF TypeOK
  <2>3. PlanOK' /\ ClientOK' BY <2>1 DEF PlanOK, ClientOK
  <2>4. BuiltOK' /\ CollectOK' /\ FreshOK' /\ PassOK'
    BY <2>1 DEF BuiltOK, CollectOK, FreshOK, PassOK
  <2> QED BY <2>2, <2>3, <2>4
<1>2. CASE LockTraj
  <2>1. /\ pc' = "idle" /\ Reset /\ UNCHANGED << client, now, bgStamp, commands >>
    BY <1>2 DEF LockTraj
  <2>2. TrajTime \in Int /\ plan \in Seq(Point) /\ built \in Seq(Point) /\ Ascending(plan)
    BY DEF TrajTime, TypeOK, PlanOK
  <2>3. plan' \in Seq(Point) /\ Ascending(plan') /\ (plan # << >> => plan' # << >>)
    <3>1. CASE TrajRefused(plan, TrajTime, built) \/ TrajIgnored(TrajTime, built)
      BY <3>1, <1>2, <2>2 DEF LockTraj
    <3>2. CASE ~(TrajRefused(plan, TrajTime, built) \/ TrajIgnored(TrajTime, built))
      <4>1. plan' = override_traj(plan, TrajTime, built) BY <3>2, <1>2 DEF LockTraj
      <4> QED BY <4>1, <3>2, <2>2, OverrideTrajFact
    <3> QED BY <3>1, <3>2
  <2>4. TypeOK' BY <2>1, <2>3, ResetOK DEF TypeOK
  <2>5. PlanOK' BY <2>1, <2>3 DEF PlanOK
  <2>6. ClientOK' /\ FreshOK' BY <2>1 DEF ClientOK, FreshOK, Reset
  <2> QED BY <2>1, <2>4, <2>5, <2>6, IdleOK
<1> QED BY <1>1, <1>2

LEMMA NextOK == ASSUME TrajectoryAssumption, IInv, [Next]_vars PROVE IInv'
<1>1. CASE UNCHANGED vars
  BY <1>1 DEF vars, locals, IInv, TypeOK, PlanOK, BuiltOK, CollectOK, FreshOK, PassOK, ClientOK
<1>2. CASE Next
  BY <1>2, ClockSteps, WaypointSteps, LockCmdStep, LockHomeStep, DampingStep, UseSteps,
     BeginTrajStep, CollectStep, VelocitySteps, TrajSteps DEF Next
<1> QED BY <1>1, <1>2

(* Every behaviour of the commands and the clock keeps the invariant.       *)
THEOREM Inductive == ASSUME TrajectoryAssumption PROVE Spec => []IInv
<1>1. Init => IInv BY InitOK
<1>2. IInv /\ [Next]_vars => IInv' BY NextOK
<1> QED BY <1>1, <1>2, PTL DEF Spec

(* The variables stay in their types: interpolate always returns a position *)
(* and never the undefined result of a division by zero.                    *)
THEOREM TypeCorrect == ASSUME TrajectoryAssumption PROVE Spec => []TypeOK
<1>1. IInv => TypeOK BY DEF IInv
<1> QED BY <1>1, Inductive, PTL

(* Looking up a position never throws in the background thread and never    *)
(* divides by zero, for every trajectory, time stamp and order of calls.    *)
THEOREM LookupsDefined == ASSUME TrajectoryAssumption PROVE Spec => []LookupDefined
<1>1. IInv => LookupDefined
  <2>1. SUFFICES ASSUME IInv PROVE LookupDefined OBVIOUS
  <2>2. plan \in Seq(Point) /\ PlanOK BY <2>1 DEF IInv, TypeOK
  <2>3. ASSUME plan # << >>, NEW t \in 1 .. MaxTime PROVE Defined(plan, t)
    <3>1. t \in Int OBVIOUS
    <3> QED BY <2>2, <2>3, <3>1, LookupFact
  <2> QED BY <2>2, <2>3 DEF LookupDefined, PlanOK
<1> QED BY <1>1, Inductive, PTL

(* The assertion in calc_joint_vel holds for every trajectory the checks of *)
(* set_joint_traj and set_eef_traj let through, whatever its length.        *)
THEOREM AssertionHolds == ASSUME TrajectoryAssumption PROVE Spec => []VelocityWindows
<1>1. IInv => VelocityWindows
  <2>1. SUFFICES ASSUME IInv, pc = "velocity" PROVE VelocityWindows
    BY DEF VelocityWindows
  <2>2. /\ StrictlyAscending(built) /\ IndexOK(built, pass, idx) /\ WindowOK(built, idx)
        /\ Len(built) \in Nat
    BY <2>1, PointFact DEF IInv, TypeOK, BuiltOK, PassOK
  <2>3. /\ idx[1] \in 1 .. Len(built) /\ idx[2] \in 1 .. Len(built)
        /\ idx[3] \in 1 .. Len(built) /\ idx[4] \in 1 .. Len(built)
        /\ idx[1] <= idx[2] /\ idx[2] < idx[3] /\ idx[3] <= idx[4]
    BY <2>2 DEF IndexOK, WindowOK
  <2>4. idx[1] < idx[4] /\ idx[4] <= Len(built) BY <2>2, <2>3
  <2> QED BY <2>2, <2>3, <2>4 DEF VelocityWindows, StrictlyAscending
<1> QED BY <1>1, Inductive, PTL

-----------------------------------------------------------------------------
(* Where a trajectory leads. *)

(* Ascending says it of neighbours; so it holds of any two points.          *)
LEMMA AscendingAll ==
    ASSUME NEW traj \in Seq(Point), Ascending(traj),
           NEW i \in 1 .. Len(traj), NEW j \in 1 .. Len(traj), i <= j
    PROVE  traj[i].timestamp <= traj[j].timestamp
<1>0. Len(traj) \in Nat /\ \A h \in 1 .. Len(traj) : traj[h].timestamp \in Int
  BY PointFact
<1> DEFINE S == {h \in i .. Len(traj) : traj[h].timestamp < traj[i].timestamp}
<1>1. SUFFICES ASSUME S # {} PROVE FALSE BY <1>0
<1>2. PICK m \in S : \A n \in S : m <= n
  <2>1. S \subseteq Nat BY <1>0
  <2> QED BY <1>1, <2>1, LeastNat
<1>3. m # i /\ m - 1 \in i .. Len(traj) /\ m - 1 \in 1 .. Len(traj) - 1 BY <1>0, <1>2
<1>4. m - 1 \notin S BY <1>0, <1>2, <1>3
<1>5. traj[m - 1].timestamp >= traj[i].timestamp BY <1>0, <1>3, <1>4
<1>6. traj[m - 1].timestamp <= traj[(m - 1) + 1].timestamp BY <1>3 DEF Ascending
<1>7. (m - 1) + 1 = m /\ m \in 1 .. Len(traj) BY <1>0, <1>2
<1> QED BY <1>0, <1>2, <1>3, <1>5, <1>6, <1>7

(* Just after the time of a point, and before that of the next one, the     *)
(* position is the point's.                                                 *)
LEMMA AfterPoint ==
    ASSUME NEW traj \in Seq(Point), Ascending(traj), NEW j \in 1 .. Len(traj),
           j = Len(traj) \/ traj[j + 1].timestamp > traj[j].timestamp
    PROVE  After(traj, traj[j].timestamp) = traj[j].pos
<1> DEFINE t == traj[j].timestamp
<1>0. /\ Len(traj) \in Nat /\ j \in Nat
      /\ \A h \in 1 .. Len(traj) : traj[h].timestamp \in Int /\ traj[h].pos \in Int
  BY PointFact
<1>1. 1 \in 1 .. Len(traj) /\ 1 <= j /\ t \in Int /\ traj[1].timestamp \in Int BY <1>0
<1>2. traj[1].timestamp <= t BY <1>0, <1>1, AscendingAll
<1>3. CASE j = Len(traj)
  BY <1>0, <1>1, <1>2, <1>3 DEF After, Final
<1>4. CASE j # Len(traj)
  <2> DEFINE k == Leading(traj, t + 1)
  <2>1. t + 1 \in Int BY <1>1
  <2>2. /\ k \in 0 .. Len(traj) /\ \A h \in 1 .. k : traj[h].timestamp < t + 1
        /\ k < Len(traj) => traj[k + 1].timestamp >= t + 1
    <3> HIDE DEF t
    <3> QED BY <2>1, LeadingFact
  <2> HIDE DEF k, t
  <2>3. j + 1 \in 1 .. Len(traj) /\ traj[j + 1].timestamp > t BY <1>0, <1>4 DEF t
  <2>4. k <= j
    <3> SUFFICES ASSUME j + 1 <= k PROVE FALSE BY <1>0, <2>2
    <3>1. j + 1 \in 1 .. k BY <1>0, <2>2
    <3> QED BY <1>0, <1>1, <2>2, <2>3, <3>1
  <2>5. k >= j
    <3> SUFFICES ASSUME k < j PROVE FALSE BY <1>0, <2>2
    <3>1. k + 1 \in 1 .. Len(traj) /\ k + 1 <= j BY <1>0, <2>2
    <3>2. traj[k + 1].timestamp <= t BY <3>1, AscendingAll DEF t
    <3>3. traj[k + 1].timestamp >= t + 1 BY <1>0, <2>2
    <3> QED BY <1>0, <1>1, <3>1, <3>2, <3>3
  <2>6. k = j BY <1>0, <2>2, <2>4, <2>5
  <2>7. Final(traj).timestamp > t
    <3>1. Len(traj) \in 1 .. Len(traj) /\ j + 1 <= Len(traj) BY <1>0, <2>3
    <3>2. traj[j + 1].timestamp <= Final(traj).timestamp
      BY <2>3, <3>1, AscendingAll DEF Final
    <3> QED BY <1>0, <1>1, <2>3, <3>1, <3>2 DEF Final
  <2>8. OnSegment(traj[j], traj[j + 1], t) = traj[j].pos
    <3> DEFINE d == traj[j + 1].pos - traj[j].pos
               w == traj[j + 1].timestamp - traj[j].timestamp
    <3>1. t - traj[j].timestamp = 0 /\ traj[j].pos \in Int BY <1>0, <1>1 DEF t
    <3>2. d \in Int /\ w \in Int /\ w > 0 BY <1>0, <2>3 DEF t
    <3> HIDE DEF d, w
    <3>3. d * 0 = 0 BY <3>2
    <3>4. 0 \div w = 0 BY <3>2
    <3> QED BY <3>1, <3>3, <3>4 DEF OnSegment, d, w
  <2>9. Final(traj).timestamp \in Int BY <1>0 DEF Final
  <2>10. After(traj, t) = OnSegment(traj[k], traj[k + 1], t)
    <3>1. ~(t < traj[1].timestamp) /\ ~(t >= Final(traj).timestamp)
      BY <1>1, <1>2, <2>7, <2>9 DEF t
    <3> QED BY <3>1 DEF After, k
  <2> QED BY <2>6, <2>8, <2>10 DEF t
<1> QED BY <1>3, <1>4

(* A time at which a trajectory has a point: the last point of that time.   *)
LEMMA LastPointAt ==
    ASSUME NEW traj \in Seq(Point), Ascending(traj), NEW i \in 1 .. Len(traj)
    PROVE  \E j \in 1 .. Len(traj) :
              /\ i <= j /\ traj[j].timestamp = traj[i].timestamp
              /\ j = Len(traj) \/ traj[j + 1].timestamp > traj[j].timestamp
<1> DEFINE t == traj[i].timestamp
           k == Leading(traj, t + 1)
<1>0. /\ Len(traj) \in Nat /\ i \in Nat
      /\ \A h \in 1 .. Len(traj) : traj[h].timestamp \in Int
  BY PointFact
<1>1. t \in Int /\ t + 1 \in Int BY <1>0
<1>2. /\ k \in 0 .. Len(traj) /\ \A h \in 1 .. k : traj[h].timestamp < t + 1
      /\ k < Len(traj) => traj[k + 1].timestamp >= t + 1
  <2> HIDE DEF t
  <2> QED BY <1>1, LeadingFact
<1> HIDE DEF k
<1>3. k >= i
  <2> SUFFICES ASSUME k < i PROVE FALSE BY <1>0, <1>2
  <2>1. k + 1 \in 1 .. Len(traj) /\ k + 1 <= i BY <1>0, <1>2
  <2>2. traj[k + 1].timestamp <= t BY <2>1, AscendingAll
  <2> QED BY <1>0, <1>1, <1>2, <2>1, <2>2
<1>4. k \in 1 .. Len(traj) BY <1>0, <1>2, <1>3
<1>5. traj[k].timestamp = t
  <2>1. t <= traj[k].timestamp BY <1>3, <1>4, AscendingAll
  <2>2. traj[k].timestamp < t + 1 /\ traj[k].timestamp \in Int BY <1>0, <1>2, <1>4
  <2> QED BY <1>1, <2>1, <2>2
<1>6. k = Len(traj) \/ traj[k + 1].timestamp > traj[k].timestamp
  <2> SUFFICES ASSUME k < Len(traj) PROVE traj[k + 1].timestamp > traj[k].timestamp
    BY <1>0, <1>4
  <2>1. k + 1 \in 1 .. Len(traj) BY <1>0, <1>4
  <2> QED BY <1>0, <1>1, <1>2, <1>5, <2>1
<1> QED BY <1>3, <1>4, <1>5, <1>6

(* The elements of a new trajectory: one point, some old ones, new ones.    *)
LEMMA PartsFact ==
    ASSUME NEW c \in Point, NEW b \in Seq(Point), NEW e \in Seq(Point)
    PROVE  LET new == (<< c >> \o b) \o e
           IN  /\ Len(b) \in Nat /\ Len(e) \in Nat
               /\ Len(new) = 1 + Len(b) + Len(e) /\ new[1] = c
               /\ \A i \in 1 .. Len(b) : new[i + 1] = b[i]
               /\ \A i \in 1 .. Len(e) : new[i + 1 + Len(b)] = e[i]
<1>0. Len(b) \in Nat /\ Len(e) \in Nat BY PointFact
<1> DEFINE a == << c >> \o b
<1>1. /\ a \in Seq(Point) /\ Len(a) = 1 + Len(b) /\ a[1] = c
      /\ \A i \in 1 .. Len(b) : a[i + 1] = b[i]
  BY <1>0
<1> HIDE DEF a
<1>2. /\ Len(a \o e) = Len(a) + Len(e)
      /\ \A i \in 1 .. Len(a) : (a \o e)[i] = a[i]
      /\ \A i \in 1 .. Len(e) : (a \o e)[i + Len(a)] = e[i]
  <2>1. /\ Len(a \o e) = Len(a) + Len(e)
        /\ \A i \in 1 .. Len(a) : (a \o e)[i] = a[i]
        /\ \A i \in Len(a) + 1 .. Len(a) + Len(e) : (a \o e)[i] = e[i - Len(a)]
    BY <1>1, ConcatFact
  <2>2. ASSUME NEW i \in 1 .. Len(e) PROVE (a \o e)[i + Len(a)] = e[i]
    <3>1. i + Len(a) \in Len(a) + 1 .. Len(a) + Len(e) /\ (i + Len(a)) - Len(a) = i
      BY <1>0, <1>1
    <3> QED BY <2>1, <3>1
  <2> QED BY <2>1, <2>2
<1>3. \A i \in 1 .. Len(e) : (a \o e)[i + 1 + Len(b)] = e[i]
  <2> SUFFICES ASSUME NEW i \in 1 .. Len(e) PROVE (a \o e)[i + 1 + Len(b)] = e[i] OBVIOUS
  <2>1. i + 1 + Len(b) = i + Len(a) BY <1>0, <1>1
  <2> QED BY <1>2, <2>1
<1>4. \A i \in 1 .. Len(b) : (a \o e)[i + 1] = b[i]
  <2> SUFFICES ASSUME NEW i \in 1 .. Len(b) PROVE (a \o e)[i + 1] = b[i] OBVIOUS
  <2>1. i + 1 \in 1 .. Len(a) BY <1>0, <1>1
  <2> QED BY <1>1, <1>2, <2>1
<1>5. 1 \in 1 .. Len(a) /\ Len(a \o e) = 1 + Len(b) + Len(e) BY <1>0, <1>1, <1>2
<1> QED BY <1>0, <1>1, <1>2, <1>3, <1>4, <1>5 DEF a

(* b is a part of the trajectory, the one after its first drop points.      *)
PartOf(b, traj, drop) ==
    \A h \in 1 .. Len(b) : h + drop \in 1 .. Len(traj) /\ b[h] = traj[h + drop]

(* Every point of that time is in that part.                                *)
HasAllAt(b, traj, drop, t) ==
    \A h \in 1 .. Len(traj) : traj[h].timestamp = t => h - drop \in 1 .. Len(b)

(* An old point that is kept, the last one of its time: the command at that *)
(* time does not change, since what comes next is later.                    *)
LEMMA KeptPoint ==
    ASSUME NEW traj \in Seq(Point), Ascending(traj), NEW i \in 1 .. Len(traj),
           NEW c \in Point, NEW b \in Seq(Point), NEW e \in Seq(Point), e # << >>,
           Ascending((<< c >> \o b) \o e),
           NEW drop \in Nat, PartOf(b, traj, drop),
           HasAllAt(b, traj, drop, traj[i].timestamp),
           e[1].timestamp > traj[i].timestamp
    PROVE  After((<< c >> \o b) \o e, traj[i].timestamp) = After(traj, traj[i].timestamp)
<1> DEFINE new == (<< c >> \o b) \o e
<1>1. PICK j \in 1 .. Len(traj) :
         /\ traj[j].timestamp = traj[i].timestamp
         /\ j = Len(traj) \/ traj[j + 1].timestamp > traj[j].timestamp
  BY LastPointAt
<1>2. /\ Len(traj) \in Nat /\ Len(b) \in Nat /\ Len(e) \in Nat \ {0} /\ j \in Nat
      /\ j - drop \in 1 .. Len(b)
  <2>1. j - drop \in 1 .. Len(b) BY <1>1 DEF HasAllAt
  <2>2. Len(e) # 0 OBVIOUS
  <2> QED BY <2>1, <2>2, PointFact
<1> DEFINE n == j - drop + 1
<1>3. /\ Len(new) = 1 + Len(b) + Len(e)
      /\ \A h \in 1 .. Len(b) : new[h + 1] = b[h]
      /\ \A h \in 1 .. Len(e) : new[h + 1 + Len(b)] = e[h]
  BY PartsFact
<1>4. new \in Seq(Point)
  <2>1. << c >> \o b \in Seq(Point) OBVIOUS
  <2> QED BY <2>1
<1> HIDE DEF new
<1>5. n \in 1 .. Len(new) /\ n + 1 \in 1 .. Len(new) BY <1>2, <1>3
<1>6. new[n] = traj[j]
  <2>1. new[(j - drop) + 1] = b[j - drop] BY <1>2, <1>3
  <2>2. b[j - drop] = traj[(j - drop) + drop] BY <1>2 DEF PartOf
  <2>3. (j - drop) + drop = j BY <1>2
  <2> QED BY <2>1, <2>2, <2>3
<1>7. new[n + 1].timestamp > traj[j].timestamp
  <2>1. CASE j - drop = Len(b)
    <3>1. 1 \in 1 .. Len(e) /\ n + 1 = 1 + 1 + Len(b) BY <1>2, <2>1
    <3>2. new[n + 1] = e[1] BY <1>3, <3>1
    <3> QED BY <1>1, <3>2
  <2>2. CASE j - drop # Len(b)
    <3>1. n \in 1 .. Len(b)
      <4> DEFINE x == j - drop
      <4>1. x \in 1 .. Len(b) /\ x # Len(b) BY <1>2, <2>2
      <4> HIDE DEF x
      <4>2. x + 1 \in 1 .. Len(b) BY <1>2, <4>1
      <4> QED BY <4>2 DEF x
    <3>2. new[n + 1] = b[n] /\ b[n] = traj[n + drop] /\ n + drop \in 1 .. Len(traj)
      BY <1>3, <3>1 DEF PartOf
    <3>3. n + drop = j + 1 BY <1>2
    <3>4. j # Len(traj) BY <1>2, <3>2, <3>3
    <3> QED BY <1>1, <3>2, <3>3, <3>4
  <2> QED BY <2>1, <2>2
<1> HIDE DEF n
<1>8. After(new, new[n].timestamp) = new[n].pos
  <2>1. Ascending(new) BY DEF new
  <2> QED BY <1>4, <1>5, <1>6, <1>7, <2>1, AfterPoint
<1>9. After(traj, traj[j].timestamp) = traj[j].pos BY <1>1, AfterPoint
<1> QED BY <1>1, <1>6, <1>8, <1>9 DEF new

(* The last point is always reached.                                        *)
LEMMA FinalReached ==
    ASSUME NEW traj \in Seq(Point), Ascending(traj), traj # << >>
    PROVE  Reached(traj, Final(traj))
<1>1. Len(traj) \in 1 .. Len(traj) BY PointFact
<1> QED BY <1>1, AfterPoint DEF Reached, Final

-----------------------------------------------------------------------------
(* Appending. *)

(* append_waypoint reaches its waypoint and keeps every point before it.    *)
LEMMA AppendWaypointKeeps ==
    ASSUME NEW traj \in Seq(Point), Ascending(traj), NEW t0 \in Int, NEW w \in Point,
           ~WaypointRefused(traj, t0, w)
    PROVE  /\ Reached(append_waypoint(traj, t0, w), w)
           /\ \A i \in 1 .. Len(traj) :
                 t0 < traj[i].timestamp /\ traj[i].timestamp < w.timestamp =>
                    After(append_waypoint(traj, t0, w), traj[i].timestamp)
                       = After(traj, traj[i].timestamp)
<1> DEFINE c == CurrentState(traj, t0)
           f == From(traj, t0 + 1)
           b == Before(f, w.timestamp + 1)
           drop == Leading(traj, t0 + 1)
           new == (<< c >> \o b) \o << w >>
<1>1. traj # << >> /\ w.timestamp \in Int BY DEF WaypointRefused, Point
<1>2. c \in Point BY <1>1, CurrentFact
<1>3. append_waypoint(traj, t0, w) = new BY DEF append_waypoint
<1>4. new \in Seq(Point) /\ Ascending(new) /\ new # << >>
  BY <1>3, AppendWaypointFact
<1>5. t0 + 1 \in Int /\ w.timestamp + 1 \in Int BY <1>1
<1>6. /\ f \in Seq(Point) /\ Len(f) = Len(traj) - drop
      /\ \A h \in 1 .. Len(f) : h + drop \in 1 .. Len(traj) /\ f[h] = traj[h + drop]
  <2> HIDE DEF f, drop
  <2> QED BY <1>5, FromFact DEF f, drop
<1>7. Ascending(f)
  <2> HIDE DEF f
  <2> QED BY <1>5, AscendingParts DEF f
<1>8. /\ drop \in 0 .. Len(traj) /\ Len(traj) \in Nat
      /\ \A h \in 1 .. drop : traj[h].timestamp < t0 + 1
      /\ \A h \in 1 .. Len(traj) : traj[h].timestamp \in Int
  <2> HIDE DEF drop
  <2> QED BY <1>5, LeadingFact, PointFact DEF drop
<1> HIDE DEF c, f, drop
<1>9. /\ b \in Seq(Point) /\ Len(b) = Leading(f, w.timestamp + 1) /\ Len(b) <= Len(f)
      /\ \A h \in 1 .. Len(b) : b[h] = f[h]
      /\ Len(b) < Len(f) => f[Len(b) + 1].timestamp >= w.timestamp + 1
  <2> DEFINE t1 == w.timestamp + 1
  <2>1. t1 \in Int BY <1>5
  <2> HIDE DEF t1
  <2>2. /\ Before(f, t1) \in Seq(Point) /\ Len(Before(f, t1)) = Leading(f, t1)
        /\ Len(Before(f, t1)) <= Len(f)
        /\ \A h \in 1 .. Len(Before(f, t1)) : Before(f, t1)[h] = f[h]
    BY <1>6, <2>1, BeforeFact
  <2>3. Leading(f, t1) < Len(f) => f[Leading(f, t1) + 1].timestamp >= t1
    BY <1>6, <2>1, LeadingFact
  <2>4. b = Before(f, t1) BY DEF t1
  <2> HIDE DEF b
  <2>5. Len(b) < Len(f) => f[Len(b) + 1].timestamp >= t1 BY <2>2, <2>3, <2>4
  <2> QED BY <2>2, <2>4, <2>5 DEF t1
<1> HIDE DEF b
<1>10. Len(b) \in Nat /\ Len(f) \in Nat BY <1>6, <1>9, PointFact
<1>11. << w >> \in Seq(Point) /\ << w >> # << >> /\ Len(<< w >>) = 1 /\ << w >>[1] = w
  BY SinglePoint
<1>12. Final(new) = w
  <2>1. 1 \in 1 .. Len(<< w >>) /\ Len(new) = 1 + Len(b) + 1 BY <1>2, <1>9, <1>11, PartsFact
  <2>2. new[1 + 1 + Len(b)] = w BY <1>2, <1>9, <1>11, <2>1, PartsFact
  <2>3. Len(new) = 1 + 1 + Len(b) BY <1>10, <2>1
  <2> HIDE DEF new
  <2> QED BY <2>2, <2>3 DEF Final
<1>13. Reached(new, w)
  <2> HIDE DEF new
  <2> QED BY <1>4, <1>12, FinalReached
<1>14. PartOf(b, traj, drop)
  <2> SUFFICES ASSUME NEW h \in 1 .. Len(b)
               PROVE  h + drop \in 1 .. Len(traj) /\ b[h] = traj[h + drop]
    BY DEF PartOf
  <2>1. h \in 1 .. Len(f) BY <1>9, <1>10
  <2> QED BY <1>6, <1>9, <2>1
<1>15. ASSUME NEW i \in 1 .. Len(traj), t0 < traj[i].timestamp, traj[i].timestamp < w.timestamp
       PROVE  After(new, traj[i].timestamp) = After(traj, traj[i].timestamp)
  <2>1. ASSUME NEW h \in 1 .. Len(traj), traj[h].timestamp = traj[i].timestamp
        PROVE  h - drop \in 1 .. Len(b)
    <3>1. h \in Nat /\ drop \in Nat /\ traj[h].timestamp \in Int /\ drop <= Len(traj) BY <1>8
    <3>2. h > drop
      <4> SUFFICES ASSUME h <= drop PROVE FALSE BY <3>1
      <4>1. h \in 1 .. drop BY <3>1
      <4> QED BY <1>8, <1>15, <2>1, <3>1, <4>1
    <3> DEFINE x == h - drop
    <3>3. x \in 1 .. Len(f) /\ x + drop = h BY <1>6, <1>8, <3>1, <3>2
    <3> HIDE DEF x
    <3>4. f[x] = traj[h] BY <1>6, <3>3
    <3>5. x <= Len(b)
      <4> SUFFICES ASSUME Len(b) < x PROVE FALSE BY <1>10, <3>3
      <4>1. Len(b) + 1 \in 1 .. Len(f) /\ Len(b) + 1 <= x /\ Len(b) < Len(f)
        BY <1>10, <3>3
      <4>2. f[Len(b) + 1].timestamp <= f[x].timestamp
        BY <1>6, <1>7, <3>3, <4>1, AscendingAll
      <4>3. f[Len(b) + 1].timestamp >= w.timestamp + 1 BY <1>9, <4>1
      <4>4. f[Len(b) + 1].timestamp \in Int BY <1>6, <4>1, PointFact
      <4> QED BY <1>1, <1>15, <2>1, <3>1, <3>4, <4>2, <4>3, <4>4
    <3> QED BY <1>10, <3>3, <3>5 DEF x
  <2>2. drop \in Nat BY <1>8
  <2>3. << w >>[1].timestamp > traj[i].timestamp BY <1>1, <1>8, <1>11, <1>15
  <2> DEFINE e == << w >>
  <2>4. Ascending((<< c >> \o b) \o e) /\ e \in Seq(Point) /\ e # << >>
        /\ e[1].timestamp > traj[i].timestamp
    BY <1>4, <1>11, <2>3
  <2> HIDE DEF new, e
  <2>5. b \in Seq(Point) /\ HasAllAt(b, traj, drop, traj[i].timestamp)
    BY <1>9, <2>1 DEF HasAllAt
  <2>6. After((<< c >> \o b) \o e, traj[i].timestamp) = After(traj, traj[i].timestamp)
    BY <1>2, <1>14, <2>2, <2>4, <2>5, KeptPoint
  <2> QED BY <2>6 DEF new, e
<1> QED BY <1>3, <1>13, <1>15

(* append_traj reaches its last point and keeps every point before its      *)
(* first one.                                                               *)
LEMMA AppendTrajKeeps ==
    ASSUME NEW traj \in Seq(Point), Ascending(traj), NEW t0 \in Int, NEW given \in Seq(Point),
           ~TrajRefused(traj, t0, given), ~TrajIgnored(t0, given)
    PROVE  LET pending == Pending(t0, given)
           IN  /\ Reached(append_traj(traj, t0, given), Final(pending))
               /\ \A i \in 1 .. Len(traj) :
                     t0 < traj[i].timestamp /\ traj[i].timestamp < pending[1].timestamp =>
                        After(append_traj(traj, t0, given), traj[i].timestamp)
                           = After(traj, traj[i].timestamp)
<1> DEFINE c == CurrentState(traj, t0)
           p == Pending(t0, given)
           t1 == p[1].timestamp
           b == Before(traj, t1)
           k == From(b, t0 + 1)
           drop == Leading(b, t0 + 1)
           new == (<< c >> \o k) \o p
<1>1. traj # << >> /\ p # << >> BY DEF TrajRefused, TrajIgnored
<1>2. c \in Point BY <1>1, CurrentFact
<1>3. append_traj(traj, t0, given) = new BY DEF append_traj
<1>4. new \in Seq(Point) /\ Ascending(new) /\ new # << >> BY <1>3, AppendTrajFact
<1>5. p \in Seq(Point) BY FromFact DEF Pending
<1> HIDE DEF c, p
<1>6. t1 \in Int /\ Len(p) \in Nat \ {0} BY <1>1, <1>5, PointFact
<1>7. Len(traj) \in Nat /\ \A h \in 1 .. Len(traj) : traj[h].timestamp \in Int BY PointFact
<1> HIDE DEF t1
<1>8. /\ b \in Seq(Point) /\ Len(b) = Leading(traj, t1) /\ Len(b) <= Len(traj)
      /\ \A h \in 1 .. Len(b) : b[h] = traj[h]
  BY <1>6, BeforeFact
<1>9. Len(b) < Len(traj) => traj[Len(b) + 1].timestamp >= t1
  <2>1. Leading(traj, t1) < Len(traj) => traj[Leading(traj, t1) + 1].timestamp >= t1
    BY <1>6, LeadingFact
  <2> HIDE DEF b
  <2> QED BY <1>8, <2>1
<1> HIDE DEF b
<1>10. t0 + 1 \in Int /\ Len(b) \in Nat BY <1>8, PointFact
<1>11. /\ k \in Seq(Point) /\ Len(k) = Len(b) - drop
       /\ \A h \in 1 .. Len(k) : h + drop \in 1 .. Len(b) /\ k[h] = b[h + drop]
  <2> HIDE DEF k, drop
  <2> QED BY <1>8, <1>10, FromFact DEF k, drop
<1>12. drop \in 0 .. Len(b) /\ \A h \in 1 .. drop : b[h].timestamp < t0 + 1
  <2> HIDE DEF drop
  <2> QED BY <1>8, <1>10, LeadingFact DEF drop
<1> HIDE DEF k, drop
<1>13. Reached(new, Final(p))
  <2>1. Len(new) = 1 + Len(k) + Len(p) /\ Len(k) \in Nat
    BY <1>2, <1>5, <1>11, PartsFact
  <2>2. Len(p) \in 1 .. Len(p) BY <1>6
  <2>3. \A i \in 1 .. Len(p) : ((<< c >> \o k) \o p)[i + 1 + Len(k)] = p[i]
    <3>1. c \in Point /\ k \in Seq(Point) /\ p \in Seq(Point) BY <1>2, <1>5, <1>11
    <3> HIDE DEF new
    <3> QED BY <3>1, PartsFact
  <2>4. Len(new) = Len(p) + 1 + Len(k) BY <1>6, <2>1
  <2>5. new[Len(p) + 1 + Len(k)] = p[Len(p)] BY <2>2, <2>3
  <2> HIDE DEF new
  <2>6. Final(new) = Final(p) BY <2>4, <2>5 DEF Final
  <2> QED BY <1>4, <2>6, FinalReached
<1>14. PartOf(k, traj, drop)
  <2> SUFFICES ASSUME NEW h \in 1 .. Len(k)
               PROVE  h + drop \in 1 .. Len(traj) /\ k[h] = traj[h + drop]
    BY DEF PartOf
  <2>1. h + drop \in 1 .. Len(b) /\ k[h] = b[h + drop] BY <1>11
  <2> QED BY <1>7, <1>8, <1>10, <2>1
<1>15. ASSUME NEW i \in 1 .. Len(traj), t0 < traj[i].timestamp, traj[i].timestamp < t1
       PROVE  After(new, traj[i].timestamp) = After(traj, traj[i].timestamp)
  <2>1. ASSUME NEW h \in 1 .. Len(traj), traj[h].timestamp = traj[i].timestamp
        PROVE  h - drop \in 1 .. Len(k)
    <3>1. h \in Nat /\ traj[h].timestamp \in Int /\ drop \in Nat BY <1>7, <1>10, <1>12
    <3>2. h <= Len(b)
      <4> SUFFICES ASSUME Len(b) < h PROVE FALSE BY <1>10, <3>1
      <4>1. Len(b) + 1 \in 1 .. Len(traj) /\ Len(b) + 1 <= h /\ Len(b) < Len(traj)
        BY <1>7, <1>10, <3>1
      <4>2. traj[Len(b) + 1].timestamp <= traj[h].timestamp BY <4>1, AscendingAll
      <4> QED BY <1>6, <1>7, <1>9, <1>15, <2>1, <4>1, <4>2
    <3>3. h \in 1 .. Len(b) /\ b[h] = traj[h] BY <1>8, <1>10, <3>1, <3>2
    <3>4. h > drop
      <4> SUFFICES ASSUME h <= drop PROVE FALSE BY <3>1
      <4>1. h \in 1 .. drop BY <3>1
      <4>2. traj[h].timestamp < t0 + 1 BY <1>12, <3>3, <4>1
      <4> QED BY <1>7, <1>15, <2>1, <3>1, <4>2
    <3> QED BY <1>10, <1>11, <3>1, <3>3, <3>4
  <2>2. drop \in Nat BY <1>10, <1>12
  <2>3. p[1].timestamp > traj[i].timestamp BY <1>6, <1>7, <1>15 DEF t1
  <2>4. k \in Seq(Point) /\ HasAllAt(k, traj, drop, traj[i].timestamp)
    BY <1>11, <2>1 DEF HasAllAt
  <2>5. Ascending((<< c >> \o k) \o p) BY <1>4
  <2> HIDE DEF new
  <2>6. After((<< c >> \o k) \o p, traj[i].timestamp) = After(traj, traj[i].timestamp)
    BY <1>1, <1>2, <1>5, <1>14, <2>2, <2>3, <2>4, <2>5, KeptPoint
  <2> QED BY <2>6 DEF new
<1> QED BY <1>3, <1>13, <1>15 DEF p, t1

(* Whatever the trajectory, the program that appends a waypoint or a        *)
(* trajectory keeps the commands before it and then gets what it asked for. *)
THEOREM AppendsKeep == ASSUME TrajectoryAssumption PROVE Spec => []AppendKeepsEarlier
<1>1. IInv => AppendKeepsEarlier
  <2> SUFFICES ASSUME IInv, client = "interpolator", plan # << >> PROVE AppendKeepsEarlier
    BY DEF AppendKeepsEarlier
  <2>1. /\ plan \in Seq(Point) /\ Ascending(plan) /\ now \in Int
        /\ \A i \in 1 .. Len(plan) : plan[i].timestamp \in Int
    BY PointFact DEF IInv, TypeOK, PlanOK
  <2>2. ASSUME NEW w \in Waypoints, ~WaypointRefused(plan, now, w)
        PROVE  LET new == append_waypoint(plan, now, w)
               IN  /\ Reached(new, w)
                   /\ \A t \in now + 1 .. w.timestamp - 1 : \A i \in 1 .. Len(plan) :
                         plan[i].timestamp = t => After(new, t) = After(plan, t)
    <3>1. w \in Point /\ w.timestamp \in Int BY WaypointType DEF Point
    <3>2. /\ Reached(append_waypoint(plan, now, w), w)
          /\ \A i \in 1 .. Len(plan) :
                now < plan[i].timestamp /\ plan[i].timestamp < w.timestamp =>
                   After(append_waypoint(plan, now, w), plan[i].timestamp)
                      = After(plan, plan[i].timestamp)
      BY <2>1, <2>2, <3>1, AppendWaypointKeeps
    <3>3. ASSUME NEW t \in now + 1 .. w.timestamp - 1, NEW i \in 1 .. Len(plan),
                 plan[i].timestamp = t
          PROVE  After(append_waypoint(plan, now, w), t) = After(plan, t)
      <4>1. now < plan[i].timestamp /\ plan[i].timestamp < w.timestamp
        BY <2>1, <3>1, <3>3
      <4> QED BY <3>2, <3>3, <4>1
    <3> QED BY <3>2, <3>3
  <2>3. ASSUME NEW traj \in Trajs, ~TrajRefused(plan, now, traj), ~TrajIgnored(now, traj)
        PROVE  LET pending == Pending(now, traj)
                   new == append_traj(plan, now, traj)
               IN  /\ Reached(new, Final(pending))
                   /\ \A t \in now + 1 .. pending[1].timestamp - 1 : \A i \in 1 .. Len(plan) :
                         plan[i].timestamp = t => After(new, t) = After(plan, t)
    <3> DEFINE pending == Pending(now, traj)
               first == pending[1].timestamp
    <3>1. traj \in Seq(Point) BY DEF TrajectoryAssumption
    <3>2. /\ Reached(append_traj(plan, now, traj), Final(pending))
          /\ \A i \in 1 .. Len(plan) :
                now < plan[i].timestamp /\ plan[i].timestamp < first =>
                   After(append_traj(plan, now, traj), plan[i].timestamp)
                      = After(plan, plan[i].timestamp)
      BY <2>1, <2>3, <3>1, AppendTrajKeeps
    <3>3. first \in Int
      <4>1. pending \in Seq(Point) /\ pending # << >>
        BY <2>1, <2>3, <3>1, FromFact DEF Pending, TrajIgnored
      <4> QED BY <4>1, PointFact
    <3> HIDE DEF first
    <3>4. ASSUME NEW t \in now + 1 .. first - 1, NEW i \in 1 .. Len(plan),
                 plan[i].timestamp = t
          PROVE  After(append_traj(plan, now, traj), t) = After(plan, t)
      <4>1. now < plan[i].timestamp /\ plan[i].timestamp < first
        BY <2>1, <3>3, <3>4
      <4> QED BY <3>2, <3>4, <4>1
    <3> QED BY <3>2, <3>4 DEF first
  <2> QED BY <2>2, <2>3 DEF AppendKeepsEarlier
<1> QED BY <1>1, Inductive, PTL

-----------------------------------------------------------------------------
(* What a step at the lock does. *)

\* A position that set_joint_cmd fixed a moment ahead of its own time.
FixedAhead(traj, t) ==
    client = "joint" /\ Len(traj) = 1 /\ traj[1].timestamp <= t + Near

\* The time a command works with is never before the first point of the
\* trajectory, because it was read after the last command changed it; only a
\* fixed position may still lie up to Near ticks ahead.
HereOK ==
    /\ start <= now
    /\ client # "interpolator" =>
          \/ plan[1].timestamp <= IF pc = "lockTraj" THEN start ELSE now
          \/ FixedAhead(plan, now)

(* The start of what override_traj returns.                                 *)
LEMMA OverrideTrajStart ==
    ASSUME NEW traj \in Seq(Point), traj # << >>, NEW t \in Int, NEW given \in Seq(Point)
    PROVE  LET new == override_traj(traj, t, given)
               p == From(given, t)
           IN  /\ Len(p) \in Nat /\ Len(new) = 1 + Len(p)
               /\ new[1] = CurrentState(traj, t) /\ new[1].timestamp = t
               /\ \A i \in 1 .. Len(p) : new[i + 1] = p[i]
<1> DEFINE c == CurrentState(traj, t)
           p == From(given, t)
<1>1. c \in Point /\ c.timestamp = t BY CurrentFact
<1>2. p \in Seq(Point) BY FromFact
<1>3. override_traj(traj, t, given) = << c >> \o p BY DEF override_traj, Pending
<1> HIDE DEF c, p
<1>4. Len(p) \in Nat BY <1>2, PointFact
<1>5. /\ Len(<< c >> \o p) = 1 + Len(p) /\ (<< c >> \o p)[1] = c
      /\ \A i \in 1 .. Len(p) : (<< c >> \o p)[i + 1] = p[i]
  BY <1>1, <1>2, <1>4
<1> QED BY <1>1, <1>3, <1>4, <1>5 DEF c, p

(* A step that leaves the trajectory alone.                                 *)
LEMMA HereKept ==
    ASSUME TrajectoryAssumption, IInv, HereOK, plan' = plan, client' = client,
           now' \in Nat, now <= now',
           start' \in {0, start, now},
           pc' = "lockTraj" => start' = now \/ (pc = "lockTraj" /\ start' = start)
    PROVE  HereOK'
<1>1. now \in Nat /\ start \in Nat /\ plan \in Seq(Point) BY DEF IInv, TypeOK
<1>2. start <= now BY DEF HereOK
<1>3. start' <= now' BY <1>1, <1>2
<1>4. ASSUME client # "interpolator"
      PROVE  \/ plan[1].timestamp <= IF pc' = "lockTraj" THEN start' ELSE now'
             \/ FixedAhead(plan, now')
  <2>1. plan[1].timestamp \in Int BY <1>1, <1>4, PointFact DEF IInv, PlanOK
  <2>2. CASE FixedAhead(plan, now)
    <3>1. plan[1].timestamp <= now + Near /\ Near \in Nat
      BY <2>2 DEF FixedAhead, TrajectoryAssumption
    <3>2. plan[1].timestamp <= now' + Near BY <1>1, <2>1, <3>1
    <3> QED BY <2>2, <3>2 DEF FixedAhead
  <2>3. CASE plan[1].timestamp <= IF pc = "lockTraj" THEN start ELSE now
    <3>1. plan[1].timestamp <= now BY <1>1, <1>2, <2>1, <2>3
    <3>2. CASE pc' = "lockTraj" BY <2>3, <3>1, <3>2
    <3>3. CASE pc' # "lockTraj" BY <1>1, <2>1, <3>1, <3>3
    <3> QED BY <3>2, <3>3
  <2> QED BY <1>4, <2>2, <2>3 DEF HereOK
<1>5. client' = client /\ plan' = plan OBVIOUS
<1> QED BY <1>3, <1>4, <1>5 DEF HereOK, FixedAhead

(* A step that installs one: it starts at the time of the step or earlier,  *)
(* or is a fixed position just ahead.                                       *)
LEMMA HereInstalled ==
    ASSUME IInv, HereOK, client' = client, now' = now, start' \in {0, start},
           pc' # "lockTraj", plan'[1].timestamp <= now \/ FixedAhead(plan', now)
    PROVE  HereOK'
<1>1. now \in Nat /\ start \in Nat BY DEF IInv, TypeOK
<1>2. start <= now BY DEF HereOK
<1>3. start' <= now' BY <1>1, <1>2
<1> QED BY <1>3 DEF HereOK, FixedAhead

LEMMA HereInit == ASSUME TrajectoryAssumption, Init PROVE HereOK
<1>1. StartTime \in Nat \ {0} /\ start = 0 /\ now = StartTime /\ pc = "idle"
  BY DEF Init, TrajectoryAssumption
<1>2. ASSUME client # "interpolator" PROVE plan[1].timestamp = now
  BY <1>1, <1>2 DEF Init, init_fixed, At
<1> QED BY <1>1, <1>2 DEF HereOK

LEMMA HereNext == ASSUME TrajectoryAssumption, IInv, HereOK, [Next]_vars PROVE HereOK'
<1>0. /\ now \in Nat /\ start \in Nat /\ plan \in Seq(Point) /\ target \in Point
      /\ target.timestamp \in Int /\ start <= now
  BY DEF IInv, TypeOK, HereOK, Point
<1>1. CASE UNCHANGED vars BY <1>0, <1>1, HereKept DEF vars, locals
<1>2. CASE Tick \/ BgReadClock \/ BgLookup
  <2>1. /\ UNCHANGED << plan, client, start, pc >> /\ now' \in Nat /\ now <= now'
    BY <1>0, <1>2 DEF Tick, BgReadClock, BgLookup, locals
  <2> QED BY <2>1, HereKept
<1>3. CASE (\E w \in Waypoints : set_joint_cmd(w) \/ set_eef_cmd(w))
           \/ SolveCmd \/ reset_to_home \/ HomeReached \/ HomeRefused
  <2>1. UNCHANGED << plan, client, now >> /\ start' \in {0, start, now} /\ pc' # "lockTraj"
    BY <1>3 DEF set_joint_cmd, set_eef_cmd, SolveCmd, reset_to_home, HomeReached, HomeRefused,
       Reset
  <2> QED BY <1>0, <2>1, HereKept
<1>4. CASE LockCmd
  <2>1. UNCHANGED << client, now >> /\ start' = 0 /\ pc' = "idle" /\ pc = "lockCmd"
    BY <1>4 DEF LockCmd, Reset
  <2>2. CASE plan' = plan BY <1>0, <2>1, <2>2, HereKept
  <2>3. CASE IsNear /\ plan' = init_fixed(target)
    <3>1. plan'[1] = target /\ Len(plan') = 1 BY <1>0, <2>3, SinglePoint DEF init_fixed
    <3>2. target.timestamp <= now + Near
      BY <1>0, <2>3 DEF IsNear, TrajectoryAssumption
    <3>3. FixedAhead(plan', now) BY <2>3, <3>1, <3>2 DEF FixedAhead, IsNear, LockCmd
    <3> QED BY <1>0, <2>1, <3>3, HereInstalled
  <2>4. CASE ~WaypointRefused(plan, now, target) /\ plan' = override_waypoint(plan, now, target)
    <3>1. plan # << >> BY <2>4 DEF WaypointRefused
    <3>2. CurrentState(plan, now).timestamp = now BY <1>0, <3>1, CurrentFact
    <3>3. plan'[1] = CurrentState(plan, now) BY <2>4 DEF override_waypoint
    <3> QED BY <1>0, <2>1, <3>2, <3>3, HereInstalled
  <2> QED BY <1>4, <2>2, <2>3, <2>4 DEF LockCmd
<1>5. CASE LockHome
  <2>1. UNCHANGED << client, now >> /\ start' \in {0, start} /\ pc' # "lockTraj"
    BY <1>5 DEF LockHome, Reset, locals
  <2>2. CASE target.timestamp <= now
    <3>1. plan' = plan BY <1>5, <2>2 DEF LockHome
    <3> QED BY <1>0, <2>1, <3>1, HereKept
  <2>3. CASE ~(target.timestamp <= now)
    <3>1. PICK p \in Positions : plan' = << At(p, now), target >>
      BY <1>5, <2>3 DEF LockHome, init
    <3>2. plan'[1].timestamp = now BY <3>1 DEF At
    <3> QED BY <1>0, <2>1, <3>2, HereInstalled
  <2> QED BY <2>2, <2>3
<1>6. CASE set_to_damping
  <2>1. UNCHANGED << client, now, start, pc >> /\ pc = "idle"
    BY <1>6 DEF set_to_damping, Begin, locals
  <2>2. PICK p \in Positions : plan' = << At(p, now) >>
    BY <1>6 DEF set_to_damping, init_fixed
  <2>3. plan'[1].timestamp = now BY <2>2 DEF At
  <2> QED BY <1>0, <2>1, <2>3, HereInstalled
<1>7. CASE \E new \in Trajs : BeginTraj(new)
  <2>1. UNCHANGED << client, now, plan >> /\ start' \in {start, now} /\ pc' # "lockTraj"
    BY <1>7 DEF BeginTraj, Begin, locals
  <2> QED BY <1>0, <2>1, HereKept
<1>8. CASE Collect \/ Collected \/ NextVelocity
  <2>1. UNCHANGED << client, now, plan >> /\ start' \in {0, start} /\ pc' # "lockTraj"
    BY <1>8 DEF Collect, Collected, NextVelocity, Reset
  <2> QED BY <1>0, <2>1, HereKept
<1>9. CASE VelocityDone
  <2>1. UNCHANGED << client, now, plan >> /\ start' = now BY <1>9 DEF VelocityDone
  <2> QED BY <1>0, <2>1, HereKept
<1>10. CASE LockTraj
  <2>1. UNCHANGED << client, now >> /\ start' = 0 /\ pc' = "idle" /\ pc = "lockTraj"
    BY <1>10 DEF LockTraj, Reset
  <2>2. CASE plan' = plan BY <1>0, <2>1, <2>2, HereKept
  <2>3. CASE ~TrajRefused(plan, TrajTime, built) /\ plan' = override_traj(plan, TrajTime, built)
    <3>1. plan # << >> /\ built \in Seq(Point) BY <2>3 DEF TrajRefused, IInv, TypeOK
    <3>2. TrajTime \in Int /\ TrajTime <= now BY <1>0 DEF TrajTime
    <3>3. plan'[1].timestamp = TrajTime BY <1>0, <2>3, <3>1, <3>2, OverrideTrajStart
    <3> QED BY <2>1, <3>2, <3>3, HereInstalled
  <2> QED BY <1>10, <2>2, <2>3 DEF LockTraj
<1>11. CASE \/ \E p \in Positions, w \in Waypoints : UseInit(p, w)
            \/ \E w \in Waypoints : UseWaypoint(w)
            \/ \E new \in Trajs : UseTraj(new)
  <2>1. client = "interpolator" /\ UNCHANGED << client, now, start >>
    BY <1>11 DEF UseInit, UseWaypoint, UseTraj, Begin, locals
  <2> QED BY <1>0, <2>1 DEF HereOK
<1> QED BY <1>1, <1>2, <1>3, <1>4, <1>5, <1>6, <1>7, <1>8, <1>9, <1>10, <1>11 DEF Next

LEMMA HereAlways == ASSUME TrajectoryAssumption PROVE Spec => [](IInv /\ HereOK)
<1>1. Init => IInv /\ HereOK BY InitOK, HereInit
<1>2. IInv /\ HereOK /\ [Next]_vars => (IInv /\ HereOK)' BY NextOK, HereNext
<1> QED BY <1>1, <1>2, PTL DEF Spec

(* The only steps of a command that waits for the lock.                     *)
LEMMA LockSteps ==
    ASSUME [Next]_vars, pc \in {"lockCmd", "lockTraj"}, plan' # plan \/ pc' = "idle"
    PROVE  (pc = "lockCmd" /\ LockCmd) \/ (pc = "lockTraj" /\ LockTraj)
<1>1. ~UNCHANGED vars
  <2>1. SUFFICES ASSUME UNCHANGED vars PROVE FALSE OBVIOUS
  <2>2. plan' = plan /\ pc' = pc BY <2>1 DEF vars
  <2> QED BY <2>2
<1>2. ~(Tick \/ BgReadClock \/ BgLookup) BY DEF Tick, BgReadClock, BgLookup
<1>3. /\ ~(\E w \in Waypoints : set_joint_cmd(w) \/ set_eef_cmd(w) \/ UseWaypoint(w))
      /\ ~reset_to_home /\ ~set_to_damping
      /\ ~(\E new \in Trajs : BeginTraj(new) \/ UseTraj(new))
      /\ ~(\E p \in Positions, w \in Waypoints : UseInit(p, w))
  BY DEF set_joint_cmd, set_eef_cmd, UseWaypoint, reset_to_home, set_to_damping,
         BeginTraj, UseTraj, UseInit, Begin
<1>4. /\ ~SolveCmd /\ ~LockHome /\ ~HomeReached /\ ~HomeRefused
      /\ ~Collect /\ ~Collected /\ ~NextVelocity /\ ~VelocityDone
  BY DEF SolveCmd, LockHome, HomeReached, HomeRefused, Collect, Collected, NextVelocity, VelocityDone
<1>5. LockCmd \/ LockTraj BY <1>1, <1>2, <1>3, <1>4 DEF Next
<1> QED BY <1>5 DEF LockCmd, LockTraj

LEMMA ContinuesStep ==
    ASSUME TrajectoryAssumption, IInv, IInv', HereOK, [Next]_vars,
           plan' # plan, pc \in {"lockCmd", "lockTraj"}, Len(plan') > 1
    PROVE  LET t == IF pc = "lockTraj" THEN TrajTime ELSE now
           IN  \/ After(plan', t) = interpolate(plan, t)
               \/ plan'[2].timestamp = t
<1>0. /\ now \in Nat /\ start \in Nat /\ plan \in Seq(Point) /\ built \in Seq(Point)
      /\ target \in Point /\ target.timestamp \in Int
  BY DEF IInv, TypeOK, Point
<1>1. plan' \in Seq(Point) /\ Ascending(plan') BY DEF IInv, TypeOK, PlanOK
<1>2. 1 \in 1 .. Len(plan') /\ 2 \in 1 .. Len(plan') BY <1>1, PointFact
<1>3. ASSUME NEW t \in Int, plan # << >>, plan'[1] = CurrentState(plan, t),
             plan'[2].timestamp > t
      PROVE  After(plan', t) = interpolate(plan, t)
  <2>1. plan'[1].timestamp = t /\ plan'[1].pos = interpolate(plan, t)
    BY <1>3 DEF CurrentState, At
  <2>2. 1 + 1 = 2 OBVIOUS
  <2>3. After(plan', plan'[1].timestamp) = plan'[1].pos
    BY <1>1, <1>2, <1>3, <2>1, <2>2, AfterPoint
  <2> QED BY <2>1, <2>3
<1>4. CASE pc = "lockCmd"
  <2>1. LockCmd BY <1>4, LockSteps
  <2>2. plan' # init_fixed(target)
    <3> SUFFICES ASSUME plan' = init_fixed(target) PROVE FALSE OBVIOUS
    <3>1. Len(init_fixed(target)) = 1 BY <1>0, SinglePoint DEF init_fixed
    <3>2. Len(plan') = 1 BY <3>1
    <3> QED BY <3>2
  <2>3. ~WaypointRefused(plan, now, target) /\ plan' = override_waypoint(plan, now, target)
    BY <2>1, <2>2 DEF LockCmd
  <2>4. /\ plan # << >> /\ target.timestamp > now
        /\ plan'[1] = CurrentState(plan, now) /\ plan'[2] = target
    BY <1>0, <2>3 DEF WaypointRefused, override_waypoint
  <2>5. After(plan', now) = interpolate(plan, now) BY <1>0, <1>3, <2>4
  <2> QED BY <1>4, <2>5
<1>5. CASE pc = "lockTraj"
  <2> DEFINE t == TrajTime
             p == From(built, t)
  <2>1. LockTraj BY <1>5, LockSteps
  <2>2. /\ ~TrajRefused(plan, t, built) /\ ~TrajIgnored(t, built)
        /\ plan' = override_traj(plan, t, built)
    BY <2>1 DEF LockTraj
  <2>3. t \in Int /\ plan # << >> BY <1>0, <2>2 DEF TrajTime, TrajRefused
  <2>4. p \in Seq(Point) /\ p # << >> /\ p[1].timestamp >= t
    BY <1>0, <2>2, <2>3, FromFact DEF TrajIgnored, Pending
  <2>5. 1 \in 1 .. Len(p) /\ p[1].timestamp \in Int BY <2>4, PointFact
  <2>6. plan'[1] = CurrentState(plan, t) /\ plan'[1 + 1] = p[1]
    BY <1>0, <2>2, <2>3, <2>5, OverrideTrajStart
  <2> HIDE DEF t, p
  <2>7. plan'[2] = p[1] BY <2>6
  <2>8. CASE p[1].timestamp = t BY <1>5, <2>7, <2>8 DEF t
  <2>9. CASE p[1].timestamp > t
    <3>1. After(plan', t) = interpolate(plan, t) BY <1>3, <2>3, <2>6, <2>7, <2>9
    <3> QED BY <1>5, <3>1 DEF t
  <2> QED BY <2>3, <2>4, <2>5, <2>8, <2>9
<1> QED BY <1>4, <1>5

(* No command makes the arm jump, whatever the trajectory was and however   *)
(* long the lock was waited for.                                            *)
THEOREM NoJump == ASSUME TrajectoryAssumption PROVE Spec => ContinuesFromHere
<1> DEFINE A == (plan' # plan /\ pc \in {"lockCmd", "lockTraj"} /\ Len(plan') > 1)
                => LET t == IF pc = "lockTraj" THEN TrajTime ELSE now
                   IN  \/ After(plan', t) = interpolate(plan, t)
                       \/ plan'[2].timestamp = t
<1>1. (IInv /\ HereOK) /\ (IInv /\ HereOK)' /\ [Next]_vars => A BY ContinuesStep
<1> HIDE DEF A
<1>2. Spec => [][A]_vars BY <1>1, HereAlways, PTL DEF Spec
<1> QED BY <1>2 DEF ContinuesFromHere, A

(* What was built has passed the checks that override_traj makes again; the *)
(* start of the trajectory is all that can still be wrong with it.          *)
LEMMA RefusedOnlyAhead ==
    ASSUME TrajectoryAssumption, IInv, HereOK, pc = "lockTraj",
           TrajRefused(plan, TrajTime, built)
    PROVE  /\ client = "joint" /\ Len(plan) = 1
           /\ TrajTime < plan[1].timestamp /\ plan[1].timestamp <= TrajTime + Near
<1>0. /\ now \in Nat /\ start \in Nat /\ plan \in Seq(Point) /\ built \in Seq(Point)
      /\ client # "interpolator"
  BY DEF IInv, TypeOK, ClientOK
<1>1. plan # << >> BY <1>0 DEF IInv, PlanOK
<1>2. TrajTime \in Int /\ start <= TrajTime BY <1>0 DEF TrajTime, HereOK
<1>3. Ascending(Pending(TrajTime, built))
  <2>1. StrictlyAscending(built) BY DEF IInv, BuiltOK
  <2>2. Len(built) \in Nat /\ \A i \in 1 .. Len(built) : built[i].timestamp \in Int
    BY <1>0, PointFact
  <2>3. Ascending(built) BY <2>1, <2>2 DEF StrictlyAscending, Ascending
  <2> QED BY <1>0, <1>2, <2>3, AscendingParts DEF Pending
<1>4. TrajTime < plan[1].timestamp BY <1>1, <1>3 DEF TrajRefused
<1>5. plan[1].timestamp \in Int BY <1>0, <1>1, PointFact
<1>6. ~(plan[1].timestamp <= start) BY <1>0, <1>2, <1>4, <1>5
<1>7. FixedAhead(plan, now) BY <1>0, <1>6 DEF HereOK
<1>8. TrajTime = now BY <1>7 DEF FixedAhead, TrajTime
<1> QED BY <1>4, <1>7, <1>8 DEF FixedAhead

LEMMA ReachesStep ==
    ASSUME TrajectoryAssumption, IInv, IInv', HereOK, [Next]_vars,
           pc = "lockTraj", pc' = "idle", ~TrajRefused(plan, TrajTime, built),
           NEW i \in 1 .. Len(built), built[i].timestamp >= TrajTime
    PROVE  Reached(plan', built[i])
<1> DEFINE t == TrajTime
           p == From(built, t)
           drop == Leading(built, t)
<1>0. /\ now \in Nat /\ start \in Nat /\ plan \in Seq(Point) /\ built \in Seq(Point)
  BY DEF IInv, TypeOK
<1>1. plan' \in Seq(Point) /\ Ascending(plan') BY DEF IInv, TypeOK, PlanOK
<1>2. t \in Int BY <1>0 DEF TrajTime
<1>3. LockTraj /\ ~TrajRefused(plan, t, built) BY LockSteps
<1>4. StrictlyAscending(built) BY DEF IInv, BuiltOK
<1>5. /\ Len(built) \in Nat /\ i \in Nat
      /\ \A h \in 1 .. Len(built) : built[h].timestamp \in Int
  BY <1>0, PointFact
<1>6. /\ p \in Seq(Point) /\ Len(p) = Len(built) - drop
      /\ \A h \in 1 .. Len(p) : p[h] = built[h + drop]
  BY <1>0, <1>2, FromFact
<1>7. drop \in 0 .. Len(built) /\ \A h \in 1 .. drop : built[h].timestamp < t
  BY <1>0, <1>2, LeadingFact
<1>8. built[i].timestamp >= t OBVIOUS
<1>9. TrajIgnored(t, built) => p = << >> BY DEF TrajIgnored, Pending
<1>10. ~TrajIgnored(t, built) => plan' = override_traj(plan, t, built)
  BY <1>3 DEF LockTraj
<1>11. plan # << >> BY <1>3 DEF TrajRefused
<1> HIDE DEF t, drop
<1>12. i > drop
  <2> SUFFICES ASSUME i <= drop PROVE FALSE BY <1>5, <1>7
  <2>1. i \in 1 .. drop BY <1>5, <1>7
  <2> QED BY <1>2, <1>5, <1>7, <1>8, <2>1
<1> DEFINE x == i - drop
<1>13. x \in 1 .. Len(p) /\ x + drop = i BY <1>5, <1>6, <1>7, <1>12
<1>14. plan' = override_traj(plan, t, built)
  <2>1. Len(p) # 0 BY <1>5, <1>6, <1>7, <1>13
  <2> HIDE DEF p, x
  <2>2. p # << >> BY <2>1
  <2> QED BY <1>9, <1>10, <2>2
<1>15. /\ Len(p) \in Nat /\ Len(plan') = 1 + Len(p)
       /\ \A h \in 1 .. Len(p) : plan'[h + 1] = p[h]
  BY <1>0, <1>2, <1>11, <1>14, OverrideTrajStart
<1> HIDE DEF p, x
<1>16. plan'[x + 1] = built[i] /\ x + 1 \in 1 .. Len(plan') BY <1>6, <1>13, <1>15
<1>17. x + 1 = Len(plan') \/ plan'[(x + 1) + 1].timestamp > plan'[x + 1].timestamp
  <2> SUFFICES ASSUME x # Len(p) PROVE plan'[(x + 1) + 1].timestamp > plan'[x + 1].timestamp
    BY <1>13, <1>15
  <2>1. x + 1 \in 1 .. Len(p) BY <1>13, <1>15
  <2>2. plan'[(x + 1) + 1] = built[(x + 1) + drop] BY <1>6, <1>15, <2>1
  <2>3. (x + 1) + drop = i + 1 /\ i + 1 \in 1 .. Len(built)
    BY <1>5, <1>6, <1>7, <1>13, <1>15, <2>1
  <2>4. built[i].timestamp < built[i + 1].timestamp BY <1>4, <1>5, <2>3 DEF StrictlyAscending
  <2> QED BY <1>5, <1>16, <2>2, <2>3, <2>4
<1>18. After(plan', plan'[x + 1].timestamp) = plan'[x + 1].pos
  BY <1>1, <1>16, <1>17, AfterPoint
<1> QED BY <1>16, <1>18 DEF Reached

(* However long its solutions and the lock took, a trajectory that passed   *)
(* the checks is followed to the letter, or finds a position that was fixed *)
(* less than 1 ms ahead and is not due yet.                                 *)
THEOREM TrajectoryFollowed == ASSUME TrajectoryAssumption PROVE Spec => WaypointsReached
<1> DEFINE A == (pc = "lockTraj" /\ pc' = "idle")
                => IF TrajRefused(plan, TrajTime, built)
                   THEN /\ client = "joint" /\ Len(plan) = 1 /\ plan' = plan
                        /\ TrajTime < plan[1].timestamp /\ plan[1].timestamp <= TrajTime + Near
                   ELSE \A i \in 1 .. Len(built) :
                         built[i].timestamp >= TrajTime => Reached(plan', built[i])
<1>1. (IInv /\ HereOK) /\ (IInv /\ HereOK)' /\ [Next]_vars => A
  <2> SUFFICES ASSUME IInv, HereOK, IInv', [Next]_vars, pc = "lockTraj", pc' = "idle"
               PROVE  A
    OBVIOUS
  <2>1. CASE TrajRefused(plan, TrajTime, built)
    <3>1. LockTraj BY LockSteps
    <3>2. plan' = plan BY <2>1, <3>1 DEF LockTraj
    <3> QED BY <2>1, <3>2, RefusedOnlyAhead
  <2>2. CASE ~TrajRefused(plan, TrajTime, built)
    BY <2>2, ReachesStep
  <2> QED BY <2>1, <2>2
<1> HIDE DEF A
<1>2. Spec => [][A]_vars BY <1>1, HereAlways, PTL DEF Spec
<1> QED BY <1>2 DEF WaypointsReached, A

-----------------------------------------------------------------------------
(* No command leaves the range of the positions that were asked for.        *)

InRange(traj, lo, hi) == \A i \in 1 .. Len(traj) : traj[i].pos \in lo .. hi

RangeOK(lo, hi) ==
    /\ InRange(plan, lo, hi) /\ InRange(built, lo, hi) /\ InRange(todo, lo, hi)
    /\ target.pos \in lo .. hi

\* The quotient of the division that rounds down, between two multiples.
LEMMA QuotientBetween ==
    ASSUME NEW x \in Int, NEW n \in Nat \ {0}, NEW c \in Int, NEW e \in Int,
           n * c <= x, x <= n * e
    PROVE  x \div n \in c .. e
<1> DEFINE q == x \div n
<1>1. q \in Int /\ n * q <= x /\ x < n * q + n OBVIOUS
<1> HIDE DEF q
<1>2. n * q \in Int /\ n * c \in Int /\ n * e \in Int BY <1>1
<1>3. ~(q < c)
  <2>1. SUFFICES ASSUME q + 1 <= c PROVE FALSE BY <1>1
  <2>2. n * (q + 1) <= n * c BY <1>1, <2>1
  <2>3. n * (q + 1) = n * q + n BY <1>1
  <2> QED BY <1>1, <1>2, <2>2, <2>3
<1>4. ~(q > e)
  <2>1. SUFFICES ASSUME e + 1 <= q PROVE FALSE BY <1>1
  <2>2. n * (e + 1) <= n * q BY <1>1, <2>1
  <2>3. n * (e + 1) = n * e + n BY <1>1
  <2> QED BY <1>1, <1>2, <2>2, <2>3
<1> QED BY <1>1, <1>3, <1>4 DEF q

\* A point of a segment lies between its ends.
LEMMA SegmentBetween ==
    ASSUME NEW lo \in Int, NEW hi \in Int, NEW a \in lo .. hi, NEW b \in lo .. hi,
           NEW s \in Nat, NEW w \in Nat \ {0}, s <= w
    PROVE  a + ((b - a) * s) \div w \in lo .. hi
<1> DEFINE x == (b - a) * s
<1>1. /\ b - lo \in Nat /\ a - lo \in Nat /\ hi - a \in Nat /\ hi - b \in Nat /\ w - s \in Nat
      /\ lo - a \in Int /\ b - a \in Int
  OBVIOUS
<1>2. x \in Int BY <1>1
<1>3. w * (lo - a) <= x
  <2>1. x - w * (lo - a) = (b - lo) * s + (a - lo) * (w - s) OBVIOUS
  <2>2. (b - lo) * s \in Nat /\ (a - lo) * (w - s) \in Nat BY <1>1
  <2>3. w * (lo - a) \in Int BY <1>1
  <2> HIDE DEF x
  <2> QED BY <1>2, <2>1, <2>2, <2>3
<1>4. x <= w * (hi - a)
  <2>1. w * (hi - a) - x = (hi - a) * (w - s) + (hi - b) * s OBVIOUS
  <2>2. (hi - a) * (w - s) \in Nat /\ (hi - b) * s \in Nat BY <1>1
  <2>3. w * (hi - a) \in Int BY <1>1
  <2> HIDE DEF x
  <2> QED BY <1>2, <2>1, <2>2, <2>3
<1> HIDE DEF x
<1>5. x \div w \in (lo - a) .. (hi - a) BY <1>1, <1>2, <1>3, <1>4, QuotientBetween
<1>6. a + x \div w \in lo .. hi
  <2> DEFINE q == x \div w
  <2>1. q \in (lo - a) .. (hi - a) BY <1>5
  <2> HIDE DEF q
  <2>2. a + q \in lo .. hi BY <2>1
  <2> QED BY <2>2 DEF q
<1> QED BY <1>6 DEF x

\* interpolate does not overshoot.
LEMMA LookupInRange ==
    ASSUME NEW lo \in Int, NEW hi \in Int, NEW traj \in Seq(Point), traj # << >>,
           InRange(traj, lo, hi), NEW t \in Int
    PROVE  interpolate(traj, t) \in lo .. hi
<1>0. Len(traj) \in Nat \ {0} /\ \A j \in 1 .. Len(traj) : traj[j].timestamp \in Int
  BY PointFact
<1>1. 1 \in 1 .. Len(traj) /\ Len(traj) \in 1 .. Len(traj) BY <1>0
<1>2. CASE Len(traj) = 1 \/ t <= traj[1].timestamp
  BY <1>1, <1>2 DEF interpolate, InRange
<1>3. CASE ~(Len(traj) = 1 \/ t <= traj[1].timestamp) /\ t >= Final(traj).timestamp
  BY <1>1, <1>3 DEF interpolate, Final, InRange
<1>4. CASE ~(Len(traj) = 1 \/ t <= traj[1].timestamp) /\ ~(t >= Final(traj).timestamp)
  <2> DEFINE i == Segment(traj, t)
  <2>1. PICK h \in 1 .. Len(traj) - 1 :
           /\ Covers(traj, h, t)
           /\ \A j \in 1 .. h - 1 : ~Covers(traj, j, t)
           /\ traj[h].timestamp < traj[h + 1].timestamp
    BY <1>4, LookupFact DEF Defined
  <2>2. /\ i \in 1 .. Len(traj) - 1 /\ Covers(traj, i, t)
        /\ \A j \in 1 .. i - 1 : ~Covers(traj, j, t)
    BY <2>1 DEF Segment
  <2> HIDE DEF i
  <2>3. i = h BY <2>1, <2>2, <1>0
  <2> DEFINE s == t - traj[i].timestamp
             w == traj[i + 1].timestamp - traj[i].timestamp
  <2>4. i \in 1 .. Len(traj) /\ i + 1 \in 1 .. Len(traj) BY <1>0, <2>2
  <2>5. s \in Nat /\ w \in Nat \ {0} /\ s <= w
    BY <1>0, <2>1, <2>2, <2>3, <2>4 DEF Covers
  <2>6. traj[i].pos \in lo .. hi /\ traj[i + 1].pos \in lo .. hi BY <2>4 DEF InRange
  <2> HIDE DEF s, w
  <2>7. traj[i].pos + ((traj[i + 1].pos - traj[i].pos) * s) \div w \in lo .. hi
    BY <2>5, <2>6, SegmentBetween
  <2>8. OnSegment(traj[i], traj[i + 1], t) \in lo .. hi BY <2>7 DEF OnSegment, s, w
  <2>9. interpolate(traj, t) = OnSegment(traj[i], traj[i + 1], t)
    BY <1>4 DEF interpolate, i
  <2> QED BY <2>8, <2>9
<1> QED BY <1>2, <1>3, <1>4

\* The parts of a new trajectory are in range, and so is what is made of them.
LEMMA PartsInRange ==
    ASSUME NEW lo \in Int, NEW hi \in Int, NEW traj \in Seq(Point),
           InRange(traj, lo, hi), NEW t \in Int
    PROVE  InRange(From(traj, t), lo, hi) /\ InRange(Before(traj, t), lo, hi)
<1>1. InRange(From(traj, t), lo, hi) BY FromFact DEF InRange
<1>2. InRange(Before(traj, t), lo, hi)
  <2>1. \A i \in 1 .. Len(Before(traj, t)) : Before(traj, t)[i] = traj[i] /\ i \in 1 .. Len(traj)
    <3>1. Len(Before(traj, t)) \in Nat /\ Len(traj) \in Nat
          /\ Len(Before(traj, t)) <= Len(traj)
      BY BeforeFact, PointFact
    <3> QED BY <3>1, BeforeFact
  <2> QED BY <2>1 DEF InRange
<1> QED BY <1>1, <1>2

LEMMA ConcatInRange ==
    ASSUME NEW lo, NEW hi, NEW a \in Seq(Point), NEW b \in Seq(Point),
           InRange(a, lo, hi), InRange(b, lo, hi)
    PROVE  a \o b \in Seq(Point) /\ InRange(a \o b, lo, hi)
<1>0. Len(a) \in Nat /\ Len(b) \in Nat BY PointFact
<1>1. /\ a \o b \in Seq(Point) /\ Len(a \o b) = Len(a) + Len(b)
      /\ \A i \in 1 .. Len(a) : (a \o b)[i] = a[i]
      /\ \A i \in Len(a) + 1 .. Len(a) + Len(b) : (a \o b)[i] = b[i - Len(a)]
  BY ConcatFact
<1>2. ASSUME NEW i \in 1 .. Len(a \o b) PROVE (a \o b)[i].pos \in lo .. hi
  <2>1. CASE i <= Len(a)
    <3>1. i \in 1 .. Len(a) BY <1>0, <1>1, <2>1
    <3> QED BY <1>1, <3>1 DEF InRange
  <2>2. CASE i > Len(a)
    <3>1. i \in Len(a) + 1 .. Len(a) + Len(b) /\ i - Len(a) \in 1 .. Len(b)
      BY <1>0, <1>1, <2>2
    <3> QED BY <1>1, <3>1 DEF InRange
  <2> QED BY <1>0, <1>1, <2>1, <2>2
<1> QED BY <1>1, <1>2 DEF InRange

LEMMA SingleInRange ==
    ASSUME NEW lo, NEW hi, NEW p \in Point, p.pos \in lo .. hi
    PROVE  << p >> \in Seq(Point) /\ InRange(<< p >>, lo, hi)
BY DEF InRange

LEMMA CurrentInRange ==
    ASSUME NEW lo \in Int, NEW hi \in Int, NEW traj \in Seq(Point), traj # << >>,
           InRange(traj, lo, hi), NEW t \in Int
    PROVE  /\ CurrentState(traj, t) \in Point /\ CurrentState(traj, t).pos \in lo .. hi
           /\ << CurrentState(traj, t) >> \in Seq(Point)
           /\ InRange(<< CurrentState(traj, t) >>, lo, hi)
<1>1. CurrentState(traj, t) \in Point BY CurrentFact
<1>2. CurrentState(traj, t).pos = interpolate(traj, t) BY DEF CurrentState, At
<1>3. CurrentState(traj, t).pos \in lo .. hi BY <1>2, LookupInRange
<1> QED BY <1>1, <1>3, SingleInRange

LEMMA PairInRange ==
    ASSUME NEW lo, NEW hi, NEW p \in Point, NEW q \in Point, p.pos \in lo .. hi, q.pos \in lo .. hi
    PROVE  InRange(<< p, q >>, lo, hi)
<1>1. ASSUME NEW i \in 1 .. 2 PROVE << p, q >>[i].pos \in lo .. hi
  <2>1. i = 1 \/ i = 2 OBVIOUS
  <2> QED BY <2>1
<1> QED BY <1>1 DEF InRange

\* The four updates.
LEMMA WaypointsInRange ==
    ASSUME NEW lo \in Int, NEW hi \in Int, NEW traj \in Seq(Point), InRange(traj, lo, hi),
           NEW t \in Int, NEW w \in Point, w.pos \in lo .. hi, ~WaypointRefused(traj, t, w)
    PROVE  /\ InRange(append_waypoint(traj, t, w), lo, hi)
           /\ InRange(override_waypoint(traj, t, w), lo, hi)
<1> DEFINE c == << CurrentState(traj, t) >>
           f == From(traj, t + 1)
           b == Before(f, w.timestamp + 1)
<1>1. traj # << >> /\ w.timestamp + 1 \in Int /\ t + 1 \in Int BY DEF WaypointRefused, Point
<1>2. c \in Seq(Point) /\ InRange(c, lo, hi) BY <1>1, CurrentInRange
<1>3. << w >> \in Seq(Point) /\ InRange(<< w >>, lo, hi) BY SingleInRange
<1>4. append_waypoint(traj, t, w) = (c \o b) \o << w >> BY DEF append_waypoint
<1>5. InRange(override_waypoint(traj, t, w), lo, hi)
  <2>1. CurrentState(traj, t) \in Point /\ CurrentState(traj, t).pos \in lo .. hi
    BY <1>1, CurrentInRange
  <2> QED BY <2>1, PairInRange DEF override_waypoint
<1>6. f \in Seq(Point) /\ InRange(f, lo, hi) BY <1>1, FromFact, PartsInRange
<1> HIDE DEF c, f
<1>7. b \in Seq(Point) /\ InRange(b, lo, hi) BY <1>1, <1>6, BeforeFact, PartsInRange
<1> HIDE DEF b
<1>8. c \o b \in Seq(Point) /\ InRange(c \o b, lo, hi) BY <1>2, <1>7, ConcatInRange
<1>9. InRange((c \o b) \o << w >>, lo, hi) BY <1>3, <1>8, ConcatInRange
<1> QED BY <1>4, <1>5, <1>9

LEMMA TrajsInRange ==
    ASSUME NEW lo \in Int, NEW hi \in Int, NEW traj \in Seq(Point), InRange(traj, lo, hi),
           NEW t \in Int, NEW given \in Seq(Point), InRange(given, lo, hi),
           ~TrajRefused(traj, t, given), ~TrajIgnored(t, given)
    PROVE  /\ InRange(append_traj(traj, t, given), lo, hi)
           /\ InRange(override_traj(traj, t, given), lo, hi)
<1> DEFINE c == << CurrentState(traj, t) >>
           p == Pending(t, given)
           t1 == p[1].timestamp
           b == Before(traj, t1)
           k == From(b, t + 1)
<1>1. traj # << >> /\ p # << >> /\ t + 1 \in Int BY DEF TrajRefused, TrajIgnored
<1>2. c \in Seq(Point) /\ InRange(c, lo, hi) BY <1>1, CurrentInRange
<1>3. p \in Seq(Point) /\ InRange(p, lo, hi) BY FromFact, PartsInRange DEF Pending
<1>4. append_traj(traj, t, given) = (c \o k) \o p BY DEF append_traj
<1>5. override_traj(traj, t, given) = c \o p BY DEF override_traj
<1> HIDE DEF c, p
<1>6. t1 \in Int BY <1>1, <1>3, PointFact
<1> HIDE DEF t1
<1>7. b \in Seq(Point) /\ InRange(b, lo, hi) BY <1>6, BeforeFact, PartsInRange
<1> HIDE DEF b
<1>8. k \in Seq(Point) /\ InRange(k, lo, hi) BY <1>1, <1>7, FromFact, PartsInRange
<1> HIDE DEF k
<1>9. c \o k \in Seq(Point) /\ InRange(c \o k, lo, hi) BY <1>2, <1>8, ConcatInRange
<1>10. InRange((c \o k) \o p, lo, hi) BY <1>3, <1>9, ConcatInRange
<1>11. InRange(c \o p, lo, hi) BY <1>2, <1>3, ConcatInRange
<1> QED BY <1>4, <1>5, <1>10, <1>11

LEMMA RangeInit ==
    ASSUME TrajectoryAssumption, NEW lo \in Int, NEW hi \in Int, Positions \subseteq lo .. hi, Init
    PROVE  RangeOK(lo, hi)
<1>1. 0 \in lo .. hi /\ StartTime \in Int /\ \A p \in Positions : p \in Int /\ p \in lo .. hi
  BY DEF TrajectoryAssumption
<1>2. target.pos \in lo .. hi BY <1>1 DEF Init, Nowhere, At
<1>3. \A i : i \notin 1 .. Len(<< >>) OBVIOUS
<1>4. InRange(built, lo, hi) /\ InRange(todo, lo, hi) BY <1>3 DEF Init, InRange
<1>5. InRange(plan, lo, hi)
  <2>1. CASE plan = << >> BY <1>3, <2>1 DEF InRange
  <2>2. ASSUME NEW p \in Positions, plan = init_fixed(At(p, StartTime))
        PROVE  InRange(plan, lo, hi)
    <3>1. At(p, StartTime) \in Point /\ At(p, StartTime).pos \in lo .. hi
      BY <1>1, PointType DEF At
    <3> QED BY <2>2, <3>1, SingleInRange DEF init_fixed
  <2> QED BY <2>1, <2>2 DEF Init
<1> QED BY <1>2, <1>4, <1>5 DEF RangeOK

\* After a reset nothing of a command is left.
LEMMA ResetInRange ==
    ASSUME TrajectoryAssumption, NEW lo \in Int, NEW hi \in Int, Positions \subseteq lo .. hi, Reset
    PROVE  InRange(built', lo, hi) /\ InRange(todo', lo, hi) /\ target'.pos \in lo .. hi
<1>1. 0 \in lo .. hi BY DEF TrajectoryAssumption
<1>2. target'.pos = 0 BY DEF Reset, Nowhere, At
<1>3. \A i : i \notin 1 .. Len(<< >>) OBVIOUS
<1> QED BY <1>1, <1>2, <1>3 DEF Reset, InRange

LEMMA RangeNext ==
    ASSUME TrajectoryAssumption, NEW lo \in Int, NEW hi \in Int, Positions \subseteq lo .. hi,
           \A new \in Trajs : InRange(new, lo, hi), IInv, RangeOK(lo, hi), [Next]_vars
    PROVE  RangeOK(lo, hi)'
<1> USE DEF RangeOK
<1>0. /\ now \in Nat /\ plan \in Seq(Point) /\ built \in Seq(Point) /\ todo \in Seq(Point)
      /\ target \in Point /\ 0 \in lo .. hi
      /\ \A p \in Positions : p \in Int /\ p \in lo .. hi
      /\ \A w \in Waypoints : w \in Point /\ w.pos \in lo .. hi
      /\ \A new \in Trajs : new \in Seq(Point)
  BY WaypointType DEF IInv, TypeOK, TrajectoryAssumption, Waypoints
<1>1. CASE UNCHANGED vars \/ Tick \/ BgReadClock \/ BgLookup
  BY <1>1 DEF vars, locals, Tick, BgReadClock, BgLookup
<1>2. ASSUME NEW w \in Point, w.pos \in lo .. hi PROVE WithStamp(w).pos \in lo .. hi
  <2>1. WithStamp(w).pos = w.pos BY DEF WithStamp, Point
  <2> QED BY <1>2, <2>1
<1>3. CASE (\E w \in Waypoints : set_joint_cmd(w) \/ set_eef_cmd(w)) \/ reset_to_home \/ HomeReached
  <2>1. At(0, now + HomeWait).pos \in lo .. hi BY <1>0 DEF At
  <2>2. UNCHANGED << plan, built, todo >>
    BY <1>3 DEF set_joint_cmd, set_eef_cmd, reset_to_home, HomeReached
  <2>3. target'.pos \in lo .. hi
    BY <1>0, <1>2, <1>3, <2>1 DEF set_joint_cmd, set_eef_cmd, reset_to_home, HomeReached
  <2> QED BY <2>2, <2>3
<1>4. CASE SolveCmd \/ HomeRefused
  <2>1. UNCHANGED plan BY <1>4 DEF SolveCmd, HomeRefused
  <2>2. CASE Reset BY <2>1, <2>2, ResetInRange
  <2>3. CASE target' = WithStamp(target) /\ UNCHANGED << todo, built >>
    BY <1>0, <1>2, <2>1, <2>3
  <2> QED BY <1>4, <2>2, <2>3 DEF SolveCmd, HomeRefused
<1>5. CASE LockCmd
  <2>1. Reset BY <1>5 DEF LockCmd
  <2>2. CASE plan' = plan BY <2>1, <2>2, ResetInRange
  <2>3. CASE plan' = init_fixed(target)
    BY <1>0, <2>1, <2>3, ResetInRange, SingleInRange DEF init_fixed
  <2>4. CASE ~WaypointRefused(plan, now, target) /\ plan' = override_waypoint(plan, now, target)
    BY <1>0, <2>1, <2>4, ResetInRange, WaypointsInRange
  <2> QED BY <1>5, <2>2, <2>3, <2>4 DEF LockCmd
<1>6. ASSUME NEW p \in Positions, NEW t \in Int PROVE At(p, t) \in Point /\ At(p, t).pos \in lo .. hi
  BY <1>0, PointType DEF At
<1>7. CASE LockHome
  <2>1. CASE plan' = plan /\ Reset BY <2>1, ResetInRange
  <2>2. ASSUME NEW p \in Positions, plan' = init(At(p, now), target), UNCHANGED locals
        PROVE  RangeOK(lo, hi)'
    <3>1. At(p, now) \in Point /\ At(p, now).pos \in lo .. hi BY <1>0, <1>6
    <3>2. InRange(<< At(p, now), target >>, lo, hi) BY <1>0, <3>1, PairInRange
    <3>3. InRange(plan', lo, hi) BY <2>2, <3>2 DEF init
    <3> QED BY <2>2, <3>3 DEF locals
  <2> QED BY <1>7, <2>1, <2>2 DEF LockHome
<1>8. CASE set_to_damping
  <2>1. PICK p \in Positions : plan' = init_fixed(At(p, now)) BY <1>8 DEF set_to_damping
  <2>2. InRange(plan', lo, hi) BY <1>0, <1>6, <2>1, SingleInRange DEF init_fixed
  <2> QED BY <1>8, <2>2 DEF set_to_damping, locals
<1>9. ASSUME NEW new \in Trajs, BeginTraj(new) PROVE RangeOK(lo, hi)'
  <2>1. plan # << >> /\ plan' = plan BY <1>9 DEF BeginTraj, Begin, Controllers, IInv, PlanOK
  <2>2. CASE now - 2 * Window <= 0 BY <1>9, <2>1, <2>2 DEF BeginTraj, locals
  <2>3. CASE ~(now - 2 * Window <= 0)
    <3> DEFINE a == CurrentState(plan, now - 2 * Window)
               b == CurrentState(plan, now - Window)
               c == CurrentState(plan, now)
    <3>1. built' = << a, b, c >> /\ todo' = new /\ target' = target
      BY <1>9, <2>3 DEF BeginTraj
    <3>2. now - 2 * Window \in Int /\ now - Window \in Int /\ now \in Int
      BY <1>0 DEF Window, TrajectoryAssumption
    <3>3. a.pos \in lo .. hi /\ b.pos \in lo .. hi /\ c.pos \in lo .. hi
      BY <1>0, <2>1, <3>2, CurrentInRange
    <3> HIDE DEF a, b, c
    <3>4. ASSUME NEW i \in 1 .. 3 PROVE << a, b, c >>[i].pos \in lo .. hi
      <4>1. i = 1 \/ i = 2 \/ i = 3 OBVIOUS
      <4> QED BY <3>3, <4>1
    <3>5. InRange(built', lo, hi) BY <3>1, <3>4 DEF InRange
    <3> QED BY <2>1, <3>1, <3>5
  <2> QED BY <2>2, <2>3
<1>10. CASE Collect
  <2>1. pc = "collect" /\ todo # << >> /\ plan' = plan BY <1>10 DEF Collect
  <2>2. Head(todo) \in Point /\ Head(todo).pos \in lo .. hi
        /\ Tail(todo) \in Seq(Point) /\ InRange(Tail(todo), lo, hi)
    <3>1. /\ Len(todo) \in Nat \ {0} /\ Head(todo) = todo[1] /\ todo[1] \in Point
          /\ Tail(todo) \in Seq(Point) /\ Len(Tail(todo)) = Len(todo) - 1
          /\ \A i \in 1 .. Len(Tail(todo)) : Tail(todo)[i] = todo[i + 1]
      BY <1>0, <2>1
    <3>2. 1 \in 1 .. Len(todo) /\ \A i \in 1 .. Len(Tail(todo)) : i + 1 \in 1 .. Len(todo)
      BY <3>1
    <3> QED BY <3>1, <3>2 DEF InRange
  <2>3. CASE Reset BY <2>1, <2>3, ResetInRange
  <2>4. CASE todo' = Tail(todo) /\ UNCHANGED << target, built >>
    BY <2>1, <2>2, <2>4
  <2>5. CASE todo' = Tail(todo) /\ UNCHANGED target /\ built' = Append(built, Head(todo))
    <3> DEFINE w == Head(todo)
    <3>1. w \in Point /\ w.pos \in lo .. hi BY <2>2
    <3> HIDE DEF w
    <3>2. Append(built, w) = built \o << w >> BY <1>0, <3>1
    <3>3. InRange(built \o << w >>, lo, hi) BY <1>0, <3>1, SingleInRange, ConcatInRange
    <3>4. InRange(built', lo, hi) BY <2>5, <3>2, <3>3 DEF w
    <3> QED BY <2>1, <2>2, <2>5, <3>4
  <2> QED BY <1>10, <2>3, <2>4, <2>5 DEF Collect
<1>11. CASE Collected \/ NextVelocity \/ VelocityDone
  BY <1>11 DEF Collected, NextVelocity, VelocityDone
<1>12. CASE LockTraj
  <2>1. Reset BY <1>12 DEF LockTraj
  <2>2. TrajTime \in Int BY <1>0 DEF TrajTime, IInv, TypeOK
  <2>3. CASE plan' = plan BY <2>1, <2>3, ResetInRange
  <2>4. CASE /\ ~TrajRefused(plan, TrajTime, built) /\ ~TrajIgnored(TrajTime, built)
             /\ plan' = override_traj(plan, TrajTime, built)
    BY <1>0, <2>1, <2>2, <2>4, ResetInRange, TrajsInRange
  <2> QED BY <1>12, <2>3, <2>4 DEF LockTraj
<1>13. ASSUME NEW p \in Positions, NEW w \in Waypoints, UseInit(p, w) PROVE RangeOK(lo, hi)'
  <2>1. UNCHANGED locals BY <1>13 DEF UseInit
  <2>2. CASE plan' = plan BY <2>1, <2>2 DEF locals
  <2>3. CASE plan' = init(At(p, now), w)
    <3>1. At(p, now) \in Point /\ At(p, now).pos \in lo .. hi BY <1>0, <1>6
    <3>2. InRange(<< At(p, now), w >>, lo, hi) BY <1>0, <3>1, PairInRange
    <3>3. InRange(plan', lo, hi) BY <2>3, <3>2 DEF init
    <3> QED BY <2>1, <3>3 DEF locals
  <2> QED BY <1>13, <2>2, <2>3 DEF UseInit
<1>14. ASSUME NEW w \in Waypoints, UseWaypoint(w) PROVE RangeOK(lo, hi)'
  <2>1. UNCHANGED locals BY <1>14 DEF UseWaypoint
  <2>2. InRange(plan', lo, hi)
    BY <1>0, <1>14, WaypointsInRange DEF UseWaypoint
  <2> QED BY <2>1, <2>2 DEF locals
<1>15. ASSUME NEW new \in Trajs, UseTraj(new) PROVE RangeOK(lo, hi)'
  <2>1. UNCHANGED locals BY <1>15 DEF UseTraj
  <2>2. InRange(plan', lo, hi)
    BY <1>0, <1>15, TrajsInRange DEF UseTraj
  <2> QED BY <2>1, <2>2 DEF locals
<1> QED BY <1>1, <1>3, <1>4, <1>5, <1>7, <1>8, <1>9, <1>10, <1>11, <1>12, <1>13, <1>14, <1>15
        DEF Next

(* However commands are given, the position that the arm is told to go to,  *)
(* between two points as well, stays within any range that holds where it   *)
(* has been and every position asked for: the interpolation of traj_ does   *)
(* not overshoot, and no cut of the trajectory makes it.                    *)
THEOREM NoOvershoot ==
    ASSUME TrajectoryAssumption, NEW lo \in Int, NEW hi \in Int,
           Positions \subseteq lo .. hi, \A new \in Trajs : InRange(new, lo, hi)
    PROVE  Spec => [](plan # << >> => \A t \in Int : interpolate(plan, t) \in lo .. hi)
<1>1. Init => IInv /\ RangeOK(lo, hi) BY InitOK, RangeInit
<1>2. IInv /\ RangeOK(lo, hi) /\ [Next]_vars => (IInv /\ RangeOK(lo, hi))' BY NextOK, RangeNext
<1>3. IInv /\ RangeOK(lo, hi) => (plan # << >> => \A t \in Int : interpolate(plan, t) \in lo .. hi)
  BY LookupInRange DEF IInv, TypeOK, RangeOK
<1> QED BY <1>1, <1>2, <1>3, PTL DEF Spec
=============================================================================
