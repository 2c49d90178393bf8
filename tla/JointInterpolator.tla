------------------------- MODULE JointInterpolator -------------------------
(***************************************************************************)
(* JointStateInterpolator of arx5-sdk/src/utils.cpp: the time-stamped      *)
(* trajectory traj_ that the arm follows, as operators on the sequence.    *)
(* An empty sequence is an interpolator that is not initialized_.          *)
(*                                                                         *)
(* Data: the joint vector is one integer; the velocities and torques of a  *)
(* point are left out, since config.h gives every controller the "linear"  *)
(* method, in which they do not act on the position.  Time is counted in   *)
(* ticks, so that "not after t" is "before t + 1".  Division rounds down.  *)
(*                                                                         *)
(* Operators named X_Variant are plausible wrong versions of X.            *)
(***************************************************************************)
EXTENDS Integers, Sequences

Point == [pos : Int, timestamp : Int]
At(p, t) == [pos |-> p, timestamp |-> t]
Final(traj) == traj[Len(traj)]

\* How many points the loop "while traj[0].timestamp < t: erase" removes.
Leading(traj, t) ==
    CHOOSE k \in 0 .. Len(traj) :
        /\ \A j \in 1 .. k : traj[j].timestamp < t
        /\ k < Len(traj) => traj[k + 1].timestamp >= t

Before(traj, t) == SubSeq(traj, 1, Leading(traj, t))
From(traj, t) == SubSeq(traj, Leading(traj, t) + 1, Len(traj))

Covers(traj, i, t) == traj[i].timestamp <= t /\ t <= traj[i + 1].timestamp

\* The segment the loop of interpolate stops at.
Segment(traj, t) ==
    CHOOSE i \in 1 .. Len(traj) - 1 :
        Covers(traj, i, t) /\ \A j \in 1 .. i - 1 : ~Covers(traj, j, t)

OnSegment(p, q, t) ==
    p.pos + ((q.pos - p.pos) * (t - p.timestamp)) \div (q.timestamp - p.timestamp)

interpolate(traj, t) ==
    IF Len(traj) = 1 \/ t <= traj[1].timestamp THEN traj[1].pos
    ELSE IF t >= Final(traj).timestamp THEN Final(traj).pos
    ELSE LET i == Segment(traj, t) IN OnSegment(traj[i], traj[i + 1], t)

CurrentState_NoStamp(traj, t) == [pos |-> interpolate(traj, t)]
\* The point every update keeps: where the old trajectory is at that time.
CurrentState(traj, t) == At(interpolate(traj, t), t)

init(start, end) == << start, end >>
init_fixed(start) == << start >>

\* What append_waypoint and override_waypoint refuse.
WaypointRefused(traj, t, w) ==
    traj = << >> \/ w.timestamp <= t \/ t < traj[1].timestamp

append_waypoint_NoBreak(traj, t, w) ==
    << CurrentState(traj, t) >> \o From(traj, t + 1) \o << w >>
append_waypoint_ForgetsRest(traj, t, w) ==
    << CurrentState(traj, t), w >>
\* Points of the old trajectory up to the new one stay, later ones go.
append_waypoint(traj, t, w) ==
    << CurrentState(traj, t) >> \o Before(From(traj, t + 1), w.timestamp + 1) \o << w >>

override_waypoint_FromStart(traj, t, w) == << traj[1], w >>
override_waypoint(traj, t, w) == << CurrentState(traj, t), w >>

\* The points a trajectory call still has when it has removed the late ones.
Pending(t, new) == From(new, t)

Ascending(traj) ==
    \A i \in 1 .. Len(traj) - 1 : traj[i].timestamp <= traj[i + 1].timestamp

\* What append_traj and override_traj refuse; without pending points they
\* return at once.  The test is ">", so equal time stamps pass.
TrajRefused(traj, t, new) ==
    \/ traj = << >>
    \/ Pending(t, new) # << >> /\ (~Ascending(Pending(t, new)) \/ t < traj[1].timestamp)
TrajIgnored(t, new) == Pending(t, new) = << >>

append_traj(traj, t, new) ==
    LET pending == Pending(t, new)
    IN  << CurrentState(traj, t) >>
        \o From(Before(traj, pending[1].timestamp), t + 1) \o pending

override_traj(traj, t, new) == << CurrentState(traj, t) >> \o Pending(t, new)

-----------------------------------------------------------------------------
(* calc_joint_vel: the four indices of one pass of its loop, on a trajectory *)
(* of time stamps, with the window W = avg_window_s and half of it.          *)

\* "while idx < last && stamp of idx + ahead < bound: idx++"
Advance(traj, idx, last, ahead, bound) ==
    CHOOSE k \in idx .. (IF idx > last THEN idx ELSE last) :
        /\ \A j \in idx .. k - 1 : traj[j + ahead].timestamp < bound
        /\ k < last => traj[k + ahead].timestamp >= bound

\* Indices count from 1 here: idx_0 and idx_1 stop one before the last point.
calc_joint_vel_BackHalf(traj, i, idx, half) ==
    LET t == traj[i].timestamp
        n == Len(traj)
    IN  << Advance(traj, idx[1], n - 1, 1, t - 2 * half),
           Advance(traj, idx[2], n - 1, 1, t - half),
           Advance(traj, idx[3], n, 0, t - half),
           Advance(traj, idx[4], n, 0, t + 2 * half) >>
calc_joint_vel(traj, i, idx, half) ==
    LET t == traj[i].timestamp
        n == Len(traj)
    IN  << Advance(traj, idx[1], n - 1, 1, t - 2 * half),
           Advance(traj, idx[2], n - 1, 1, t - half),
           Advance(traj, idx[3], n, 0, t + half),
           Advance(traj, idx[4], n, 0, t + 2 * half) >>
=============================================================================
