-------------------------- MODULE MCArmTrajectory --------------------------
(* A small instance of ArmTrajectory.  A tick is 25 ms; positions are       *)
(* hundredths, so that rounding stays far below the distance of two.        *)
EXTENDS ArmTrajectory

MCClients == {"joint", "cartesian", "interpolator"}
MCPositions == {0, 600}
MCStamps == {0, 6, 8, 10}
MCPreview == [c \in MCClients |-> IF c = "cartesian" THEN 4 ELSE 0]
W(p, t) == At(p, t)
MCTrajs == { << >>, << W(600, 8) >>, << W(0, 0), W(600, 7), W(0, 9) >>,
             << W(600, 7), W(0, 7) >>, << W(600, 9), W(0, 8) >> }
=============================================================================
