-------------------------- MODULE MCSpaceMouseMotion --------------------------
(* Bounds for TLC: four slots for windows of up to three items, a budget of  *)
(* one tick, and enough puts to go around once.                              *)
EXTENDS SpaceMouseMotion
=============================================================================
