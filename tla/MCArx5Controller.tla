-------------------------- MODULE MCArx5Controller --------------------------
(***************************************************************************)
(* A TLC instance of Arx5Controller.  Five positions: a command may be       *)
(* further from the arm than the two steps that a pass commands and moves.  *)
(***************************************************************************)
EXTENDS Arx5Controller
=============================================================================
