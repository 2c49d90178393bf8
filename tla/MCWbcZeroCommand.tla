-------------------------- MODULE MCWbcZeroCommand --------------------------
(* A small instance of WbcZeroCommand for TLC.                             *)
EXTENDS WbcZeroCommand

InternalOnly == {"internal"}
FixedOnly    == {"fixed"}
=============================================================================
