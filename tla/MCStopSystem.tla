---------------------------- MODULE MCStopSystem ----------------------------
(***************************************************************************)
(* A TLC instance of StopSystem: the counter of /arm/home messages is the   *)
(* only unbounded state, and StopProtocol sends at most one.                *)
(***************************************************************************)
EXTENDS StopSystem
=============================================================================
