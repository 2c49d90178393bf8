---------------------------- MODULE MCWbcControl ----------------------------
(* A small instance of WbcControl for TLC.                                 *)
EXTENDS WbcControl

AllStandupModes == {"internal", "pose_test"}
AllBaseSources  == {"fixed", "wireless_joystick"}
=============================================================================
