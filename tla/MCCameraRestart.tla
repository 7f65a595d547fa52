--------------------------- MODULE MCCameraRestart ---------------------------
(* Instance of CameraRestart for TLC: the constants are given in the .cfg. *)
EXTENDS CameraRestart, TLC

CONSTANTS c1, c2
=============================================================================
