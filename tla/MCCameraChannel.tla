--------------------------- MODULE MCCameraChannel ---------------------------
(* Instances of CameraChannel for TLC. *)
EXTENDS CameraChannel, TLC

CONSTANTS c1, c2, c3

\* The commands server.c issues: 10, 11, 17 and 18.
ServerCommands == {"suspend", "active", "close_alarm", "trigger_alarm"}

\* Two commands that undo each other and the question about them.
AskingCommands == {"suspend", "active", "check_active"}

\* Two commands that undo each other and one of the other flag.
OverlapCommands == {"suspend", "active", "trigger_alarm"}

Symmetry == Permutations(Callers)
=============================================================================
