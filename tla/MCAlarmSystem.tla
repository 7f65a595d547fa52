---------------------------- MODULE MCAlarmSystem ----------------------------
(* Instance of AlarmSystem for TLC. *)
EXTENDS AlarmSystem, TLC

CONSTANTS center

\* The account that may give every command.
CenterPriv == [o \in Operators |-> 1]
=============================================================================
