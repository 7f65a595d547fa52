---------------------------- MODULE MCSentryCamera ----------------------------
(* Instance of SentryCamera for TLC: the constants are given in the .cfg. *)
EXTENDS SentryCamera, TLC
=============================================================================
