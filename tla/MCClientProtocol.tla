-------------------------- MODULE MCClientProtocol --------------------------
(* Instance of ClientProtocol for TLC: the constants are given in the .cfg. *)
EXTENDS ClientProtocol, TLC
=============================================================================
