--------------------------- MODULE MCSecurityPanel ---------------------------
(* Instances of SecurityPanel for TLC. *)
EXTENDS SecurityPanel, TLC

CONSTANTS center, user1, user3

\* accounts[] of server.c.
AccountPriv == [o \in Operators |-> CASE o = center -> 1
                                      [] o = user1  -> 2
                                      [] o = user3  -> 3]
=============================================================================
