--------------------------- MODULE MCClientSessions --------------------------
(* Instances of ClientSessions for TLC. *)
EXTENDS ClientSessions, TLC

CONSTANTS k1, k2, k3, t1, t2, t3, center, user1

\* Accounts too: they only differ in what SecurityPanel allows them.
Symmetry ==
    Permutations(Clients) \cup Permutations(Threads) \cup Permutations(Accounts)
=============================================================================
