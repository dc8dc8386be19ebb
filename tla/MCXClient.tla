------------------------------ MODULE MCXClient ------------------------------
(***************************************************************************)
(* XClient for TLC: two users and two servers.  A BroadCast to both finds  *)
(* Clients only if the users' calls have put them in the map before.       *)
(***************************************************************************)
EXTENDS XClient, TLC

CONSTANTS u1, u2, s1, s2

Symmetry == Permutations({u1, u2}) \cup Permutations({s1, s2})
==============================================================================
