----------------------------- MODULE MCDiscovery -----------------------------
(***************************************************************************)
(* Discovery and Registry for TLC: one server whose heartbeats may be late *)
(* or end, and two callers that meet at d.mu.  Time runs as long as a lease*)
(* and a list can keep a server that has gone.  Servers meet nowhere but   *)
(* in the map of the registry, one entry each.                             *)
(***************************************************************************)
EXTENDS Discovery

CONSTANTS s1, g1, g2

\* The callers differ in nothing but the method they start with.
MCInit == Init /\ (pc[g1] = "update" => pc[g2] = "update")

MCSpec == MCInit /\ [][Next]_vars /\ Fairness
==============================================================================
