---------------------------- MODULE MCCacheGroup ----------------------------
(***************************************************************************)
(* CacheGroup for TLC: two nodes and two requests, each on a node of its   *)
(* choice and for a key of its choice.  "a b" belongs to n1 and is asked   *)
(* there as "a+b", which belongs to n2 and is the one key the source has.  *)
(* `other` belongs to n1, is not in the source and arrives as it is.       *)
(* The requests are interchangeable: of two initial states that differ     *)
(* only in which request is which, MCSpec keeps one.                       *)
(***************************************************************************)
EXTENDS CacheGroup

CONSTANTS n1, n2, space, plus, other, t1, t2

MCOwner == [k \in Keys |-> IF k = plus THEN n2 ELSE n1]
MCEscaped == [k \in Keys |-> IF k = space THEN plus ELSE k]

Rank(t) == (CASE key[t] = space -> 0 [] key[t] = plus -> 2 [] OTHER -> 4)
           + (IF home[t] = n1 THEN 0 ELSE 1)

MCInit == Init /\ Rank(t1) <= Rank(t2)

MCSpec == MCInit /\ [][Next]_vars /\ Fairness
==============================================================================
