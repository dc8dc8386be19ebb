------------------------------- MODULE MCRouter -------------------------------
(***************************************************************************)
(* Router for TLC: patterns of up to two parts, and two of three parts     *)
(* that search can only tell apart by coming back.  ":x" and "*x" share a  *)
(* name, and "*" has none.  Some paths have parts like these, too.         *)
(***************************************************************************)
EXTENDS Router, TLC

CONSTANTS a, b, x, y, f, star, nx, ny, get, post

MCNameOf == [w \in Wild |-> CASE w = y -> ny [] w = star -> None [] OTHER -> nx]

MCPatterns ==
    {<<>>} \cup {<<p>> : p \in Part}
           \cup {<<p, q>> : p \in Part \ Stars, q \in Part \ {star}}
           \cup {<<f, a>>, <<a, star>>, <<a, x, b>>, <<x, a, f>>}

MCPaths ==
    UNION {[1..n -> Names] : n \in 0..2} \cup {<<p, q, b>> : p, q \in Names}
    \cup {<<x>>, <<f>>, <<x, b>>, <<a, x>>, <<a, f>>, <<f, a>>}

Symmetry == Permutations({get, post})
===============================================================================
