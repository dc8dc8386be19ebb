------------------------------ MODULE MCHashRing ------------------------------
(***************************************************************************)
(* HashRing for TLC: the rings of two servers out of three, and every hash *)
(* function with three values.                                             *)
(***************************************************************************)
EXTENDS HashRing, TLC

CONSTANTS s1, s2, s3, k1

Symmetry == Permutations({s1, s2})
===============================================================================
