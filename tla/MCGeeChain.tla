----------------------------- MODULE MCGeeChain ------------------------------
(***************************************************************************)
(* GeeChain for TLC: Recovery and another middleware, two groups, and lists*)
(* long enough for an array with room behind its last.                     *)
(***************************************************************************)
EXTENDS GeeChain

CONSTANT logger
==============================================================================
