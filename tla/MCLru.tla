-------------------------------- MODULE MCLru --------------------------------
(***************************************************************************)
(* Lru for TLC: four keys of length 1 and values of length 0, 1, 3 and 4.  *)
(* With a limit of 4 two or more entries fit, an entry with the long value *)
(* just fits and one with the huge value never does, and a few updates     *)
(* leave the cache over its limit by more than one eviction can repair.    *)
(* With the limit 0 of lru_test.go nothing fits.                           *)
(***************************************************************************)
EXTENDS Lru

CONSTANTS k1, k2, k3, k4, empty, short, long, huge

MCLenOf == [x \in Keys \cup Values |->
              CASE x = empty -> 0 [] x = long -> 3 [] x = huge -> 4 [] OTHER -> 1]
==============================================================================
