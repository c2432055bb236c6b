----------------------------- MODULE MCMemMonitor -----------------------------
(* Two slots, so that a ring is full, wraps, and swaps requests at once;    *)
(* two cores for rows of one core with another one behind.                  *)
EXTENDS MemMonitor, TLC

CoreSymmetry == Permutations(Cores)
=============================================================================
