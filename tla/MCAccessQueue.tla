--------------------------- MODULE MCAccessQueue ----------------------------
(* Three cores: a full queue, two pushes or pulls in a clock and one access *)
(* left over.                                                               *)
EXTENDS AccessQueue, TLC

CpuSymmetry == Permutations(Cpus)
=============================================================================
