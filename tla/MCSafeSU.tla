------------------------------ MODULE MCSafeSU ------------------------------
(* Three neighbours in the crossbar, the middle one in two registers; two   *)
(* inputs on either side of the end of a weight register.  An event and a   *)
(* weight are given by their bits.                                          *)
EXTENDS SafeSU

MCOutputs == {3, 4, 5}
MCEvents == {{0, 1, 2, 3, 4, 5, 6}, {1, 3, 5}}
MCInputs == {3, 4}
MCWeights == {{0, 1, 2, 3, 4, 5, 6, 7}, {0, 7}}
MCMasks == {{0, 5}}
MCCores == {0, MCCU_N_CORES - 1}
=============================================================================
