------------------------- MODULE MCRootVoterDriver --------------------------
(* Three set registers and three workers.  A caller that joins its workers  *)
(* and ignores errors votes in 2oo3 and 3oo3 with windows of 0 and 4 clocks *)
(* and asks for 1oo3 and 2oo4, which RVC_reset refuses; one that checks and *)
(* does not join votes in 2oo3 with a window of 4.  The violation run has a *)
(* caller of four workers.                                                  *)
EXTENDS RootVoterDriver

MCTimeout == 0..7
MCWorkers == 0..2
FourWorkers == 0..3

MCCallers ==
  {[joins |-> TRUE, ignores |-> TRUE,
    modes |-> {<<2, 3>>, <<3, 3>>, <<1, 3>>, <<2, 4>>}, waits |-> {0, 4}],
   [joins |-> FALSE, ignores |-> FALSE,
    modes |-> {<<2, 3>>, <<1, 3>>}, waits |-> {4}]}

TwoOfFour ==
  {[joins |-> TRUE, ignores |-> TRUE, modes |-> {<<2, 4>>}, waits |-> {4}]}
=============================================================================
