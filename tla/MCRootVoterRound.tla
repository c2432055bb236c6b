-------------------------- MODULE MCRootVoterRound --------------------------
(* Four set registers and three words; 2oo4, 3oo4, 2oo3, 3oo3 and 2oo2;      *)
(* windows of 0 and 3 clocks.                                              *)
EXTENDS RootVoterRound

MCTimeout == {0, 3}
Mode(m, n, t) == [reset |-> FALSE, timeout |-> t, M |-> m, N |-> n]
MCConfigs ==
  {Mode(2, 4, 3), Mode(3, 4, 3), Mode(2, 3, 3), Mode(3, 3, 3), Mode(2, 2, 3), Mode(2, 3, 0)}
MCSetRegister == 0..3
=============================================================================
