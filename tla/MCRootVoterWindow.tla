------------------------- MODULE MCRootVoterWindow --------------------------
(* Three set registers; 2oo3 and 2oo2 with windows of 0, 1 and 3 clocks; the *)
(* ages that matter end two clocks after the longest window.                *)
EXTENDS RootVoterWindow

MCTimeout == {0, 1, 3}
MCConfigs == [reset : {FALSE}, timeout : MCTimeout, M : {2}, N : {2, 3}]
MCSetRegister == 0..2
=============================================================================
