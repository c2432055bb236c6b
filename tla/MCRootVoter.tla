---------------------------- MODULE MCRootVoter -----------------------------
(* Three set registers and one register beyond them; mode 2oo3 with windows *)
(* of 0 and 2 clocks, 2oo2, one mode the cell refuses (3oo2) and the        *)
(* cleared configuration that acknowledges a result.                        *)
EXTENDS RootVoter

MCTimeout == {0, 2}
Mode(m, n, t) == [reset |-> FALSE, timeout |-> t, M |-> m, N |-> n]
MCConfigs == {Mode(2, 3, 2), Mode(2, 3, 0), Mode(2, 2, 0), Mode(3, 2, 0), NoConfig}
MCSetRegister == 0..3

\* A configuration below two datasets written in mid-vote keeps the comparator
\* walking for ever with wrapping counters; the run follows it until the first
\* pointer past the last set register.
WalkBound == j <= MAX_DATASETS /\ i <= MAX_DATASETS
=============================================================================
