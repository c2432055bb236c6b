---------------------------- MODULE CompareBench ----------------------------
(***************************************************************************)
(* The comparator on its own, driven the way its instance in RVCell.sv and *)
(* its test bench drive it: the datasets are presented during reset and    *)
(* kept while the unit works; the clock enable may pause.                  *)
(***************************************************************************)
EXTENDS CompareUnit

VARIABLES
  sets,    \* the datasets presented to the unit
  used,    \* used_datasets
  clocks   \* history: enabled clocks since the last reset, until done

benchVars == <<i, j, match_vector, match_cnt, done, sets, used, clocks>>

NPairs(n) == (n * (n - 1)) \div 2

BenchTypeOK ==
  /\ CompareTypeOK
  /\ sets \in [Lane -> Word]
  /\ used \in 2..MAX_DATASETS /\ used \in Nibble
  /\ clocks \in Nat

BenchInit ==
  /\ CompareCleared
  /\ sets \in [Lane -> Word]
  /\ used \in 2..MAX_DATASETS /\ used \in Nibble
  /\ clocks = 0

\* A reset clock, after which other datasets and another mode are presented.
Present ==
  /\ CompareEdge(TRUE, FALSE, sets, used)
  /\ sets' \in [Lane -> Word]
  /\ used' \in 2..MAX_DATASETS /\ used' \in Nibble
  /\ clocks' = 0

\* An enabled clock.
Compare ==
  /\ CompareEdge(FALSE, TRUE, sets, used)
  /\ clocks' = IF done THEN clocks ELSE clocks + 1
  /\ UNCHANGED <<sets, used>>

\* A clock with neither reset nor enable.
Pause ==
  /\ CompareEdge(FALSE, FALSE, sets, used)
  /\ UNCHANGED <<sets, used, clocks>>

BenchNext == Present \/ Compare \/ Pause

BenchSpec == BenchInit /\ [][BenchNext]_benchVars

-----------------------------------------------------------------------------
\* Walking the pairs one at a time neither skips, repeats nor invents a match:
\* each counter is the number of datasets in use already found equal to its
\* own (CompareUnit.sv:62-70), at every clock and not only at the end.
CountsExact == COUNT_MATCHES => CountsAgree(sets, used)

\* The position the table of RootVoter.h gives to the pair (p, q): the last
\* pair of the walk is bit 0 and each earlier pair is one bit higher.
TableBit(p, q) == NPairs(used - p - 1) + (used - 1 - q)

\* When the walk is over every pair of datasets in use has its flag at the bit
\* the table documents, and no other bit is set (CompareUnit.sv:55-60).
VectorDecodes ==
  LIST_MATCHES /\ done =>
    /\ \A p, q \in 0..(used - 1) :
         p < q => (match_vector[TableBit(p, q)] <=> sets[p] = sets[q])
    /\ \A b \in Bit : match_vector[b] => b < NPairs(used)

\* The voting time the register map documents: N*(N-1)/2 enabled clocks, no
\* more, and the unit is not done earlier (rootvoter.sv:59-75).
VotingTime ==
  /\ clocks <= NPairs(used)
  /\ done <=> clocks = NPairs(used)
=============================================================================
