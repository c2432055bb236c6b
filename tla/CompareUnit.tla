---------------------------- MODULE CompareUnit ----------------------------
(***************************************************************************)
(* The dataset comparator of a RootVoter cell,                             *)
(* src/safety/rootvoter_v2/hw/CompareUnit.sv.                              *)
(*                                                                         *)
(* The unit walks over the pairs (i, j) of the datasets in use, one pair a *)
(* clock.  For each pair it may push the match flag into a shift register  *)
(* (match_vector) and count the match for both members (match_cnt).        *)
(* An action of this module is one rising edge of clk seen by the          *)
(* registers of the unit; its inputs (sets, used_datasets) are parameters, *)
(* because the unit only samples wires that others drive.                  *)
(***************************************************************************)
EXTENDS Integers, FiniteSets

CONSTANTS
  MAX_DATASETS,    \* number of set registers built into the hardware
  COUNT_MATCHES,   \* generate the match counters?
  LIST_MATCHES,    \* generate the match vector?
  Word,            \* the values of a dataset register
  Zero             \* the value a dataset register is reset to

ASSUME MaxDatasetsAssumption == MAX_DATASETS \in 2..16
ASSUME FeatureAssumption == COUNT_MATCHES \in BOOLEAN /\ LIST_MATCHES \in BOOLEAN
ASSUME ZeroAssumption == Zero \in Word

Lane   == 0..(MAX_DATASETS - 1)
Nibble == 0..15                                   \* logic [3:0]
MBITS  == (MAX_DATASETS * (MAX_DATASETS - 1)) \div 2
Bit    == 0..(MBITS - 1)                          \* the bits that ever change

VARIABLES i, j, match_vector, match_cnt, done

compareVars == <<i, j, match_vector, match_cnt, done>>

CompareTypeOK ==
  /\ i \in Nibble
  /\ j \in Nibble
  /\ match_vector \in [Bit -> BOOLEAN]
  /\ match_cnt \in [Lane -> Nibble]
  /\ done \in BOOLEAN

CompareCleared ==
  /\ i = 0
  /\ j = 1
  /\ match_vector = [b \in Bit |-> FALSE]
  /\ match_cnt = [k \in Lane |-> 0]
  /\ done = FALSE

-----------------------------------------------------------------------------
(* The comparator reads sets[i] and sets[j].  A pointer past the last set  *)
(* register reads no register: the flag is then whatever the synthesised   *)
(* multiplexer yields.                                                     *)
MatchOutcomes(sets) ==
  IF i \in Lane /\ j \in Lane THEN {sets[i] = sets[j]} ELSE BOOLEAN

\* Mutant: a register that shifts down.
DownShiftIn(flag) ==
  [b \in Bit |-> IF b = MBITS - 1 THEN flag ELSE match_vector[b + 1]]

\* The newest flag enters at bit 0.
ShiftIn(flag) ==
  [b \in Bit |-> IF b = 0 THEN flag ELSE match_vector[b - 1]]

\* Mutant: only the first member of the pair is credited.
CountMatchFirstOnly == [match_cnt EXCEPT ![i] = (@ + 1) % 16]

\* Both members are credited.  A write to a counter that does not exist is
\* ignored.
CountMatch ==
  [k \in Lane |-> IF k \in {i, j} THEN (match_cnt[k] + 1) % 16 ELSE match_cnt[k]]

\* Mutant: one row too many.
LastRowLate(used) == used >= 1 /\ i >= used - 1

\* The differences used-2 and used-1 are 32-bit unsigned: for used below 2 or
\* 1 they wrap to a value no 4-bit pointer reaches.
LastRow(used) == used >= 2 /\ i >= used - 2

RowContinues(used) == used = 0 \/ j < used - 1

FinishWalk(used) ==
  /\ LastRow(used)
  /\ done' = TRUE
  /\ UNCHANGED <<i, j>>

NextInRow(used) ==
  /\ ~LastRow(used)
  /\ RowContinues(used)
  /\ j' = (j + 1) % 16
  /\ UNCHANGED <<i, done>>

NextRow(used) ==
  /\ ~LastRow(used)
  /\ ~RowContinues(used)
  /\ i' = (i + 1) % 16
  /\ j' = (i + 2) % 16
  /\ UNCHANGED done

-----------------------------------------------------------------------------
CompareReset ==
  /\ i' = 0
  /\ j' = 1
  /\ match_vector' = [b \in Bit |-> FALSE]
  /\ match_cnt' = [k \in Lane |-> 0]
  /\ done' = FALSE

RecordMatch(flag) ==
  /\ match_vector' = IF LIST_MATCHES /\ ~done THEN ShiftIn(flag) ELSE match_vector
  /\ match_cnt' = IF COUNT_MATCHES /\ ~done /\ i # j /\ flag
                    THEN CountMatch ELSE match_cnt

CompareStep(sets, used) ==
  /\ \E flag \in MatchOutcomes(sets) : RecordMatch(flag)
  /\ FinishWalk(used) \/ NextInRow(used) \/ NextRow(used)

CompareHold == UNCHANGED compareVars

(* One clock edge: reset has priority over en.                             *)
CompareEdge(reset, en, sets, used) ==
  \/ reset /\ CompareReset
  \/ ~reset /\ en /\ CompareStep(sets, used)
  \/ ~reset /\ ~en /\ CompareHold
-----------------------------------------------------------------------------
(* What the counters stand for, for the proofs and for the modules that    *)
(* drive the unit: of the n datasets in use, the pairs that a unit in row  *)
(* a and column b has already looked at.  Past the last pair it is as if   *)
(* in row n: it has seen them all.                                         *)
SeenAt(n, a, b, p, q) == p < q /\ q < n /\ (p < a \/ (p = a /\ q < b))

\* The datasets found so far to agree with dataset k of S.
MatchesAt(S, n, a, b, k) ==
  {m \in Lane : S[m] = S[k] /\ (SeenAt(n, a, b, k, m) \/ SeenAt(n, a, b, m, k))}

RowAt(n) == IF done THEN n ELSE i

CountsAgree(sets, used) ==
  \A k \in Lane : match_cnt[k] = Cardinality(MatchesAt(sets, used, RowAt(used), j, k))

\* The position is a pair of datasets in use, the last one when it is over.
OnWalk(used) ==
  /\ i < j /\ j < used
  /\ done => i = used - 2
=============================================================================
