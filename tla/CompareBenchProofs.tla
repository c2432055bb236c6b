------------------------- MODULE CompareBenchProofs -------------------------
(***************************************************************************)
(* The comparator on its own counts exactly, is done after N*(N-1)/2       *)
(* clocks and leaves every flag where the documented table has it, for     *)
(* every number of set registers, every set of words and every mode.       *)
(***************************************************************************)
EXTENDS CompareBench, CompareUnitProofs

\* The inductive invariant: typed, on a pair of datasets in use, and every
\* counter exact at every clock of the walk (its end is only one of them).
BenchInv ==
  /\ BenchTypeOK
  /\ OnWalk(used)
  /\ CountsExact

LEMMA BenchInitInv == BenchInit => BenchInv
<1>. SUFFICES ASSUME BenchInit PROVE BenchInv
  OBVIOUS
<1>. USE DEF BenchInit, CompareCleared
<1>1. used \in Int /\ 2 <= used
  BY MaxDatasetsAssumption
<1>2. BenchTypeOK
  <2>1. i \in Nibble /\ j \in Nibble
    BY DEF Nibble
  <2>2. match_vector \in [Bit -> BOOLEAN]
    OBVIOUS
  <2>3. match_cnt \in [Lane -> Nibble]
    BY DEF Nibble
  <2>4. done \in BOOLEAN
    OBVIOUS
  <2>5. sets \in [Lane -> Word] /\ used \in 2..MAX_DATASETS /\ used \in Nibble /\ clocks \in Nat
    OBVIOUS
  <2>. QED  BY <2>1, <2>2, <2>3, <2>4, <2>5 DEF BenchTypeOK, CompareTypeOK
<1>3. OnWalk(used)
  BY <1>1 DEF OnWalk
<1>4. CountsExact
  BY <1>1, ClearedCounts DEF CountsExact, CountsAgree, RowAt
<1>. QED  BY <1>2, <1>3, <1>4 DEF BenchInv

LEMMA BenchNextInv == BenchInv /\ [BenchNext]_benchVars => BenchInv'
<1>. SUFFICES ASSUME BenchInv, [BenchNext]_benchVars PROVE BenchInv'
  OBVIOUS
<1>1. CASE Present
  <2>1. CompareReset
    BY <1>1 DEF Present, CompareEdge
  <2>2. used' \in Nibble /\ used' \in Int /\ 2 <= used' /\ used' \in 2..MAX_DATASETS
    BY <1>1, MaxDatasetsAssumption DEF Present
  <2>3. BenchTypeOK'
    <3>1. CompareTypeOK'
      BY <1>1, CompareEdgeTyped DEF Present, BenchInv, BenchTypeOK
    <3>. QED  BY <1>1, <2>2, <3>1 DEF Present, BenchTypeOK
  <2>4. OnWalk(used)'
    BY <2>1, <2>2 DEF CompareReset, OnWalk
  <2>5. CountsExact'
    BY <2>1, <2>2, ClearedCounts DEF CompareReset, CountsExact, CountsAgree, RowAt
  <2>. QED  BY <2>3, <2>4, <2>5 DEF BenchInv
<1>2. CASE Compare
  <2>1. CompareStep(sets, used) /\ sets' = sets /\ used' = used
    BY <1>2 DEF Compare, CompareEdge
  <2>2. used \in Nibble /\ 2 <= used /\ used <= MAX_DATASETS
    BY MaxDatasetsAssumption DEF BenchInv, BenchTypeOK
  <2>3. BenchTypeOK'
    <3>1. CompareTypeOK'
      BY <1>2, CompareEdgeTyped DEF Compare, BenchInv, BenchTypeOK
    <3>. QED  BY <1>2, <2>1, <3>1 DEF Compare, BenchInv, BenchTypeOK
  <2>4. CASE COUNT_MATCHES
    <3>1. /\ i' < j' /\ j' < used /\ (done' => i' = used - 2)
          /\ \A k \in Lane :
               match_cnt'[k] =
                 Cardinality(MatchesAt(sets, used, IF done' THEN used ELSE i', j', k))
      BY <2>1, <2>2, <2>4, CompareStepCounts DEF BenchInv, BenchTypeOK, CountsExact
    <3>2. OnWalk(used)'
      BY <2>1, <3>1 DEF OnWalk
    <3>3. CountsExact'
      BY <2>1, <3>1 DEF CountsExact, CountsAgree, RowAt
    <3>. QED  BY <2>3, <3>2, <3>3 DEF BenchInv
  <2>5. CASE ~COUNT_MATCHES
    <3>1. OnWalk(used)'
      BY <2>1, <2>2
         DEF BenchInv, BenchTypeOK, CompareTypeOK, OnWalk, Nibble, CompareStep,
             FinishWalk, NextInRow, NextRow, LastRow, RowContinues
    <3>. QED  BY <2>3, <2>5, <3>1 DEF BenchInv, CountsExact
  <2>. QED  BY <2>4, <2>5
<1>3. CASE Pause
  BY <1>3 DEF Pause, CompareEdge, CompareHold, compareVars, BenchInv, BenchTypeOK,
              CompareTypeOK, OnWalk, CountsExact, CountsAgree, RowAt
<1>4. CASE UNCHANGED benchVars
  BY <1>4 DEF benchVars, BenchInv, BenchTypeOK, CompareTypeOK, OnWalk,
              CountsExact, CountsAgree, RowAt
<1>. QED  BY <1>1, <1>2, <1>3, <1>4 DEF BenchNext

\* The registers of the comparator keep their type (CompareUnit.sv:29-38).
THEOREM CompareBenchTyped == BenchSpec => []BenchTypeOK
<1>1. BenchInv => BenchTypeOK
  BY DEF BenchInv
<1>. QED  BY <1>1, BenchInitInv, BenchNextInv, PTL DEF BenchSpec

\* At every clock each counter is the number of datasets in use already found
\* equal to its own: the walk neither skips, repeats nor invents a match, and
\* four bits never overflow (CompareUnit.sv:62-70).
THEOREM CompareBenchCounts == BenchSpec => []CountsExact
<1>1. BenchInv => CountsExact
  BY DEF BenchInv
<1>. QED  BY <1>1, BenchInitInv, BenchNextInv, PTL DEF BenchSpec

-----------------------------------------------------------------------------
(* The time of the walk and the place of each flag.                        *)

\* The clocks already spent, in closed form: the pairs of the rows before row
\* i, and those of row i before column j.
ClocksOnWalk ==
  clocks = IF done THEN NPairs(used) ELSE NPairs(used) - NPairs(used - i) + (j - i - 1)

\* Where the flag of the pair (p, q) is now: every pair still to come will
\* push it one bit further, to the bit the table documents.
BitNow(p, q) == TableBit(p, q) - (NPairs(used) - clocks)

\* Every pair seen has its flag at its place, and no flag is above the first
\* pair's.
FlagsPlaced ==
  LIST_MATCHES =>
    /\ \A p, q \in Lane :
         SeenAt(used, RowAt(used), j, p, q) =>
           (match_vector[BitNow(p, q)] <=> sets[p] = sets[q])
    /\ \A b \in Bit : match_vector[b] => b < clocks

VectorInv ==
  /\ BenchInv
  /\ ClocksOnWalk
  /\ FlagsPlaced

\* One more dataset is in one more pair with each of the others.
LEMMA PairsOfOneMore ==
  ASSUME NEW n \in Int
  PROVE  NPairs(n) \in Int /\ NPairs(n + 1) = NPairs(n) + n
<1>. DEFINE x == n * (n - 1)
<1>1. x \in Int
  OBVIOUS
<1>2. (n + 1) * ((n + 1) - 1) = x + 2 * n
  OBVIOUS
<1>. HIDE DEF x
<1>3. (x + 2 * n) \div 2 = (x \div 2) + n /\ x \div 2 \in Int
  BY <1>1
<1>4. NPairs(n) = x \div 2
  BY DEF NPairs, x
<1>5. NPairs(n + 1) = (x + 2 * n) \div 2
  BY <1>2 DEF NPairs
<1>. QED  BY <1>3, <1>4, <1>5

\* Fewer datasets are in fewer pairs.
LEMMA PairsGrow ==
  ASSUME NEW m \in Int, NEW n \in Int, 1 <= m, m <= n
  PROVE  0 <= NPairs(m) /\ NPairs(m) <= NPairs(n)
<1>1. m * (m - 1) \in Int /\ n * (n - 1) \in Int
  OBVIOUS
<1>2. 0 <= m * (m - 1)
  OBVIOUS
<1>3. m * (m - 1) <= n * (n - 1)
  <2>. DEFINE d == n - m
  <2>1. d \in Int /\ 0 <= d
    OBVIOUS
  <2>2. n * (n - 1) = m * (m - 1) + d * (m + n - 1)
    OBVIOUS
  <2>3. 0 <= d * (m + n - 1)
    BY <2>1
  <2>. QED  BY <1>1, <2>2, <2>3
<1>. QED  BY <1>1, <1>2, <1>3 DEF NPairs

\* What the invariant says of the position and the registers, in numbers.
LEMMA BenchNumbers ==
  ASSUME BenchInv
  PROVE  /\ i \in Int /\ j \in Int /\ used \in Int /\ clocks \in Int
         /\ MAX_DATASETS \in Int
         /\ 0 <= i /\ i < j /\ j < used /\ 2 <= used /\ used <= MAX_DATASETS
         /\ used <= 15 /\ 0 <= clocks /\ done \in BOOLEAN
         /\ i \in Lane /\ j \in Lane
  BY MaxDatasetsAssumption
     DEF BenchInv, BenchTypeOK, CompareTypeOK, OnWalk, Nibble, Lane

\* An enabled clock of a unit still at work: it records the flag of its own
\* pair, spends a clock, and is done, in the next column or in the next row.
LEMMA WorkingClock ==
  ASSUME BenchInv, Compare, ~done
  PROVE  /\ RecordMatch(sets[i] = sets[j])
         /\ clocks' = clocks + 1 /\ sets' = sets /\ used' = used
         /\ \/ i = used - 2 /\ j = used - 1 /\ done' /\ i' = i /\ j' = j
            \/ i < used - 2 /\ j < used - 1 /\ ~done' /\ i' = i /\ j' = j + 1
            \/ i < used - 2 /\ j = used - 1 /\ ~done' /\ i' = i + 1 /\ j' = i + 2
<1>1. CompareStep(sets, used) /\ sets' = sets /\ used' = used /\ clocks' = clocks + 1
  BY DEF Compare, CompareEdge
<1>2. RecordMatch(sets[i] = sets[j])
  BY <1>1, BenchNumbers DEF CompareStep, MatchOutcomes
<1>3. \/ i >= used - 2 /\ done' /\ i' = i /\ j' = j
      \/ i < used - 2 /\ j < used - 1 /\ ~done' /\ i' = i /\ j' = j + 1
      \/ i < used - 2 /\ j >= used - 1 /\ ~done' /\ i' = i + 1 /\ j' = i + 2
  BY <1>1, BenchNumbers
     DEF CompareStep, FinishWalk, NextInRow, NextRow, LastRow, RowContinues
<1>. QED  BY <1>1, <1>2, <1>3, BenchNumbers

\* An enabled clock of a unit that is done changes nothing.
LEMMA RestingClock ==
  ASSUME BenchInv, Compare, done
  PROVE  UNCHANGED benchVars
<1>1. CompareStep(sets, used) /\ sets' = sets /\ used' = used /\ clocks' = clocks
  BY DEF Compare, CompareEdge
<1>2. i = used - 2
  BY DEF BenchInv, OnWalk
<1>3. FinishWalk(used)
  <2>1. LastRow(used)
    BY <1>2, BenchNumbers DEF LastRow
  <2>. QED  BY <1>1, <2>1 DEF CompareStep, NextInRow, NextRow
<1>4. RecordMatch(sets[i] = sets[j])
  BY <1>1, BenchNumbers DEF CompareStep, MatchOutcomes
<1>. QED  BY <1>1, <1>3, <1>4 DEF FinishWalk, RecordMatch, benchVars

\* The clocks a unit on its walk has spent are fewer than all the pairs.
LEMMA ClocksBound ==
  ASSUME BenchInv, ClocksOnWalk
  PROVE  /\ NPairs(used) \in Int
         /\ done => clocks = NPairs(used)
         /\ ~done => clocks < NPairs(used)
<1>1. NPairs(used) \in Int
  BY BenchNumbers, PairsOfOneMore
<1>2. ASSUME ~done PROVE clocks < NPairs(used)
  <2>. DEFINE m == used - i - 1
  <2>1. m \in Int /\ 1 <= m /\ m + 1 = used - i
    BY BenchNumbers
  <2>2. 0 <= NPairs(m)
    BY <2>1, PairsGrow
  <2>3. NPairs(m) \in Int /\ NPairs(m + 1) = NPairs(m) + m
    BY <2>1, PairsOfOneMore
  <2>4. clocks = NPairs(used) - NPairs(m + 1) + (j - i - 1)
    BY <1>2, <2>1 DEF ClocksOnWalk
  <2>. HIDE DEF m
  <2>5. j - i - 1 < m
    BY BenchNumbers DEF m
  <2>. QED  BY <1>1, <2>1, <2>2, <2>3, <2>4, <2>5, BenchNumbers
<1>. QED  BY <1>1, <1>2 DEF ClocksOnWalk

\* An enabled clock keeps the clocks in closed form.
LEMMA ClocksStep ==
  ASSUME BenchInv, ClocksOnWalk, Compare, ~done
  PROVE  ClocksOnWalk'
<1>. DEFINE m == used - i - 1
<1>1. m \in Int /\ 1 <= m /\ m + 1 = used - i
  BY BenchNumbers
<1>2. NPairs(used) \in Int
  BY BenchNumbers, PairsOfOneMore
<1>3. NPairs(m) \in Int /\ NPairs(m + 1) = NPairs(m) + m
  BY <1>1, PairsOfOneMore
<1>4. clocks = NPairs(used) - NPairs(m + 1) + (j - i - 1)
  BY <1>1 DEF ClocksOnWalk
<1>. SUFFICES clocks' = IF done' THEN NPairs(used)
                        ELSE NPairs(used) - NPairs(used - i') + (j' - i' - 1)
  BY WorkingClock DEF ClocksOnWalk, NPairs
<1>5. CASE i = used - 2 /\ j = used - 1 /\ done'
  <2>1. m = 1 /\ NPairs(m) = 0
    BY <1>5, BenchNumbers DEF NPairs
  <2>. QED  BY <1>2, <1>3, <1>4, <1>5, <2>1, WorkingClock, BenchNumbers
<1>6. CASE ~done' /\ i' = i /\ j' = j + 1
  BY <1>1, <1>2, <1>3, <1>4, <1>6, WorkingClock, BenchNumbers
<1>7. CASE j = used - 1 /\ ~done' /\ i' = i + 1 /\ j' = i + 2
  <2>1. used - i' = m
    BY <1>7, BenchNumbers
  <2>. HIDE DEF m
  <2>2. j - i - 1 = m - 1
    BY <1>7, BenchNumbers DEF m
  <2>3. clocks' = NPairs(used) - NPairs(m)
    BY <1>1, <1>2, <1>3, <1>4, <2>2, WorkingClock, BenchNumbers
  <2>4. j' - i' - 1 = 0
    BY <1>7, BenchNumbers
  <2>. QED  BY <1>2, <1>3, <1>7, <2>1, <2>3, <2>4
<1>. QED  BY <1>5, <1>6, <1>7, WorkingClock

\* The pairs of datasets in use that a working clock leaves behind are those
\* behind it already, and its own.
LEMMA SeenStep ==
  ASSUME BenchInv, Compare, ~done, NEW p \in Int, NEW q \in Int
  PROVE  SeenAt(used, RowAt(used), j, p, q)'
           <=> SeenAt(used, RowAt(used), j, p, q) \/ (p = i /\ q = j)
  BY WorkingClock, BenchNumbers DEF SeenAt, RowAt

\* At every position the flag of a pair already seen is a bit below those of
\* the pairs seen before it, and no lower than the last one pushed.
LEMMA SeenPlace ==
  ASSUME BenchInv, ClocksOnWalk, ~done, NEW p \in Int, NEW q \in Int, 0 <= p,
         SeenAt(used, i, j, p, q)
  PROVE  BitNow(p, q) \in Int /\ 0 <= BitNow(p, q) /\ BitNow(p, q) < clocks
<1>. DEFINE n == used - p - 1
<1>1. p < q /\ q < used /\ (p < i \/ (p = i /\ q < j))
  BY DEF SeenAt
<1>2. n \in Int /\ 1 <= n /\ n + 1 = used - p /\ n + 1 <= used
  BY <1>1, BenchNumbers
<1>3. NPairs(n) \in Int /\ NPairs(n + 1) = NPairs(n) + n
  BY <1>2, PairsOfOneMore
<1>4. NPairs(used) \in Int /\ NPairs(used - i) \in Int
  BY BenchNumbers, PairsOfOneMore
<1>5. NPairs(n + 1) <= NPairs(used)
  BY <1>2, BenchNumbers, PairsGrow
<1>6. BitNow(p, q) = (NPairs(n) + (used - 1 - q)) - (NPairs(used) - clocks)
  BY DEF BitNow, TableBit
<1>7. clocks = NPairs(used) - NPairs(used - i) + (j - i - 1)
  BY DEF ClocksOnWalk
<1>8. BitNow(p, q) \in Int /\ BitNow(p, q) < clocks
  <2>. HIDE DEF n
  <2>1. used - 1 - q < n
    BY <1>1, BenchNumbers DEF n
  <2>. QED  BY <1>1, <1>2, <1>3, <1>4, <1>5, <1>6, <2>1, BenchNumbers
<1>9. 0 <= BitNow(p, q)
  <2>1. CASE p < i
    <3>1. NPairs(used - i) <= NPairs(n)
      BY <2>1, <1>2, BenchNumbers, PairsGrow
    <3>. HIDE DEF n
    <3>. QED  BY <1>1, <1>2, <1>3, <1>4, <1>6, <1>7, <3>1, BenchNumbers
  <2>2. CASE p = i /\ q < j
    <3>1. NPairs(used - i) = NPairs(n) + n /\ n = used - i - 1
      BY <2>2, <1>2, <1>3
    <3>. HIDE DEF n
    <3>. QED  BY <1>1, <1>2, <1>3, <1>4, <1>6, <1>7, <2>2, <3>1, BenchNumbers
  <2>. QED  BY <1>1, <2>1, <2>2
<1>. QED  BY <1>8, <1>9

\* An enabled clock keeps every flag at its place: the new one enters at bit
\* 0, where its pair belongs, and each earlier one moves up with its pair.
LEMMA FlagsStep ==
  ASSUME BenchInv, ClocksOnWalk, FlagsPlaced, Compare, ~done
  PROVE  FlagsPlaced'
<1>. SUFFICES ASSUME LIST_MATCHES PROVE FlagsPlaced'
  BY DEF FlagsPlaced
<1>1. match_vector' = [b \in Bit |-> IF b = 0 THEN sets[i] = sets[j] ELSE match_vector[b - 1]]
  BY WorkingClock DEF RecordMatch, ShiftIn
<1>2. NPairs(used) \in Int /\ NPairs(used) <= MBITS /\ MBITS \in Int
  <2>1. MBITS = NPairs(MAX_DATASETS)
    BY DEF MBITS, NPairs
  <2>. QED  BY <2>1, BenchNumbers, PairsOfOneMore, PairsGrow
<1>3. clocks' = clocks + 1 /\ clocks < NPairs(used)
  BY WorkingClock, ClocksBound
<1>4. \A b \in Bit : b \in Int /\ 0 <= b /\ b < MBITS
  BY <1>2 DEF Bit
<1>5. ASSUME NEW p \in Lane, NEW q \in Lane, SeenAt(used, RowAt(used), j, p, q)'
      PROVE  match_vector'[BitNow(p, q)'] <=> sets'[p] = sets'[q]
  <2>1. p \in Int /\ q \in Int /\ 0 <= p
    BY BenchNumbers DEF Lane
  <2>2. TableBit(p, q)' = TableBit(p, q) /\ NPairs(used)' = NPairs(used)
    BY WorkingClock DEF TableBit, NPairs
  <2>3. TableBit(p, q) \in Int
    BY <2>1, BenchNumbers, PairsOfOneMore DEF TableBit
  <2>4. BitNow(p, q)' = BitNow(p, q) + 1
    BY <1>2, <1>3, <2>2, <2>3, BenchNumbers DEF BitNow
  <2>5. CASE SeenAt(used, RowAt(used), j, p, q)
    <3>1. SeenAt(used, i, j, p, q)
      BY <2>5 DEF RowAt
    <3>2. BitNow(p, q) \in Int /\ 0 <= BitNow(p, q) /\ BitNow(p, q) < clocks
      BY <2>1, <3>1, SeenPlace
    <3>3. BitNow(p, q) + 1 \in Bit /\ BitNow(p, q) + 1 # 0
      BY <1>2, <1>3, <3>2, BenchNumbers DEF Bit
    <3>4. match_vector'[BitNow(p, q) + 1] = match_vector[BitNow(p, q)]
      <4>1. (BitNow(p, q) + 1) - 1 = BitNow(p, q)
        BY <3>2
      <4>. QED  BY <1>1, <3>3, <4>1
    <3>5. match_vector[BitNow(p, q)] <=> sets[p] = sets[q]
      BY <2>5 DEF FlagsPlaced
    <3>. QED  BY <2>4, <3>4, <3>5, WorkingClock
  <2>6. CASE p = i /\ q = j
    <3>1. BitNow(p, q) + 1 = 0
      <4>. DEFINE m == used - i - 1
      <4>1. m \in Int /\ m + 1 = used - i
        BY BenchNumbers
      <4>2. NPairs(m) \in Int /\ NPairs(used - i) = NPairs(m) + m
        BY <4>1, PairsOfOneMore
      <4>3. clocks = NPairs(used) - NPairs(used - i) + (j - i - 1)
        BY DEF ClocksOnWalk
      <4>4. BitNow(p, q) = (NPairs(m) + (used - 1 - j)) - (NPairs(used) - clocks)
        BY <2>6 DEF BitNow, TableBit
      <4>5. m = used - i - 1
        OBVIOUS
      <4>. HIDE DEF m
      <4>. QED  BY <1>2, <4>1, <4>2, <4>3, <4>4, <4>5, BenchNumbers
    <3>2. 0 \in Bit
      BY <1>2, <1>3, BenchNumbers DEF Bit
    <3>3. match_vector'[0] = (sets[i] = sets[j])
      BY <1>1, <3>2
    <3>. QED  BY <2>4, <2>6, <3>1, <3>3, WorkingClock
  <2>. QED  BY <1>5, <2>1, <2>5, <2>6, SeenStep
<1>6. ASSUME NEW b \in Bit, match_vector'[b]
      PROVE  b < clocks'
  <2>1. CASE b = 0
    BY <1>3, <2>1, BenchNumbers
  <2>2. CASE b # 0
    <3>1. b - 1 \in Bit
      BY <1>2, <1>4, <2>2 DEF Bit
    <3>2. match_vector[b - 1]
      BY <1>1, <1>6, <2>2
    <3>3. b - 1 < clocks
      BY <3>1, <3>2 DEF FlagsPlaced
    <3>. QED  BY <1>3, <1>4, <3>3, BenchNumbers
  <2>. QED  BY <2>1, <2>2
<1>. QED  BY <1>5, <1>6 DEF FlagsPlaced

LEMMA VectorInitInv == BenchInit => VectorInv
<1>. SUFFICES ASSUME BenchInit PROVE VectorInv
  OBVIOUS
<1>. USE DEF BenchInit, CompareCleared
<1>1. BenchInv
  BY BenchInitInv
<1>2. ClocksOnWalk
  BY <1>1, BenchNumbers, PairsOfOneMore DEF ClocksOnWalk
<1>3. FlagsPlaced
  <2>1. \A p, q \in Lane : ~SeenAt(used, RowAt(used), j, p, q)
    BY DEF SeenAt, RowAt, Lane
  <2>. QED  BY <2>1 DEF FlagsPlaced
<1>. QED  BY <1>1, <1>2, <1>3 DEF VectorInv

LEMMA VectorNextInv == VectorInv /\ [BenchNext]_benchVars => VectorInv'
<1>. SUFFICES ASSUME VectorInv, [BenchNext]_benchVars PROVE VectorInv'
  OBVIOUS
<1>1. BenchInv /\ ClocksOnWalk /\ FlagsPlaced
  BY DEF VectorInv
<1>2. BenchInv'
  BY <1>1, BenchNextInv
<1>3. CASE UNCHANGED benchVars
  BY <1>1, <1>2, <1>3
     DEF VectorInv, benchVars, ClocksOnWalk, FlagsPlaced, BitNow, TableBit,
         NPairs, SeenAt, RowAt
<1>4. CASE Present
  <2>1. CompareReset /\ clocks' = 0
    BY <1>4 DEF Present, CompareEdge
  <2>2. used' \in Int
    BY <1>4, MaxDatasetsAssumption DEF Present
  <2>3. ClocksOnWalk'
    <3>1. NPairs(used') \in Int
      BY <2>2, PairsOfOneMore
    <3>2. clocks' = IF done' THEN NPairs(used')
                    ELSE NPairs(used') - NPairs(used' - i') + (j' - i' - 1)
      BY <2>1, <2>2, <3>1 DEF CompareReset
    <3>. QED  BY <3>2 DEF ClocksOnWalk, NPairs
  <2>4. FlagsPlaced'
    <3>1. \A p, q \in Lane : ~SeenAt(used, RowAt(used), j, p, q)'
      BY <2>1, <2>2 DEF SeenAt, RowAt, Lane, CompareReset
    <3>2. \A b \in Bit : ~match_vector'[b]
      BY <2>1 DEF CompareReset
    <3>. QED  BY <3>1, <3>2 DEF FlagsPlaced
  <2>. QED  BY <1>2, <2>3, <2>4 DEF VectorInv
<1>5. CASE Compare /\ ~done
  BY <1>1, <1>2, <1>5, ClocksStep, FlagsStep DEF VectorInv
<1>6. CASE Compare /\ done
  BY <1>1, <1>3, <1>6, RestingClock
<1>7. CASE Pause
  BY <1>3, <1>7 DEF Pause, CompareEdge, CompareHold, compareVars, benchVars
<1>. QED  BY <1>3, <1>4, <1>5, <1>6, <1>7 DEF BenchNext

\* The unit is done after exactly the N*(N-1)/2 enabled clocks the register map
\* documents, for every mode and whatever the clock enable does
\* (rootvoter.sv:59-75, CompareUnit.sv:72-83).
THEOREM CompareBenchTime == BenchSpec => []VotingTime
<1>1. VectorInv => VotingTime
  BY ClocksBound, BenchNumbers DEF VectorInv, VotingTime
<1>. QED  BY <1>1, VectorInitInv, VectorNextInv, PTL DEF BenchSpec

\* When the walk is over the shift register holds, for every pair of datasets
\* in use, its flag at the bit the table of RootVoter.h documents, and nothing
\* above (CompareUnit.sv:55-60).
THEOREM CompareBenchVector == BenchSpec => []VectorDecodes
<1>1. VectorInv => VectorDecodes
  <2>. SUFFICES ASSUME VectorInv, LIST_MATCHES, done PROVE VectorDecodes
    BY DEF VectorDecodes
  <2>1. BenchInv /\ ClocksOnWalk /\ FlagsPlaced
    BY DEF VectorInv
  <2>2. clocks = NPairs(used) /\ NPairs(used) \in Int
    BY <2>1, ClocksBound
  <2>3. ASSUME NEW p \in 0..(used - 1), NEW q \in 0..(used - 1), p < q
        PROVE  match_vector[TableBit(p, q)] <=> sets[p] = sets[q]
    <3>1. p \in Lane /\ q \in Lane /\ p \in Int /\ q \in Int /\ q < used
      BY <2>1, BenchNumbers DEF Lane
    <3>2. SeenAt(used, RowAt(used), j, p, q)
      BY <2>1, <2>3, <3>1, BenchNumbers DEF SeenAt, RowAt
    <3>3. match_vector[BitNow(p, q)] <=> sets[p] = sets[q]
      BY <2>1, <3>1, <3>2 DEF FlagsPlaced
    <3>4. TableBit(p, q) \in Int
      BY <2>1, <3>1, BenchNumbers, PairsOfOneMore DEF TableBit
    <3>5. BitNow(p, q) = TableBit(p, q)
      BY <2>2, <3>4 DEF BitNow
    <3>. QED  BY <3>3, <3>5
  <2>4. \A b \in Bit : match_vector[b] => b < NPairs(used)
    BY <2>1, <2>2 DEF FlagsPlaced
  <2>. QED  BY <2>3, <2>4 DEF VectorDecodes
<1>. QED  BY <1>1, VectorInitInv, VectorNextInv, PTL DEF BenchSpec
=============================================================================
