------------------------- MODULE CompareUnitProofs --------------------------
(***************************************************************************)
(* Lemmas about the comparator, for every number of set registers and      *)
(* every set of words, used by the proofs about its bench and its cell.    *)
(***************************************************************************)
EXTENDS CompareUnit, FiniteSetTheorems, TLAPS

\* The lanes are a finite set, small enough for a 4-bit mode to count them.
LEMMA LaneFinite ==
  /\ IsFiniteSet(Lane)
  /\ Cardinality(Lane) = MAX_DATASETS
  /\ Lane \subseteq Nibble
<1>1. MAX_DATASETS \in Int /\ MAX_DATASETS >= 2 /\ MAX_DATASETS <= 16
  BY MaxDatasetsAssumption
<1>2. IsFiniteSet(Lane) /\ Cardinality(Lane) = MAX_DATASETS
  BY <1>1, FS_Interval DEF Lane
<1>3. Lane \subseteq Nibble
  BY <1>1 DEF Lane, Nibble
<1>. QED  BY <1>2, <1>3

\* The width of the match vector is a number.
LEMMA BitsAreIntegers == MBITS \in Int
<1>1. MAX_DATASETS \in Int
  BY MaxDatasetsAssumption
<1>2. MAX_DATASETS * (MAX_DATASETS - 1) \in Int
  BY <1>1
<1>. QED  BY <1>2 DEF MBITS

\* What the comparator's registers hold keeps its type on every clock edge,
\* whatever is on its inputs (CompareUnit.sv:45-85).
LEMMA CompareEdgeTyped ==
  ASSUME CompareTypeOK,
         NEW reset, NEW en, NEW sets, NEW used,
         CompareEdge(reset, en, sets, used)
  PROVE  CompareTypeOK'
<1>. USE DEF CompareTypeOK
<1>1. CASE CompareReset
  <2>1. i' \in Nibble /\ j' \in Nibble
    BY <1>1 DEF CompareReset, Nibble
  <2>2. match_vector' \in [Bit -> BOOLEAN]
    BY <1>1 DEF CompareReset
  <2>3. match_cnt' \in [Lane -> Nibble]
    BY <1>1 DEF CompareReset, Nibble
  <2>4. done' \in BOOLEAN
    BY <1>1 DEF CompareReset
  <2>. QED  BY <2>1, <2>2, <2>3, <2>4
<1>2. CASE CompareStep(sets, used)
  <2>1. PICK flag \in BOOLEAN : RecordMatch(flag)
    BY <1>2 DEF CompareStep, MatchOutcomes
  <2>2. ShiftIn(flag) \in [Bit -> BOOLEAN]
    <3>1. \A b \in Bit : b # 0 => b - 1 \in Bit
      BY BitsAreIntegers DEF Bit
    <3>. QED  BY <3>1 DEF ShiftIn
  <2>3. CountMatch \in [Lane -> Nibble]
    BY DEF CountMatch, Nibble
  <2>4. match_vector' \in [Bit -> BOOLEAN] /\ match_cnt' \in [Lane -> Nibble]
    BY <2>1, <2>2, <2>3 DEF RecordMatch
  <2>5. i' \in Nibble /\ j' \in Nibble
    BY <1>2 DEF CompareStep, FinishWalk, NextInRow, NextRow, Nibble
  <2>6. done' \in BOOLEAN
    BY <1>2 DEF CompareStep, FinishWalk, NextInRow, NextRow
  <2>. QED  BY <2>4, <2>5, <2>6
<1>3. CASE CompareHold
  BY <1>3 DEF CompareHold, compareVars
<1>. QED  BY <1>1, <1>2, <1>3 DEF CompareEdge

-----------------------------------------------------------------------------
(* A step of the walk from the pair (a, b) to the position (a2, b2).       *)
WalkStep(n, a, b, a2, b2) ==
  \/ a >= n - 2 /\ a2 = n /\ b2 = b
  \/ a < n - 2 /\ b < n - 1 /\ a2 = a /\ b2 = b + 1
  \/ a < n - 2 /\ b >= n - 1 /\ a2 = a + 1 /\ b2 = a + 2

\* A step adds one to the matches of a and of b when the pair is equal, and
\* leaves every other dataset's matches alone; four bits can count them.
LEMMA WalkCounts ==
  ASSUME NEW S, NEW n \in Int, NEW a \in Lane, NEW b \in Lane, a < b, b < n,
         NEW a2, NEW b2, WalkStep(n, a, b, a2, b2),
         NEW k \in Lane
  PROVE  /\ Cardinality(MatchesAt(S, n, a2, b2, k))
              = Cardinality(MatchesAt(S, n, a, b, k))
                  + IF k \in {a, b} /\ S[a] = S[b] THEN 1 ELSE 0
         /\ Cardinality(MatchesAt(S, n, a2, b2, k)) \in Nibble
<1>. DEFINE before == MatchesAt(S, n, a, b, k)
            after  == MatchesAt(S, n, a2, b2, k)
<1>. HIDE DEF before, after
<1>0. Lane \subseteq Int
  BY DEF Lane
\* The pairs seen after the step are those seen before it and the pair (a, b).
<1>1. \A p, q \in Lane :
        SeenAt(n, a2, b2, p, q) <=> SeenAt(n, a, b, p, q) \/ (p = a /\ q = b)
  <2>. TAKE p, q \in Lane
  <2>. p \in Int /\ q \in Int /\ a \in Int /\ b \in Int
    BY <1>0
  <2>. QED  BY DEF SeenAt, WalkStep
<1>2. IsFiniteSet(before) /\ Cardinality(before) \in Nat
  BY LaneFinite, FS_Subset, FS_CardinalityType DEF before, MatchesAt
<1>3. after \subseteq Lane \ {k}
  BY <1>0 DEF after, MatchesAt, SeenAt
<1>4. Cardinality(after) \in Nibble
  <2>1. IsFiniteSet(Lane \ {k}) /\ Cardinality(Lane \ {k}) = MAX_DATASETS - 1
    BY LaneFinite, FS_RemoveElement
  <2>2. Cardinality(after) \in Nat /\ Cardinality(after) <= MAX_DATASETS - 1
    BY <1>3, <2>1, FS_Subset, FS_CardinalityType
  <2>. QED  BY <2>2, MaxDatasetsAssumption DEF Nibble
<1>. SUFFICES Cardinality(after) = Cardinality(before)
                + IF k \in {a, b} /\ S[a] = S[b] THEN 1 ELSE 0
  BY <1>4 DEF before, after
<1>5. CASE k = a /\ S[a] = S[b]
  <2>1. after = before \cup {b}
    BY <1>0, <1>1, <1>5 DEF before, after, MatchesAt
  <2>2. b \notin before
    BY <1>0, <1>5 DEF before, MatchesAt, SeenAt
  <2>3. Cardinality(before \cup {b}) = Cardinality(before) + 1
    BY <1>2, <2>2, FS_AddElement
  <2>. QED  BY <1>5, <2>1, <2>3
<1>6. CASE k = b /\ S[a] = S[b]
  <2>1. after = before \cup {a}
    BY <1>0, <1>1, <1>6 DEF before, after, MatchesAt
  <2>2. a \notin before
    BY <1>0, <1>6 DEF before, MatchesAt, SeenAt
  <2>3. Cardinality(before \cup {a}) = Cardinality(before) + 1
    BY <1>2, <2>2, FS_AddElement
  <2>. QED  BY <1>6, <2>1, <2>3
<1>7. CASE ~(k \in {a, b} /\ S[a] = S[b])
  <2>1. after = before
    BY <1>0, <1>1, <1>7 DEF before, after, MatchesAt
  <2>. QED  BY <1>2, <1>7, <2>1
<1>. QED  BY <1>5, <1>6, <1>7

-----------------------------------------------------------------------------
\* One enabled clock keeps the unit on its walk and its counters exact, for
\* any datasets S and any number n of them in use (CompareUnit.sv:54-84).
LEMMA CompareStepCounts ==
  ASSUME COUNT_MATCHES, CompareTypeOK,
         NEW S, NEW n \in Nibble, 2 <= n, n <= MAX_DATASETS,
         OnWalk(n), CountsAgree(S, n),
         CompareStep(S, n)
  PROVE  /\ i' < j' /\ j' < n /\ (done' => i' = n - 2)
         /\ \A k \in Lane :
              match_cnt'[k] =
                Cardinality(MatchesAt(S, n, IF done' THEN n ELSE i', j', k))
<1>1. /\ i \in Int /\ j \in Int /\ n \in Int /\ MAX_DATASETS \in Int
      /\ 0 <= i /\ i < j /\ j < n /\ n <= 15
  BY MaxDatasetsAssumption DEF CompareTypeOK, Nibble, OnWalk
<1>2. i \in Lane /\ j \in Lane
  BY <1>1 DEF Lane
<1>3. RecordMatch(S[i] = S[j])
  BY <1>2 DEF CompareStep, MatchOutcomes
<1>4. CASE done
  <2>1. i = n - 2
    BY <1>4 DEF OnWalk
  <2>2. LastRow(n)
    BY <1>1, <2>1 DEF LastRow
  <2>3. FinishWalk(n)
    BY <2>2 DEF CompareStep, NextInRow, NextRow
  <2>4. i' = i /\ j' = j /\ done'
    BY <2>3 DEF FinishWalk
  <2>5. match_cnt' = match_cnt
    BY <1>3, <1>4 DEF RecordMatch
  <2>. QED  BY <1>1, <1>4, <2>1, <2>4, <2>5 DEF CountsAgree, RowAt
<1>5. CASE ~done
  <2>. DEFINE row == IF done' THEN n ELSE i'
  <2>1. \/ i >= n - 2 /\ done' /\ i' = i /\ j' = j
        \/ i < n - 2 /\ j < n - 1 /\ ~done' /\ i' = i /\ j' = j + 1
        \/ i < n - 2 /\ j >= n - 1 /\ ~done' /\ i' = i + 1 /\ j' = i + 2
    BY <1>1, <1>5, 2 <= n
       DEF CompareStep, FinishWalk, NextInRow, NextRow, LastRow, RowContinues
  <2>2. i' < j' /\ j' < n /\ (done' => i' = n - 2)
    BY <1>1, <2>1
  <2>3. WalkStep(n, i, j, row, j')
    BY <1>1, <2>1 DEF WalkStep
  <2>. HIDE DEF row
  <2>4. ASSUME NEW k \in Lane
        PROVE  match_cnt'[k] = Cardinality(MatchesAt(S, n, row, j', k))
    <3>. DEFINE before == Cardinality(MatchesAt(S, n, i, j, k))
                after  == Cardinality(MatchesAt(S, n, row, j', k))
                hit    == k \in {i, j} /\ S[i] = S[j]
    <3>1. after = before + (IF hit THEN 1 ELSE 0) /\ after \in Nibble
      BY <1>1, <1>2, <2>3, WalkCounts
    <3>2. match_cnt[k] = before
      BY <1>5 DEF CountsAgree, RowAt
    <3>3. match_cnt[k] \in Nibble
      BY DEF CompareTypeOK
    <3>. HIDE DEF before, after
    <3>. SUFFICES match_cnt'[k] = after
      BY DEF after
    <3>4. CASE hit
      <4>1. match_cnt'[k] = (match_cnt[k] + 1) % 16
        BY <1>1, <1>3, <1>5, <3>4, COUNT_MATCHES DEF RecordMatch, CountMatch
      <4>2. after = match_cnt[k] + 1 /\ after <= 15
        BY <3>1, <3>2, <3>3, <3>4 DEF Nibble
      <4>3. (match_cnt[k] + 1) % 16 = match_cnt[k] + 1
        BY <3>3, <4>2 DEF Nibble
      <4>. QED  BY <4>1, <4>2, <4>3
    <3>5. CASE ~hit
      <4>1. match_cnt'[k] = match_cnt[k]
        BY <1>3, <3>5 DEF RecordMatch, CountMatch
      <4>. QED  BY <3>1, <3>2, <3>3, <3>5, <4>1 DEF Nibble
    <3>. QED  BY <3>4, <3>5
  <2>. QED  BY <2>2, <2>4 DEF row
<1>. QED  BY <1>4, <1>5

\* A cleared unit has seen and counted nothing.
LEMMA ClearedCounts ==
  ASSUME NEW S, NEW n \in Int, NEW k \in Lane
  PROVE  Cardinality(MatchesAt(S, n, 0, 1, k)) = 0
<1>1. MatchesAt(S, n, 0, 1, k) = {}
  BY DEF MatchesAt, SeenAt, Lane
<1>. QED  BY <1>1, FS_EmptySet
=============================================================================
