------------------------- MODULE FfiSelfTestProofs --------------------------
(***************************************************************************)
(* Theorems about the self-test of the workloads, for any number of cores, *)
(* any graph, any text and any sequence of writes, with the table that     *)
(* belongs to it: that "passed" is sound, that only late cores mismatch,   *)
(* and that Dijkstra's algorithm finds the shortest distances and does not *)
(* overflow.                                                               *)
(*                                                                         *)
(* The kernels are reasoned about one core at a time, in lemmas about a    *)
(* program counter p, an index n, the value a of u, a set S of picked      *)
(* vertices and the words W of the core.                                   *)
(***************************************************************************)
EXTENDS FfiSelfTest, FiniteSetTheorems, WellFoundedInduction, TLAPS

Items(t) == 0 .. t.RES_ITEMS - 1

-----------------------------------------------------------------------------
(* Dijkstra's algorithm: a distance is never below the shortest one, and   *)
(* that of a picked vertex is it; the edges of the picked vertices are     *)
(* relaxed, those of the last one up to its n-th.                          *)
Searching(t, p, n, a, S, W) ==
  /\ S \subseteq Vertices(t)
  /\ W[0] = 0
  /\ \A b \in Vertices(t) : W[b] \in Expected(t, b) .. INT_MAX
  /\ \A b \in S : W[b] = Expected(t, b)
  /\ \A x \in S, b \in Vertices(t) :
       Edge(t, x, b) /\ Expected(t, x) # INT_MAX /\ (p = "relax" /\ x = a => b < n) =>
         W[b] <= Expected(t, x) + Weight(t.graph, x, b)
  /\ p = "pick" => Cardinality(S) < Len(t.graph) - 1
  /\ p = "relax" => a \in S /\ n \in Vertices(t) /\ Cardinality(S) <= Len(t.graph) - 1
  /\ p = "done" => \A b \in Vertices(t) : W[b] = Expected(t, b)

GraphInv(t, p, n, a, S, W) ==
  /\ p \in {"clear", "source", "pick", "relax", "done"}
  /\ \A j \in Len(t.graph) .. t.RES_ITEMS - 1 : W[j] = 0
  /\ p = "clear" =>
       /\ n \in Vertices(t) /\ S = {}
       /\ \A j \in Vertices(t) : W[j] = IF j < n THEN INT_MAX ELSE 0
  /\ p = "source" => S = {} /\ \A j \in Vertices(t) : W[j] = INT_MAX
  /\ p \in {"pick", "relax", "done"} => Searching(t, p, n, a, S, W)

\* A sequence of writes: each word has the value of its last write.
WritesInv(t, p, n, W) ==
  /\ p \in {"write", "done"}
  /\ n \in 0 .. Len(t.writes)
  /\ p = "done" <=> n = Len(t.writes)
  /\ \A j \in Items(t) : \E m \in 0 .. n : LastWrite(t, m, n, j) /\ W[j] = WordAfter(t, m)

\* The check word: c is that of the bytes before the n-th.
CheckInv(t, p, n, c, W) ==
  /\ p \in {"copy", "unset", "crc", "high", "low", "done"}
  /\ p = "copy" =>
       /\ n \in 0 .. (Len(t.bytes) \div 4) - 1
       /\ \A j \in Items(t) : W[j] = IF j < n THEN CopiedWord(t, j) ELSE 0
  /\ p = "unset" => \A j \in Items(t) : W[j] = CopiedWord(t, j)
  /\ p \in {"crc", "high"} => \A j \in Items(t) : W[j] = UnsetWord(t, j)
  /\ p = "crc" => n \in 1 .. Len(t.bytes) - 8 /\ c = CheckAfter(t, n - 1)
  /\ p \in {"high", "low"} => c = CheckOf(t)
  /\ p = "low" => \A j \in Items(t) : W[j] = HalfWord(t, j)
  /\ p = "done" => \A j \in Items(t) : W[j] = CheckedWord(t, j)

KernelInv(t, p, n, a, S, W) ==
  /\ t.graph # <<>> => GraphInv(t, p, n, a, S, W)
  /\ t.bytes # <<>> => CheckInv(t, p, n, a, W)
  /\ t.writes # <<>> => WritesInv(t, p, n, W)

\* From here on a right word stays right.
Settled(t, p) == p = "done" \/ (t.graph # <<>> /\ p \in {"pick", "relax"})

\* What is kept of a word of a core that has been found right: when the core has
\* settled it is right, and if it tells the core has.
Holds(t, p, W, j) ==
  /\ Settled(t, p) => W[j] = Expected(t, j)
  /\ Tells(t, j) => Settled(t, p)

-----------------------------------------------------------------------------
words(i) == [j \in Items(test) |-> RES[Base(i) + j]]

Places == {"clear", "source", "pick", "relax", "copy", "unset", "crc", "high", "low",
           "write", "done"}

Typed ==
  /\ test \in Tests
  /\ started \in 1 .. ncpu
  /\ pc \in [Cores -> Places]
  /\ v \in [Cores -> Nat]
  /\ DOMAIN u = Cores /\ DOMAIN sptSet = Cores
  /\ DOMAIN RES = 0 .. ncpu * RES_ITEMS - 1
  /\ compared \in 0 .. ncpu * RES_ITEMS
  /\ mismatches \in [Cores -> Nat]

KernelsInv == \A i \in Cores : KernelInv(test, pc[i], v[i], u[i], sptSet[i], words(i))

\* All the words of a core without a mismatch that have been compared.
Kept(i) ==
  mismatches[i] = 0 =>
    \A j \in Items(test) : Base(i) + j < compared => Holds(test, pc[i], words(i), j)

\* The history of the late cores, of which all that are not done are.
LateInv ==
  /\ compared > 0 => pc[0] = "done"
  /\ pc[0] = "done" => \A i \in Cores : pc[i] = "done" \/ i \in late
  /\ \A i \in Cores : mismatches[i] > 0 => i \in late /\ compared > 0

SelfTestInv == Typed /\ KernelsInv /\ LateInv /\ \A i \in Cores : Kept(i)

-----------------------------------------------------------------------------
\* A set of naturals that is not empty has a least element.
LEMMA LeastElement ==
  ASSUME NEW T, T \subseteq Nat, T # {}
  PROVE  \E x \in T : \A y \in T : x <= y
<1>. DEFINE Less == {s \in Nat \X Nat : s[1] < s[2]}
<1>1. IsWellFoundedOn(Less, Nat)
  <2>1. Less = OpToRel(<, Nat)
    BY DEF OpToRel
  <2>. QED  BY <2>1, NatLessThanWellFounded
<1>. HIDE DEF Less
<1>2. PICK x \in T : \A y \in T : ~ (<<y, x>> \in Less)
  BY <1>1, WFMin
<1>3. ASSUME NEW y \in T PROVE x <= y
  <2>1. ~ (<<y, x>> \in Less) /\ <<y, x>> \in Nat \X Nat
    BY <1>2
  <2>. QED BY <2>1 DEF Less
<1>. QED  BY <1>3

\* An element with the least value.
LEMMA LeastBy ==
  ASSUME NEW T, T # {}, NEW f, \A x \in T : f[x] \in Nat
  PROVE  \E x \in T : \A y \in T : f[x] <= f[y]
<1>. DEFINE Values == {f[x] : x \in T}
<1>1. Values \subseteq Nat /\ Values # {}
  OBVIOUS
<1>. HIDE DEF Values
<1>2. PICK m \in Values : \A y \in Values : m <= y
  BY <1>1, LeastElement
<1>. QED  BY <1>2 DEF Values

\* minDistance finds a vertex, and none that is left is nearer.
LEMMA MinDistanceIsNearest ==
  ASSUME NEW m \in Nat, NEW left, left \subseteq 0 .. m, left # {},
         NEW D, \A x \in left : D[x] \in Nat
  PROVE  /\ minDistance(D, left) \in left
         /\ \A w \in left : D[minDistance(D, left)] <= D[w]
<1>1. PICK near \in left : \A w \in left : D[near] <= D[w]
  BY LeastBy
<1>. DEFINE Near == {w \in left : D[w] = D[near]}
            Last == [w \in Near |-> m - w]
<1>2. Near # {} /\ \A w \in Near : Last[w] \in Nat
  OBVIOUS
<1>. HIDE DEF Last
<1>3. PICK last \in Near : \A w \in Near : Last[last] <= Last[w]
  BY <1>2, LeastBy
<1>4. \A w \in Near : last >= w
  <2>. TAKE w \in Near
  <2>1. Last[last] = m - last /\ Last[w] = m - w
    BY DEF Last
  <2>2. last \in 0 .. m /\ w \in 0 .. m
    OBVIOUS
  <2>. QED  BY <1>3, <2>1, <2>2
<1>5. last \in left /\ \A w \in left : D[last] < D[w] \/ (D[last] = D[w] /\ last >= w)
  BY <1>1, <1>4
<1>6. PICK c : c = minDistance(D, left)
  OBVIOUS
<1>7. c \in left /\ \A w \in left : D[c] < D[w] \/ (D[c] = D[w] /\ c >= w)
  BY <1>5, <1>6 DEF minDistance
<1>8. \A w \in left : D[c] <= D[w]
  BY <1>7
<1>. QED  BY <1>6, <1>7, <1>8

-----------------------------------------------------------------------------
(* What a graph and its table are, in the form that the steps need.        *)
LEMMA MaxIsPositive == INT_MAX \in Nat /\ INT_MAX > 0
BY SMT DEF INT_MAX

LEMMA GraphFacts ==
  ASSUME NEW t \in Tests, t.graph # <<>>
  PROVE  /\ Len(t.graph) \in Nat /\ Len(t.graph) >= 2 /\ Len(t.graph) <= t.RES_ITEMS
         /\ t.RES_ITEMS \in Nat /\ 0 \in Vertices(t)
         /\ Vertices(t) \subseteq Items(t)
         /\ Expected(t, 0) = 0
         /\ \A b \in Vertices(t) : Expected(t, b) \in Nat /\ Expected(t, b) <= INT_MAX
         /\ \A x, b \in Vertices(t) : Weight(t.graph, x, b) \in Nat
         /\ \A x, b \in Vertices(t) : Edge(t, x, b) => Weight(t.graph, x, b) >= 1
         /\ \A x, b \in Vertices(t) :
              Edge(t, x, b) /\ Expected(t, x) # INT_MAX =>
                /\ Expected(t, x) + Weight(t.graph, x, b) <= INT_MAX
                /\ Expected(t, b) <= Expected(t, x) + Weight(t.graph, x, b)
         /\ \A j \in Len(t.graph) .. t.RES_ITEMS - 1 : Expected(t, j) = 0
<1>1. t.RES_ITEMS \in Nat
  BY TestAssumption
<1>2. Len(t.graph) \in 2 .. t.RES_ITEMS /\ ShortestTable(t) /\ Beyond(t, Len(t.graph))
  BY GraphAssumption
<1>3. \A x, b \in Vertices(t) : Weight(t.graph, x, b) \in Nat
  BY GraphAssumption
<1>4. 0 \in Vertices(t) /\ Vertices(t) \subseteq Items(t)
  BY <1>1, <1>2 DEF Vertices, Items
<1>5. \A x, b \in Vertices(t) : Edge(t, x, b) => Weight(t.graph, x, b) >= 1
  BY <1>3 DEF Edge
<1>6. \A b \in Vertices(t) : Expected(t, b) \in Nat /\ Expected(t, b) <= INT_MAX
  BY <1>2, MaxIsPositive DEF ShortestTable
<1>. QED  BY <1>1, <1>2, <1>3, <1>4, <1>5, <1>6 DEF ShortestTable, Beyond

\* The last edge of a shortest walk comes from a nearer vertex.
LEMMA NearerVertex ==
  ASSUME NEW t \in Tests, t.graph # <<>>,
         NEW b \in Vertices(t), b # 0, Expected(t, b) # INT_MAX
  PROVE  \E x \in Vertices(t) :
           /\ Edge(t, x, b) /\ Expected(t, x) # INT_MAX
           /\ Expected(t, b) = Expected(t, x) + Weight(t.graph, x, b)
           /\ Expected(t, x) < Expected(t, b)
<1>1. PICK x \in Vertices(t) : /\ Edge(t, x, b)
                             /\ Expected(t, b) = Expected(t, x) + Weight(t.graph, x, b)
  BY GraphAssumption DEF ShortestTable
<1>2. /\ Expected(t, x) \in Nat /\ Expected(t, x) <= INT_MAX
      /\ Expected(t, b) \in Nat /\ Expected(t, b) <= INT_MAX
      /\ Weight(t.graph, x, b) \in Nat /\ Weight(t.graph, x, b) >= 1
  BY <1>1, GraphFacts
<1>. QED  BY <1>1, <1>2, MaxIsPositive

\* Only the source is at distance 0.
LEMMA OnlySourceAtZero ==
  ASSUME NEW t \in Tests, t.graph # <<>>, NEW b \in Vertices(t), b # 0
  PROVE  Expected(t, b) # 0
<1>1. CASE Expected(t, b) = INT_MAX
  BY <1>1, MaxIsPositive
<1>2. CASE Expected(t, b) # INT_MAX
  <2>1. PICK x \in Vertices(t) : Expected(t, x) < Expected(t, b)
    BY <1>2, NearerVertex
  <2>. QED  BY <2>1, GraphFacts
<1>. QED  BY <1>1, <1>2

-----------------------------------------------------------------------------
\* Between two rounds.
Explored(t, S, W) ==
  /\ S \subseteq Vertices(t) /\ W[0] = 0
  /\ \A b \in Vertices(t) : W[b] \in Expected(t, b) .. INT_MAX
  /\ \A b \in S : W[b] = Expected(t, b)
  /\ \A x \in S, b \in Vertices(t) :
       Edge(t, x, b) /\ Expected(t, x) # INT_MAX => W[b] <= Expected(t, x) + Weight(t.graph, x, b)

\* A distance that is too long has a nearer vertex that is not picked.
LEMMA OpenPredecessor ==
  ASSUME NEW t \in Tests, t.graph # <<>>, NEW S, NEW W, Explored(t, S, W)
  PROVE  \A x \in Vertices(t) :
           W[x] # Expected(t, x) => \E c \in Vertices(t) \ S : Expected(t, c) < Expected(t, x)
<1>. SUFFICES ASSUME NEW x \in Vertices(t), W[x] # Expected(t, x)
              PROVE  \E c \in Vertices(t) \ S : Expected(t, c) < Expected(t, x)
  OBVIOUS
<1>1. x # 0
  BY GraphFacts DEF Explored
<1>2. W[x] \in Nat /\ Expected(t, x) \in Nat /\ Expected(t, x) < W[x] /\ Expected(t, x) # INT_MAX
  BY GraphFacts, MaxIsPositive DEF Explored
<1>3. PICK c \in Vertices(t) : /\ Edge(t, c, x) /\ Expected(t, c) # INT_MAX
                               /\ Expected(t, x) = Expected(t, c) + Weight(t.graph, c, x)
                               /\ Expected(t, c) < Expected(t, x)
  BY <1>1, <1>2, NearerVertex
<1>4. c \notin S
  BY <1>2, <1>3 DEF Explored
<1>. QED  BY <1>3, <1>4

\* The nearest vertex that is left is at its shortest distance.
LEMMA NearestIsShortest ==
  ASSUME NEW t \in Tests, t.graph # <<>>, NEW S, NEW W, Explored(t, S, W)
  PROVE  \A q \in Vertices(t) \ S :
           (\A w \in Vertices(t) \ S : W[q] <= W[w]) => W[q] = Expected(t, q)
<1>. DEFINE Long == {b \in Vertices(t) : W[b] # Expected(t, b)}
            f == [b \in Long |-> Expected(t, b)]
<1>. SUFFICES ASSUME NEW q \in Long \ S, \A w \in Vertices(t) \ S : W[q] <= W[w] PROVE FALSE
  OBVIOUS
<1>1. \A b \in Vertices(t) : /\ Expected(t, b) \in Nat /\ W[b] \in Nat
                             /\ Expected(t, b) <= W[b] /\ W[b] <= INT_MAX
  BY GraphFacts, MaxIsPositive DEF Explored
<1>2. Long # {} /\ \A b \in Long : f[b] \in Nat
  BY <1>1
<1>. HIDE DEF f
<1>3. PICK x \in Long : \A y \in Long : f[x] <= f[y]
  BY <1>2, LeastBy
<1>4. \A y \in Long : Expected(t, x) <= Expected(t, y)
  BY <1>3 DEF f
<1>5. PICK c \in Vertices(t) \ S : Expected(t, c) < Expected(t, x)
  BY OpenPredecessor
<1>6. W[c] = Expected(t, c)
  <2>1. ~ (Expected(t, x) <= Expected(t, c))
    BY <1>1, <1>5
  <2>. QED  BY <1>4, <2>1
<1>7. Expected(t, x) <= Expected(t, q) /\ Expected(t, q) < W[q] /\ W[q] <= W[c]
  BY <1>1, <1>4
<1>. QED  BY <1>1, <1>5, <1>6, <1>7

\* When one vertex is left, it is, too.
LEMMA LastIsShortest ==
  ASSUME NEW t \in Tests, t.graph # <<>>, NEW S, NEW W, Explored(t, S, W),
         ~ (Cardinality(S) < Len(t.graph) - 1)
  PROVE  \A b \in Vertices(t) : W[b] = Expected(t, b)
<1>. SUFFICES ASSUME NEW x \in Vertices(t), W[x] # Expected(t, x) PROVE FALSE
  OBVIOUS
<1>1. PICK c \in Vertices(t) \ S : Expected(t, c) < Expected(t, x)
  BY OpenPredecessor
<1>2. x \notin S /\ c # x
  BY <1>1, GraphFacts DEF Explored
<1>. DEFINE Others == Vertices(t) \ {c}
            Rest == Others \ {x}
            Size == Len(t.graph)
<1>3. IsFiniteSet(Vertices(t)) /\ Cardinality(Vertices(t)) = Size
  <2>1. Size \in Nat /\ Size >= 2
    BY GraphFacts
  <2>. HIDE DEF Size
  <2>2. IsFiniteSet(0 .. Size - 1) /\ Cardinality(0 .. Size - 1) = Size
    <3>1. PICK last \in Int : last = Size - 1 /\ ~ (0 > last) /\ (last - 0) + 1 = Size
      BY <2>1
    <3>2. Cardinality(0 .. last) = (last - 0) + 1 /\ IsFiniteSet(0 .. last)
      BY <3>1, FS_Interval
    <3>. QED  BY <3>1, <3>2
  <2>. QED  BY <2>2 DEF Vertices, Size
<1>4. IsFiniteSet(Rest) /\ Cardinality(Rest) = (Size - 1) - 1
  <2>1. IsFiniteSet(Others) /\ Cardinality(Others) = Size - 1
    BY <1>1, <1>3, FS_RemoveElement
  <2>2. x \in Others
    BY <1>2
  <2>. HIDE DEF Others
  <2>. QED  BY <2>1, <2>2, FS_RemoveElement
<1>5. S \subseteq Rest
  BY <1>1, <1>2 DEF Explored
<1>6. Cardinality(S) <= Cardinality(Rest) /\ Cardinality(S) \in Nat
  BY <1>4, <1>5, FS_Subset, FS_CardinalityType
<1>. QED  BY <1>4, <1>6, GraphFacts

-----------------------------------------------------------------------------
(* The steps of Dijkstra's algorithm.                                      *)
LEMMA ClearKeepsGraph ==
  ASSUME NEW t \in Tests, t.graph # <<>>, NEW n, NEW a, NEW S, NEW W, DOMAIN W = Items(t),
         GraphInv(t, "clear", n, a, S, W)
  PROVE  /\ n \in Items(t)
         /\ GraphInv(t, IF n + 1 = Len(t.graph) THEN "source" ELSE "clear", n + 1, a, S,
                     [W EXCEPT ![n] = INT_MAX])
<1>. DEFINE X == [W EXCEPT ![n] = INT_MAX]
<1>1. n \in Vertices(t) /\ S = {} /\ \A j \in Vertices(t) : W[j] = IF j < n THEN INT_MAX ELSE 0
  BY DEF GraphInv
<1>2. n \in 0 .. Len(t.graph) - 1 /\ Len(t.graph) \in Nat /\ n \in Items(t)
  BY <1>1, GraphFacts DEF Vertices
<1>3. \A j \in Items(t) : X[j] = IF j = n THEN INT_MAX ELSE W[j]
  BY <1>2
<1>. HIDE DEF X
<1>4. \A j \in Len(t.graph) .. t.RES_ITEMS - 1 : j \in Items(t) /\ j # n
  BY <1>2, GraphFacts DEF Items
<1>5. \A j \in Len(t.graph) .. t.RES_ITEMS - 1 : X[j] = 0
  BY <1>3, <1>4 DEF GraphInv
<1>6. \A j \in Vertices(t) : X[j] = IF j < n + 1 THEN INT_MAX ELSE 0
  <2>. TAKE j \in Vertices(t)
  <2>1. j \in Items(t) /\ j \in Nat
    BY GraphFacts DEF Vertices
  <2>. QED  BY <1>1, <1>2, <1>3, <2>1
<1>7. CASE n + 1 = Len(t.graph)
  BY <1>1, <1>2, <1>5, <1>6, <1>7 DEF GraphInv, Vertices, X
<1>8. CASE n + 1 # Len(t.graph)
  <2>1. n + 1 \in Vertices(t)
    BY <1>2, <1>8 DEF Vertices
  <2>. QED  BY <1>1, <1>2, <1>5, <1>6, <1>8, <2>1 DEF GraphInv, X
<1>. QED  BY <1>7, <1>8

LEMMA SourceKeepsGraph ==
  ASSUME NEW t \in Tests, t.graph # <<>>, NEW n, NEW a, NEW S, NEW W, DOMAIN W = Items(t),
         GraphInv(t, "source", n, a, S, W)
  PROVE  0 \in Items(t) /\ GraphInv(t, "pick", n, a, S, [W EXCEPT ![0] = 0])
<1>. DEFINE X == [W EXCEPT ![0] = 0]
<1>1. 0 \in Items(t) /\ \A j \in Items(t) : X[j] = IF j = 0 THEN 0 ELSE W[j]
  BY GraphFacts
<1>2. S = {} /\ \A j \in Vertices(t) : W[j] = INT_MAX
  BY DEF GraphInv
<1>. HIDE DEF X
<1>3. \A j \in Len(t.graph) .. t.RES_ITEMS - 1 : X[j] = 0
  BY <1>1, GraphFacts DEF GraphInv, Items
<1>4. X[0] = 0 /\ \A b \in Vertices(t) : X[b] \in Expected(t, b) .. INT_MAX
  BY <1>1, <1>2, GraphFacts, MaxIsPositive
<1>5. Cardinality(S) < Len(t.graph) - 1
  BY <1>2, FS_EmptySet, GraphFacts
<1>6. Searching(t, "pick", n, a, S, X)
  BY <1>2, <1>4, <1>5 DEF Searching
<1>. QED  BY <1>1, <1>3, <1>6 DEF GraphInv, X

LEMMA PickKeepsGraph ==
  ASSUME NEW t \in Tests, t.graph # <<>>, NEW n, NEW a, NEW S, NEW W,
         GraphInv(t, "pick", n, a, S, W),
         NEW q, q = minDistance([k \in Vertices(t) |-> W[k]], Vertices(t) \ S)
  PROVE  q \in Vertices(t) /\ GraphInv(t, "relax", 0, q, S \cup {q}, W)
<1>. DEFINE left == Vertices(t) \ S
            D == [k \in Vertices(t) |-> W[k]]
            m == Len(t.graph) - 1
<1>1. Searching(t, "pick", n, a, S, W)
  BY DEF GraphInv
<1>2. \A b \in Vertices(t) : W[b] \in Nat
  BY <1>1, GraphFacts, MaxIsPositive DEF Searching
<1>3. m \in Nat /\ left \subseteq 0 .. m /\ \A x \in left : D[x] \in Nat
  BY <1>2, GraphFacts DEF Vertices
<1>4. IsFiniteSet(Vertices(t)) /\ Cardinality(Vertices(t)) = m + 1
  <2>. HIDE DEF m
  <2>1. ~ (0 > m) /\ (m - 0) + 1 = m + 1 /\ Vertices(t) = 0 .. m
    BY <1>3 DEF Vertices, m
  <2>. QED  BY <1>3, <2>1, FS_Interval
<1>5. IsFiniteSet(S) /\ Cardinality(S) \in Nat /\ Cardinality(S) < m
  BY <1>1, <1>4, FS_Subset, FS_CardinalityType DEF Searching
<1>6. left # {}
  <2>. SUFFICES ASSUME left = {} PROVE FALSE
    OBVIOUS
  <2>1. S = Vertices(t)
    BY <1>1 DEF Searching
  <2>. QED  BY <1>3, <1>4, <1>5, <2>1
<1>7. q \in left /\ \A w \in left : D[q] <= D[w]
  <2>. HIDE DEF m, left, D
  <2>1. q = minDistance(D, left)
    BY DEF D, left
  <2>. QED  BY <1>3, <1>6, <2>1, MinDistanceIsNearest
<1>8. W[q] = Expected(t, q)
  <2>1. q \in left /\ \A w \in left : W[q] <= W[w]
    BY <1>7
  <2>2. Explored(t, S, W)
    BY <1>1 DEF Explored, Searching
  <2>3. \A x \in left : (\A w \in left : W[x] <= W[w]) => W[x] = Expected(t, x)
    BY <2>2, NearestIsShortest
  <2>. HIDE DEF left
  <2>. QED  BY <2>1, <2>3
<1>9. Cardinality(S \cup {q}) <= m
  <2>1. q \notin S
    BY <1>7
  <2>2. Cardinality(S \cup {q}) = Cardinality(S) + 1
    BY <1>5, <2>1, FS_AddElement
  <2>. QED  BY <1>3, <1>5, <2>2
<1>10. Searching(t, "relax", 0, q, S \cup {q}, W)
  <2>1. ASSUME NEW x \in S \cup {q}, NEW b \in Vertices(t),
               Edge(t, x, b), Expected(t, x) # INT_MAX, x = q => b < 0
        PROVE  W[b] <= Expected(t, x) + Weight(t.graph, x, b)
    <3>1. b >= 0
      BY GraphFacts DEF Vertices
    <3>2. x \in S
      BY <2>1, <3>1, GraphFacts DEF Vertices
    <3>. QED  BY <1>1, <2>1, <3>2 DEF Searching
  <2>2. 0 \in Vertices(t)
    BY GraphFacts
  <2>. QED  BY <1>1, <1>7, <1>8, <1>9, <2>1, <2>2 DEF Searching
<1>. QED  BY <1>7, <1>10 DEF GraphInv

\* The last iteration of the inner loop begins another round or ends.
AfterEdge(t, n, S) ==
  IF n + 1 < Len(t.graph) THEN "relax"
  ELSE IF Cardinality(S) < Len(t.graph) - 1 THEN "pick" ELSE "done"

IsShorter(t, n, a, S, W) ==
  /\ n \notin S /\ Edge(t, a, n) /\ W[a] # INT_MAX
  /\ W[a] + Weight(t.graph, a, n) < W[n]

\* The distance that a relaxed edge gives is one that a walk has.
LEMMA ShorterIsBounded ==
  ASSUME NEW t \in Tests, t.graph # <<>>, NEW n, NEW a, NEW S, NEW W,
         Searching(t, "relax", n, a, S, W), IsShorter(t, n, a, S, W)
  PROVE  /\ W[a] = Expected(t, a) /\ Expected(t, a) # INT_MAX
         /\ W[a] + Weight(t.graph, a, n) \in Expected(t, n) .. INT_MAX
         /\ n # 0 /\ W[n] # Expected(t, n)
<1>1. a \in S /\ a \in Vertices(t) /\ n \in Vertices(t) /\ W[a] = Expected(t, a) /\ W[0] = 0
  BY DEF Searching
<1>2. Edge(t, a, n) /\ Expected(t, a) # INT_MAX /\ W[a] + Weight(t.graph, a, n) < W[n]
  BY <1>1 DEF IsShorter
<1>3. W[a] + Weight(t.graph, a, n) <= INT_MAX /\ Expected(t, n) <= W[a] + Weight(t.graph, a, n)
  BY <1>1, <1>2, GraphFacts
<1>4. /\ W[a] \in Nat /\ Weight(t.graph, a, n) \in Nat /\ Expected(t, n) \in Nat
      /\ n = 0 => W[n] = 0
  BY <1>1, GraphFacts
<1>. QED  BY <1>1, <1>2, <1>3, <1>4, MaxIsPositive

\* After the step, whichever it is, the edges up to the n-th are relaxed.
LEMMA RelaxKeepsGraph ==
  ASSUME NEW t \in Tests, t.graph # <<>>, NEW n, NEW a, NEW S, NEW W, DOMAIN W = Items(t),
         GraphInv(t, "relax", n, a, S, W),
         NEW X, X = IF IsShorter(t, n, a, S, W)
                      THEN [W EXCEPT ![n] = W[a] + Weight(t.graph, a, n)] ELSE W
  PROVE  n \in Items(t) /\ GraphInv(t, AfterEdge(t, n, S), n + 1, a, S, X)
<1>1. Searching(t, "relax", n, a, S, W)
  BY DEF GraphInv
<1>2. /\ a \in S /\ a \in Vertices(t) /\ n \in Vertices(t) /\ n \in Items(t)
      /\ S \subseteq Vertices(t) /\ W[a] = Expected(t, a)
  BY <1>1, GraphFacts DEF Searching
<1>. DEFINE sum == W[a] + Weight(t.graph, a, n)
<1>3. \A j \in Items(t) : X[j] = IF IsShorter(t, n, a, S, W) /\ j = n THEN sum ELSE W[j]
  BY <1>2
<1>4. \A b \in Vertices(t) : /\ Expected(t, b) \in Nat /\ W[b] \in Nat
                             /\ Expected(t, b) <= W[b] /\ W[b] <= INT_MAX
  <2>1. \A b \in Vertices(t) : W[b] \in Expected(t, b) .. INT_MAX
    BY <1>1 DEF Searching
  <2>2. \A b \in Vertices(t) : Expected(t, b) \in Nat
    BY GraphFacts
  <2>. QED  BY <2>1, <2>2, MaxIsPositive
<1>5. IsShorter(t, n, a, S, W) =>
        sum \in Expected(t, n) .. INT_MAX /\ n # 0 /\ n \notin S /\ sum < W[n]
  BY <1>1, ShorterIsBounded DEF IsShorter
<1>6. X[0] = 0 /\ \A b \in Vertices(t) : X[b] \in Expected(t, b) .. INT_MAX /\ X[b] <= W[b]
  <2>1. X[0] = 0
    BY <1>1, <1>3, <1>5, GraphFacts DEF Searching
  <2>2. ASSUME NEW b \in Vertices(t)
        PROVE  X[b] \in Expected(t, b) .. INT_MAX /\ X[b] <= W[b]
    <3>1. b \in Items(t)
      BY GraphFacts
    <3>2. CASE IsShorter(t, n, a, S, W) /\ b = n
      BY <1>3, <1>4, <1>5, <3>1, <3>2, MaxIsPositive
    <3>3. CASE ~ (IsShorter(t, n, a, S, W) /\ b = n)
      BY <1>3, <1>4, <3>1, <3>3, MaxIsPositive
    <3>. QED  BY <3>2, <3>3
  <2>. QED  BY <2>1, <2>2
<1>7. \A b \in S : X[b] = Expected(t, b)
  BY <1>1, <1>2, <1>3, <1>5, GraphFacts DEF Searching
<1>8. Edge(t, a, n) /\ Expected(t, a) # INT_MAX => X[n] <= Expected(t, a) + Weight(t.graph, a, n)
  <2>. SUFFICES ASSUME Edge(t, a, n), Expected(t, a) # INT_MAX
                PROVE  X[n] <= Expected(t, a) + Weight(t.graph, a, n)
    OBVIOUS
  <2>1. CASE IsShorter(t, n, a, S, W)
    BY <1>2, <1>3, <1>4, <2>1, GraphFacts
  <2>2. CASE ~ IsShorter(t, n, a, S, W) /\ n \in S
    BY <1>2, <1>7, <2>2, GraphFacts
  <2>3. CASE ~ IsShorter(t, n, a, S, W) /\ n \notin S
    <3>1. ~ (sum < W[n]) /\ X[n] = W[n]
      BY <1>2, <1>3, <2>3 DEF IsShorter
    <3>. QED  BY <1>2, <1>4, <3>1, GraphFacts
  <2>. QED  BY <2>1, <2>2, <2>3
<1>9. ASSUME NEW x \in S, NEW b \in Vertices(t), Edge(t, x, b), Expected(t, x) # INT_MAX,
             x = a => b < n + 1
      PROVE  X[b] <= Expected(t, x) + Weight(t.graph, x, b)
  <2>1. CASE x = a /\ b = n
    BY <1>8, <1>9, <2>1
  <2>2. CASE ~ (x = a /\ b = n)
    <3>1. x = a => b < n
      BY <1>2, <1>9, <2>2, GraphFacts DEF Vertices
    <3>2. W[b] <= Expected(t, x) + Weight(t.graph, x, b)
      BY <1>1, <1>9, <3>1 DEF Searching
    <3>3. /\ X[b] \in Int /\ W[b] \in Int /\ X[b] <= W[b]
          /\ Expected(t, x) + Weight(t.graph, x, b) \in Int
      <4>1. x \in Vertices(t) /\ Expected(t, x) \in Nat /\ Weight(t.graph, x, b) \in Nat
        BY <1>2, GraphFacts
      <4>2. X[b] \in Expected(t, b) .. INT_MAX /\ X[b] <= W[b] /\ W[b] \in Nat
        BY <1>4, <1>6
      <4>. QED  BY <4>1, <4>2
    <3>. QED  BY <3>2, <3>3
  <2>. QED  BY <2>1, <2>2
<1>10. \A j \in Len(t.graph) .. t.RES_ITEMS - 1 : X[j] = 0
  <2>. TAKE j \in Len(t.graph) .. t.RES_ITEMS - 1
  <2>1. /\ Len(t.graph) \in Nat /\ t.RES_ITEMS \in Nat /\ n \in 0 .. Len(t.graph) - 1
        /\ j \in Int /\ j >= Len(t.graph) /\ j <= t.RES_ITEMS - 1
    BY <1>2, GraphFacts DEF Vertices
  <2>2. j \in Items(t) /\ j # n
    BY <2>1 DEF Items
  <2>3. W[j] = 0
    BY DEF GraphInv
  <2>. QED  BY <1>3, <2>2, <2>3
<1>11. n + 1 < Len(t.graph) => n + 1 \in Vertices(t)
  BY <1>2, GraphFacts DEF Vertices
<1>12. Cardinality(S) \in Nat /\ Cardinality(S) <= Len(t.graph) - 1
  <2>1. IsFiniteSet(Vertices(t))
    BY GraphFacts, FS_Interval DEF Vertices
  <2>. QED  BY <1>1, <1>2, <2>1, FS_Subset, FS_CardinalityType DEF Searching
<1>13. CASE n + 1 < Len(t.graph)
  <2>1. AfterEdge(t, n, S) = "relax"
    BY <1>13 DEF AfterEdge
  <2>2. Searching(t, "relax", n + 1, a, S, X)
    BY <1>2, <1>6, <1>7, <1>9, <1>11, <1>12, <1>13 DEF Searching
  <2>. QED  BY <1>2, <1>10, <2>1, <2>2 DEF GraphInv
<1>14. CASE ~ (n + 1 < Len(t.graph))
  <2>1. ASSUME NEW x \in S, NEW b \in Vertices(t), Edge(t, x, b), Expected(t, x) # INT_MAX
        PROVE  X[b] <= Expected(t, x) + Weight(t.graph, x, b)
    <3>1. b < n + 1
      BY <1>2, <1>14, GraphFacts DEF Vertices
    <3>. QED  BY <1>9, <2>1, <3>1
  <2>2. CASE Cardinality(S) < Len(t.graph) - 1
    <3>1. AfterEdge(t, n, S) = "pick"
      BY <1>14, <2>2 DEF AfterEdge
    <3>2. Searching(t, "pick", n + 1, a, S, X)
      BY <1>2, <1>6, <1>7, <2>1, <2>2 DEF Searching
    <3>. QED  BY <1>2, <1>10, <3>1, <3>2 DEF GraphInv
  <2>3. CASE ~ (Cardinality(S) < Len(t.graph) - 1)
    <3>1. AfterEdge(t, n, S) = "done"
      BY <1>14, <2>3 DEF AfterEdge
    <3>3. \A b \in Vertices(t) : X[b] = Expected(t, b)
      <4>1. Explored(t, S, X)
        BY <1>2, <1>6, <1>7, <2>1 DEF Explored
      <4>. QED  BY <2>3, <4>1, LastIsShortest
    <3>4. Searching(t, "done", n + 1, a, S, X)
      BY <1>2, <1>6, <1>7, <2>1, <3>3 DEF Searching
    <3>. QED  BY <1>2, <1>10, <3>1, <3>4 DEF GraphInv
  <2>. QED  BY <2>2, <2>3
<1>. QED  BY <1>13, <1>14

-----------------------------------------------------------------------------
(* The step of a sequence of writes, and those of the check word.          *)
LEMMA WriteKeepsWrites ==
  ASSUME NEW t \in Tests, t.writes # <<>>, NEW n, NEW W, DOMAIN W = Items(t),
         WritesInv(t, "write", n, W)
  PROVE  /\ t.writes[n + 1][1] \in Items(t)
         /\ WritesInv(t, IF n + 1 = Len(t.writes) THEN "done" ELSE "write", n + 1,
                      [W EXCEPT ![t.writes[n + 1][1]] = t.writes[n + 1][2]])
<1>. DEFINE at == t.writes[n + 1][1]
            X == [W EXCEPT ![at] = t.writes[n + 1][2]]
<1>1. Len(t.writes) \in Nat /\ n \in 0 .. Len(t.writes) - 1
  BY WritesAssumption DEF WritesInv
<1>2. at \in Items(t)
  BY <1>1, WritesAssumption DEF Items
<1>3. \A j \in Items(t) : X[j] = IF j = at THEN t.writes[n + 1][2] ELSE W[j]
  BY <1>2
<1>4. ASSUME NEW j \in Items(t)
      PROVE  \E m \in 0 .. n + 1 : LastWrite(t, m, n + 1, j) /\ X[j] = WordAfter(t, m)
  <2>1. CASE j = at
    <3>1. LastWrite(t, n + 1, n + 1, j) /\ X[j] = WordAfter(t, n + 1)
      BY <1>1, <1>3, <2>1 DEF LastWrite, WordAfter
    <3>. QED  BY <1>1, <3>1
  <2>2. CASE j # at
    <3>1. PICK m \in 0 .. n : LastWrite(t, m, n, j) /\ W[j] = WordAfter(t, m)
      BY DEF WritesInv
    <3>2. \A k \in m + 1 .. n + 1 : k \in m + 1 .. n \/ k = n + 1
      BY <1>1
    <3>3. LastWrite(t, m, n + 1, j)
      BY <1>1, <2>2, <3>1, <3>2 DEF LastWrite
    <3>4. m \in 0 .. n + 1
      BY <1>1
    <3>. QED  BY <1>3, <2>2, <3>1, <3>3, <3>4
  <2>. QED  BY <2>1, <2>2
<1>. HIDE DEF X
<1>5. n + 1 \in 0 .. Len(t.writes)
  BY <1>1
<1>. QED  BY <1>2, <1>4, <1>5 DEF WritesInv, X

LEMMA CheckFacts ==
  ASSUME NEW t \in Tests, t.bytes # <<>>
  PROVE  /\ Len(t.bytes) \in Nat /\ Len(t.bytes) > 8
         /\ Len(t.bytes) \div 4 \in Nat /\ Len(t.bytes) = 4 * (Len(t.bytes) \div 4)
         /\ \A j \in 0 .. (Len(t.bytes) \div 4) - 1 : j \in Items(t)
         /\ CheckAt(t) \in Items(t)
         /\ (Len(t.bytes) - 8 + 1) \div 4 = CheckAt(t) /\ (Len(t.bytes) - 8 + 1) % 4 = 1
         /\ (Len(t.bytes) - 8 + 2) \div 4 = CheckAt(t) /\ (Len(t.bytes) - 8 + 2) % 4 = 2
         /\ \A n \in 1 .. Len(t.bytes) - 8 : n \div 4 \in Items(t)
<1>. DEFINE N == Len(t.bytes)
            K == N \div 4
<1>1. N \in Nat /\ N > 8 /\ N % 4 = 0 /\ K <= t.RES_ITEMS /\ t.RES_ITEMS \in Nat
  BY CheckAssumption, TestAssumption
<1>2. CheckAt(t) = (N - 8) \div 4
  BY DEF CheckAt
<1>. HIDE DEF N
<1>3. K \in Nat /\ N = 4 * K /\ K >= 3
  BY <1>1
<1>4. \A j \in 0 .. K - 1 : j \in Items(t)
  BY <1>1, <1>3 DEF Items
<1>5. (N - 8) \div 4 = K - 2
  BY <1>1, <1>3
<1>6. /\ (N - 8 + 1) \div 4 = K - 2 /\ (N - 8 + 1) % 4 = 1
      /\ (N - 8 + 2) \div 4 = K - 2 /\ (N - 8 + 2) % 4 = 2
  BY <1>1, <1>3
<1>7. \A n \in 1 .. N - 8 : n \div 4 \in 0 .. K - 1
  BY <1>1, <1>3
<1>8. CheckAt(t) \in Items(t)
  BY <1>1, <1>2, <1>3, <1>5 DEF Items
<1>. QED  BY <1>1, <1>2, <1>3, <1>4, <1>5, <1>6, <1>7, <1>8 DEF N

LEMMA CopyKeepsCheck ==
  ASSUME NEW t \in Tests, t.bytes # <<>>, NEW n, NEW c, NEW W, DOMAIN W = Items(t),
         CheckInv(t, "copy", n, c, W)
  PROVE  /\ n \in Items(t)
         /\ CheckInv(t, IF 4 * (n + 1) = Len(t.bytes) THEN "unset" ELSE "copy", n + 1, c,
                     [W EXCEPT ![n] = Words(t.bytes)[n + 1]])
<1>. DEFINE X == [W EXCEPT ![n] = Words(t.bytes)[n + 1]]
            K == Len(t.bytes) \div 4
<1>1. /\ n \in 0 .. K - 1 /\ K \in Nat /\ Len(t.bytes) = 4 * K /\ n \in Items(t)
      /\ \A j \in Items(t) : W[j] = IF j < n THEN CopiedWord(t, j) ELSE 0
  BY CheckFacts DEF CheckInv
<1>2. \A j \in Items(t) : X[j] = IF j = n THEN CopiedWord(t, n) ELSE W[j]
  <2>1. n < K
    <3>. HIDE DEF K
    <3>. QED  BY <1>1
  <2>2. CopiedWord(t, n) = Words(t.bytes)[n + 1]
    BY <2>1 DEF CopiedWord
  <2>. QED  BY <1>1, <2>2
<1>. HIDE DEF X
<1>3. \A j \in Items(t) : X[j] = IF j < n + 1 THEN CopiedWord(t, j) ELSE 0
  <2>. TAKE j \in Items(t)
  <2>1. j \in Int /\ n \in Int
    BY <1>1, TestAssumption DEF Items
  <2>2. CASE j = n
    BY <1>2, <2>1, <2>2
  <2>3. CASE j # n
    BY <1>1, <1>2, <2>1, <2>3
  <2>. QED  BY <2>2, <2>3
<1>4. CASE 4 * (n + 1) = Len(t.bytes)
  <2>1. \A j \in Items(t) : ~ (j < n + 1) => CopiedWord(t, j) = 0
    <3>1. n + 1 = K
      <4>. HIDE DEF K
      <4>. QED  BY <1>1, <1>4
    <3>. QED  BY <3>1 DEF CopiedWord
  <2>2. \A j \in Items(t) : X[j] = CopiedWord(t, j)
    BY <1>3, <2>1
  <2>. QED  BY <1>1, <1>4, <2>2 DEF CheckInv, X
<1>5. CASE 4 * (n + 1) # Len(t.bytes)
  <2>1. n + 1 \in 0 .. K - 1
    <3>. HIDE DEF K
    <3>. QED  BY <1>1, <1>5
  <2>. QED  BY <1>1, <1>3, <1>5, <2>1 DEF CheckInv, X
<1>. QED  BY <1>4, <1>5

LEMMA UnsetKeepsCheck ==
  ASSUME NEW t \in Tests, t.bytes # <<>>, NEW n, NEW c, NEW W, DOMAIN W = Items(t),
         CheckInv(t, "unset", n, c, W)
  PROVE  CheckInv(t, "crc", 1, 0, [W EXCEPT ![CheckAt(t)] = WithByte(W[CheckAt(t)], 1, 0)])
<1>1. CheckAt(t) \in Items(t) /\ \A j \in Items(t) : W[j] = CopiedWord(t, j)
  BY CheckFacts DEF CheckInv
<1>2. 1 \in 1 .. Len(t.bytes) - 8 /\ CheckAfter(t, 1 - 1) = 0
  <2>1. Len(t.bytes) \in Nat /\ Len(t.bytes) > 8 /\ CheckAfter(t, 0) = 0
    BY CheckAssumption
  <2>2. 1 - 1 = 0
    OBVIOUS
  <2>. QED  BY <2>1, <2>2
<1>. DEFINE X == [W EXCEPT ![CheckAt(t)] = WithByte(W[CheckAt(t)], 1, 0)]
<1>3. \A j \in Items(t) : X[j] = UnsetWord(t, j)
  BY <1>1 DEF UnsetWord
<1>. HIDE DEF X
<1>4. CheckInv(t, "crc", 1, 0, X)
  BY <1>2, <1>3 DEF CheckInv
<1>. QED  BY <1>4 DEF X

LEMMA ByteKeepsCheck ==
  ASSUME NEW t \in Tests, t.bytes # <<>>, NEW n, NEW c, NEW W, CheckInv(t, "crc", n, c, W)
  PROVE  /\ n \in 1 .. Len(t.bytes) - 8
         /\ CheckInv(t, IF n < Len(t.bytes) - 8 THEN "crc" ELSE "high", n + 1,
                     icrc(c, ByteOf(W[n \div 4], n % 4)), W)
<1>1. /\ n \in 1 .. Len(t.bytes) - 8 /\ c = CheckAfter(t, n - 1)
      /\ \A j \in Items(t) : W[j] = UnsetWord(t, j)
  BY DEF CheckInv
<1>2. icrc(c, ByteOf(W[n \div 4], n % 4)) = CheckAfter(t, n)
  <2>1. W[n \div 4] = UnsetWord(t, n \div 4)
    BY <1>1, CheckFacts
  <2>2. CheckAfter(t, n) = icrc(CheckAfter(t, n - 1), ByteOf(UnsetWord(t, n \div 4), n % 4))
    BY <1>1, CheckAssumption
  <2>. QED  BY <1>1, <2>1, <2>2
<1>3. CASE n < Len(t.bytes) - 8
  <2>1. n + 1 \in 1 .. Len(t.bytes) - 8 /\ (n + 1) - 1 = n
    BY <1>1, <1>3, CheckFacts
  <2>. QED  BY <1>1, <1>2, <1>3, <2>1 DEF CheckInv
<1>4. CASE ~ (n < Len(t.bytes) - 8)
  <2>1. n = Len(t.bytes) - 8
    BY <1>1, <1>4, CheckFacts
  <2>. QED  BY <1>1, <1>2, <1>4, <2>1 DEF CheckInv, CheckOf
<1>. QED  BY <1>3, <1>4

LEMMA HighKeepsCheck ==
  ASSUME NEW t \in Tests, t.bytes # <<>>, NEW n, NEW c, NEW W, CheckInv(t, "high", n, c, W)
  PROVE  \A X : (\A j \in Items(t) : X[j] = IF j = CheckAt(t) THEN WithByte(W[j], 1, c \div 256) ELSE W[j])
                 => CheckInv(t, "low", n, c, X)
<1>1. /\ CheckAt(t) \in Items(t) /\ c = CheckOf(t)
      /\ \A j \in Items(t) : W[j] = UnsetWord(t, j)
  BY CheckFacts DEF CheckInv
<1>. QED  BY <1>1 DEF CheckInv, HalfWord

LEMMA LowKeepsCheck ==
  ASSUME NEW t \in Tests, t.bytes # <<>>, NEW n, NEW c, NEW W, CheckInv(t, "low", n, c, W)
  PROVE  \A X : (\A j \in Items(t) : X[j] = IF j = CheckAt(t) THEN WithByte(W[j], 2, c % 256) ELSE W[j])
                 => CheckInv(t, "done", n, c, X)
<1>1. /\ CheckAt(t) \in Items(t) /\ c = CheckOf(t)
      /\ \A j \in Items(t) : W[j] = HalfWord(t, j)
  BY CheckFacts DEF CheckInv
<1>. QED  BY <1>1 DEF CheckInv, CheckedWord

-----------------------------------------------------------------------------
(* What all kernels have in common.                                        *)

\* When a kernel is done its words are what is expected.
LEMMA DoneIsRight ==
  ASSUME NEW t \in Tests, NEW n, NEW a, NEW S, NEW W, KernelInv(t, "done", n, a, S, W)
  PROVE  \A j \in Items(t) : W[j] = Expected(t, j)
<1>1. t.graph # <<>> \/ t.bytes # <<>> \/ t.writes # <<>>
  BY TestAssumption
<1>2. CASE t.graph # <<>>
  <2>. TAKE j \in Items(t)
  <2>1. GraphInv(t, "done", n, a, S, W)
    BY <1>2 DEF KernelInv
  <2>2. \/ j \in Vertices(t)
        \/ j \in Len(t.graph) .. t.RES_ITEMS - 1
    BY <1>2, GraphFacts DEF Items, Vertices
  <2>. QED  BY <1>2, <2>1, <2>2, GraphFacts DEF GraphInv, Searching
<1>3. CASE t.bytes # <<>>
  BY <1>3, CheckAssumption DEF KernelInv, CheckInv, Items
<1>4. CASE t.writes # <<>>
  <2>. TAKE j \in Items(t)
  <2>1. WritesInv(t, "done", n, W) /\ Len(t.writes) \in Nat
    BY <1>4, WritesAssumption DEF KernelInv
  <2>2. PICK m \in 0 .. Len(t.writes) : LastWrite(t, m, Len(t.writes), j) /\ W[j] = WordAfter(t, m)
    BY <2>1 DEF WritesInv
  <2>. QED  BY <1>4, <2>2, WritesAssumption DEF Items
<1>. QED  BY <1>1, <1>2, <1>3, <1>4

\* A telling word is right only of a kernel that has settled.
LEMMA TellingSettles ==
  ASSUME NEW t \in Tests, NEW p, NEW n, NEW a, NEW S, NEW W, KernelInv(t, p, n, a, S, W),
         NEW j \in Items(t), Tells(t, j), W[j] = Expected(t, j)
  PROVE  Settled(t, p)
<1>1. t.graph # <<>> \/ t.bytes # <<>> \/ t.writes # <<>>
  BY TestAssumption
<1>2. CASE t.graph # <<>>
  <2>1. GraphInv(t, p, n, a, S, W) /\ j \in Vertices(t) /\ j # 0 /\ Expected(t, j) # INT_MAX
    BY <1>2 DEF KernelInv, Tells
  <2>2. Expected(t, j) # 0
    BY <1>2, <2>1, OnlySourceAtZero
  <2>. QED  BY <1>2, <2>1, <2>2 DEF GraphInv, Settled
<1>3. CASE t.bytes # <<>>
  <2>1. t.graph = <<>> /\ CheckInv(t, p, n, a, W)
    BY <1>3, TestAssumption DEF KernelInv
  <2>2. Expected(t, j) \notin {0, CopiedWord(t, j), UnsetWord(t, j), HalfWord(t, j)}
    BY <1>3, <2>1 DEF Tells
  <2>. QED  BY <2>1, <2>2 DEF CheckInv, Settled
<1>4. CASE t.writes # <<>>
  <2>1. t.graph = <<>> /\ t.bytes = <<>> /\ WritesInv(t, p, n, W) /\ Len(t.writes) \in Nat \ {0}
    BY <1>4, TestAssumption, WritesAssumption DEF KernelInv
  <2>2. /\ Expected(t, j) # 0
        /\ \A m \in 1 .. Len(t.writes) - 1 : t.writes[m][1] = j => t.writes[m][2] # Expected(t, j)
    BY <2>1 DEF Tells
  <2>3. PICK m \in 0 .. n : LastWrite(t, m, n, j) /\ W[j] = WordAfter(t, m)
    BY <2>1 DEF WritesInv
  <2>4. m # 0 /\ t.writes[m][1] = j /\ W[j] = t.writes[m][2]
    BY <2>2, <2>3 DEF WordAfter, LastWrite
  <2>5. m \notin 1 .. Len(t.writes) - 1
    BY <2>2, <2>4
  <2>6. n = Len(t.writes)
    BY <2>1, <2>4, <2>5 DEF WritesInv
  <2>. QED  BY <2>1, <2>6 DEF WritesInv, Settled
<1>. QED  BY <1>1, <1>2, <1>3, <1>4

\* The step after which the kernel is settled makes every word right that could
\* have been found right before.
LEMMA HoldsAfterOthers ==
  ASSUME NEW t \in Tests, t.graph = <<>>, NEW p, p # "done",
         NEW q, NEW n, NEW a, NEW S, NEW X, KernelInv(t, q, n, a, S, X)
  PROVE  \A W : \A j \in Items(t) : Holds(t, p, W, j) => Holds(t, q, X, j)
BY DoneIsRight DEF Holds, Settled

LEMMA HoldsAfterClear ==
  ASSUME NEW t \in Tests, t.graph # <<>>, NEW p, p \in {"clear", "source"}
  PROVE  \A W, X : \A j \in Items(t) : Holds(t, "clear", W, j) => Holds(t, p, X, j)
BY DEF Holds, Settled

LEMMA HoldsAfterSource ==
  ASSUME NEW t \in Tests, t.graph # <<>>, NEW n, NEW a, NEW S, NEW W, DOMAIN W = Items(t),
         GraphInv(t, "source", n, a, S, W)
  PROVE  \A j \in Items(t) : Holds(t, "source", W, j) => Holds(t, "pick", [W EXCEPT ![0] = 0], j)
<1>. SUFFICES ASSUME NEW j \in Items(t), Holds(t, "source", W, j)
              PROVE  Holds(t, "pick", [W EXCEPT ![0] = 0], j)
  OBVIOUS
<1>1. ~ Tells(t, j)
  BY DEF Holds, Settled
<1>2. \/ j = 0
      \/ j \in Vertices(t) \ {0} /\ Expected(t, j) = INT_MAX
      \/ j # 0 /\ j \in Len(t.graph) .. t.RES_ITEMS - 1
  BY <1>1, GraphFacts DEF Tells, Items, Vertices
<1>3. [W EXCEPT ![0] = 0][j] = Expected(t, j)
  BY <1>2, GraphFacts DEF GraphInv
<1>. QED  BY <1>1, <1>3 DEF Holds

LEMMA HoldsAfterPick ==
  ASSUME NEW t \in Tests, t.graph # <<>>
  PROVE  \A W : \A j \in Items(t) : Holds(t, "pick", W, j) => Holds(t, "relax", W, j)
BY DEF Holds, Settled

LEMMA HoldsAfterRelax ==
  ASSUME NEW t \in Tests, t.graph # <<>>, NEW n, NEW a, NEW S, NEW W, DOMAIN W = Items(t),
         GraphInv(t, "relax", n, a, S, W),
         NEW X, X = IF IsShorter(t, n, a, S, W)
                      THEN [W EXCEPT ![n] = W[a] + Weight(t.graph, a, n)] ELSE W
  PROVE  \A j \in Items(t) : Holds(t, "relax", W, j) => Holds(t, AfterEdge(t, n, S), X, j)
<1>. SUFFICES ASSUME NEW j \in Items(t), Holds(t, "relax", W, j)
              PROVE  Holds(t, AfterEdge(t, n, S), X, j)
  OBVIOUS
<1>1. W[j] = Expected(t, j) /\ Settled(t, AfterEdge(t, n, S))
  BY DEF Holds, Settled, AfterEdge
<1>2. IsShorter(t, n, a, S, W) => W[n] # Expected(t, n)
  BY ShorterIsBounded DEF GraphInv
<1>3. X[j] = Expected(t, j)
  BY <1>1, <1>2
<1>. QED  BY <1>1, <1>3 DEF Holds

-----------------------------------------------------------------------------
(* The words of a core in the results of all.                              *)
LEMMA WordOfCore ==
  ASSUME NEW R \in Nat, NEW C \in Nat, NEW i \in 0 .. C - 1, NEW j \in 0 .. R - 1
  PROVE  /\ i * R + j \in 0 .. C * R - 1
         /\ \A k \in 0 .. C - 1, l \in 0 .. R - 1 : i * R + j = k * R + l => i = k /\ j = l
<1>1. i * R + j \in 0 .. C * R - 1
  <2>1. i * R \in Nat /\ C * R \in Nat /\ (i + 1) * R = i * R + R
    OBVIOUS
  <2>2. (i + 1) * R <= C * R
    OBVIOUS
  <2>. QED  BY <2>1, <2>2
<1>2. ASSUME NEW k \in 0 .. C - 1, NEW l \in 0 .. R - 1, i * R + j = k * R + l
      PROVE  i = k /\ j = l
  <2>1. i * R \in Nat /\ k * R \in Nat /\ (i + 1) * R = i * R + R /\ (k + 1) * R = k * R + R
    OBVIOUS
  <2>2. CASE i < k
    <3>1. (i + 1) * R <= k * R
      BY <2>2
    <3>. QED  BY <1>2, <2>1, <3>1
  <2>3. CASE k < i
    <3>1. (k + 1) * R <= i * R
      BY <2>3
    <3>. QED  BY <1>2, <2>1, <3>1
  <2>4. CASE i = k
    BY <1>2, <2>1, <2>4
  <2>. QED  BY <2>2, <2>3, <2>4
<1>. QED  BY <1>1, <1>2

LEMMA Dimensions ==
  ASSUME test \in Tests
  PROVE  /\ ncpu \in Nat \ {0} /\ RES_ITEMS \in Nat \ {0} /\ ncpu * RES_ITEMS \in Nat
         /\ 0 \in Cores /\ Cores \subseteq Nat /\ Items(test) \subseteq Nat
         /\ \A i \in Cores, j \in Items(test) :
              /\ Base(i) + j \in 0 .. ncpu * RES_ITEMS - 1
              /\ \A k \in Cores, l \in Items(test) : Base(i) + j = Base(k) + l => i = k /\ j = l
<1>1. ncpu \in Nat \ {0} /\ RES_ITEMS \in Nat \ {0}
  BY TestAssumption DEF ncpu, RES_ITEMS
<1>2. Items(test) = 0 .. RES_ITEMS - 1 /\ Cores = 0 .. ncpu - 1
  BY DEF Items, Cores, RES_ITEMS
<1>3. 0 \in Cores /\ Cores \subseteq Nat /\ Items(test) \subseteq Nat
  BY <1>1, <1>2
<1>4. ncpu * RES_ITEMS \in Nat
  BY <1>1
<1>5. \A i \in Cores, j \in Items(test) :
        /\ Base(i) + j \in 0 .. ncpu * RES_ITEMS - 1
        /\ \A k \in Cores, l \in Items(test) : Base(i) + j = Base(k) + l => i = k /\ j = l
  BY <1>1, <1>2, WordOfCore DEF Base
<1>. QED  BY <1>1, <1>3, <1>4, <1>5

LEMMA WordsAfterWrite ==
  ASSUME Typed, NEW i \in Cores, NEW j \in Items(test), NEW x, Write(i, j, x), test' = test
  PROVE  /\ words(i)' = [words(i) EXCEPT ![j] = x]
         /\ \A k \in Cores \ {i} : words(k)' = words(k)
         /\ DOMAIN RES' = DOMAIN RES
<1>1. /\ RES' = [RES EXCEPT ![Base(i) + j] = x] /\ Base(i) + j \in DOMAIN RES
      /\ DOMAIN RES' = DOMAIN RES
  BY Dimensions DEF Write, Typed
<1>2. ASSUME NEW k \in Cores, NEW l \in Items(test)
      PROVE  words(k)'[l] = IF k = i /\ l = j THEN x ELSE words(k)[l]
  <2>1. Base(k) + l \in DOMAIN RES /\ (Base(k) + l = Base(i) + j => k = i /\ l = j)
    BY Dimensions DEF Typed
  <2>2. words(k)'[l] = RES'[Base(k) + l] /\ words(k)[l] = RES[Base(k) + l]
    BY DEF words, Base, RES_ITEMS
  <2>. QED  BY <1>1, <2>1, <2>2
<1>3. \A k \in Cores : DOMAIN words(k)' = Items(test) /\ DOMAIN words(k) = Items(test)
  BY DEF words
<1>4. words(i)' = [words(i) EXCEPT ![j] = x]
  BY <1>2, <1>3 DEF words
<1>5. \A k \in Cores \ {i} : words(k)' = words(k)
  BY <1>2, <1>3 DEF words
<1>. QED  BY <1>1, <1>4, <1>5

-----------------------------------------------------------------------------
(* What a step of a kernel does to the state, whichever it is.             *)
Stepped(i) ==
  /\ pc[i] # "done"
  /\ \E place \in Places : Go(i, place)
  /\ KernelInv(test, pc'[i], v'[i], u'[i], sptSet'[i], words(i)')
  /\ \A j \in Items(test) : Holds(test, pc[i], words(i), j) => Holds(test, pc'[i], words(i)', j)
  /\ \A k \in Cores \ {i} : /\ v'[k] = v[k] /\ u'[k] = u[k] /\ sptSet'[k] = sptSet[k]
                            /\ words(k)' = words(k)
  /\ v' \in [Cores -> Nat] /\ DOMAIN u' = Cores /\ DOMAIN sptSet' = Cores
  /\ DOMAIN RES' = DOMAIN RES

LEMMA KernelOf ==
  ASSUME Typed, KernelsInv, NEW i \in Cores
  PROVE  /\ test \in Tests /\ v[i] \in Nat
         /\ DOMAIN words(i) = Items(test)
         /\ \A j \in Items(test) : RES[Base(i) + j] = words(i)[j]
         /\ KernelInv(test, pc[i], v[i], u[i], sptSet[i], words(i))
         /\ pc[i] \in {"clear", "source", "pick", "relax"} => graph # <<>>
         /\ pc[i] \in {"copy", "unset", "crc", "high", "low"} => bytes # <<>>
         /\ pc[i] = "write" => writes # <<>>
         /\ graph # <<>> => bytes = <<>> /\ writes = <<>>
         /\ bytes # <<>> => graph = <<>> /\ writes = <<>>
         /\ writes # <<>> => graph = <<>> /\ bytes = <<>>
<1>1. test \in Tests /\ v[i] \in Nat /\ KernelInv(test, pc[i], v[i], u[i], sptSet[i], words(i))
  BY DEF Typed, KernelsInv
<1>2. DOMAIN words(i) = Items(test) /\ \A j \in Items(test) : RES[Base(i) + j] = words(i)[j]
  BY DEF words
<1>3. /\ graph # <<>> \/ bytes # <<>> \/ writes # <<>>
      /\ graph # <<>> => bytes = <<>> /\ writes = <<>>
      /\ bytes # <<>> => graph = <<>> /\ writes = <<>>
      /\ writes # <<>> => graph = <<>> /\ bytes = <<>>
  BY <1>1, TestAssumption DEF graph, bytes, writes
<1>4. /\ graph # <<>> => pc[i] \in {"clear", "source", "pick", "relax", "done"}
      /\ bytes # <<>> => pc[i] \in {"copy", "unset", "crc", "high", "low", "done"}
      /\ writes # <<>> => pc[i] \in {"write", "done"}
  BY <1>1 DEF KernelInv, GraphInv, CheckInv, WritesInv, graph, bytes, writes
<1>. QED  BY <1>1, <1>2, <1>3, <1>4

\* A step that writes one word, of a kernel that is not a graph's.
LEMMA OtherStep ==
  ASSUME Typed, KernelsInv, NEW i \in Cores, graph = <<>>,
         NEW place \in Places, pc[i] # "done", Go(i, place), UNCHANGED sptSet,
         v' \in [Cores -> Nat], DOMAIN u' = Cores,
         \A k \in Cores \ {i} : v'[k] = v[k] /\ u'[k] = u[k] /\ words(k)' = words(k),
         DOMAIN RES' = DOMAIN RES,
         KernelInv(test, place, v'[i], u'[i], sptSet[i], words(i)')
  PROVE  Stepped(i)
<1>1. pc'[i] = place /\ sptSet' = sptSet
  BY DEF Typed, Go
<1>2. \A j \in Items(test) : Holds(test, pc[i], words(i), j) => Holds(test, pc'[i], words(i)', j)
  BY <1>1, HoldsAfterOthers DEF Typed, graph
<1>. QED  BY <1>1, <1>2 DEF Stepped, Typed

LEMMA WriteNextStep ==
  ASSUME Typed, KernelsInv, NEW i \in Cores, WriteNext(i)
  PROVE  Stepped(i)
<1>. DEFINE at == writes[v[i] + 1][1]
            value == writes[v[i] + 1][2]
            place == IF v[i] + 1 = Len(writes) THEN "done" ELSE "write"
<1>1. /\ pc[i] = "write" /\ Write(i, at, value) /\ v' = [v EXCEPT ![i] = v[i] + 1]
      /\ Go(i, place) /\ u' = u /\ sptSet' = sptSet /\ test' = test
  BY DEF WriteNext, At, Go
<1>2. writes # <<>> /\ graph = <<>> /\ bytes = <<>> /\ test \in Tests /\ v[i] \in Nat
  BY <1>1, KernelOf
<1>3. WritesInv(test, "write", v[i], words(i)) /\ DOMAIN words(i) = Items(test)
  BY <1>1, <1>2, KernelOf DEF KernelInv, writes
<1>4. /\ at \in Items(test)
      /\ WritesInv(test, place, v[i] + 1, [words(i) EXCEPT ![at] = value])
  BY <1>2, <1>3, WriteKeepsWrites DEF writes
<1>5. /\ words(i)' = [words(i) EXCEPT ![at] = value]
      /\ \A k \in Cores \ {i} : words(k)' = words(k)
      /\ DOMAIN RES' = DOMAIN RES
  <2>. HIDE DEF at, value
  <2>. QED  BY <1>1, <1>4, WordsAfterWrite
<1>6. v' \in [Cores -> Nat] /\ v'[i] = v[i] + 1 /\ \A k \in Cores \ {i} : v'[k] = v[k]
  BY <1>1, <1>2 DEF Typed
<1>7. KernelInv(test, place, v'[i], u'[i], sptSet[i], words(i)')
  BY <1>2, <1>4, <1>5, <1>6 DEF KernelInv, graph, bytes
<1>8. place \in Places /\ pc[i] # "done"
  BY <1>1 DEF Places
<1>. HIDE DEF place
<1>. QED  BY <1>1, <1>2, <1>5, <1>6, <1>7, <1>8, OtherStep DEF Typed

LEMMA CopyTextStep ==
  ASSUME Typed, KernelsInv, NEW i \in Cores, CopyText(i)
  PROVE  Stepped(i)
<1>. DEFINE value == Words(bytes)[v[i] + 1]
            place == IF 4 * (v[i] + 1) = Len(bytes) THEN "unset" ELSE "copy"
<1>1. /\ pc[i] = "copy" /\ Write(i, v[i], value) /\ v' = [v EXCEPT ![i] = v[i] + 1]
      /\ Go(i, place) /\ u' = u /\ sptSet' = sptSet /\ test' = test
  BY DEF CopyText, At, Go
<1>2. writes = <<>> /\ graph = <<>> /\ bytes # <<>> /\ test \in Tests /\ v[i] \in Nat
  BY <1>1, KernelOf
<1>3. CheckInv(test, "copy", v[i], u[i], words(i)) /\ DOMAIN words(i) = Items(test)
  BY <1>1, <1>2, KernelOf DEF KernelInv, bytes
<1>4. /\ v[i] \in Items(test)
      /\ CheckInv(test, place, v[i] + 1, u[i], [words(i) EXCEPT ![v[i]] = value])
  BY <1>2, <1>3, CopyKeepsCheck DEF bytes
<1>5. /\ words(i)' = [words(i) EXCEPT ![v[i]] = value]
      /\ \A k \in Cores \ {i} : words(k)' = words(k)
      /\ DOMAIN RES' = DOMAIN RES
  <2>. HIDE DEF value
  <2>. QED  BY <1>1, <1>4, WordsAfterWrite
<1>6. v' \in [Cores -> Nat] /\ v'[i] = v[i] + 1 /\ \A k \in Cores \ {i} : v'[k] = v[k]
  BY <1>1, <1>2 DEF Typed
<1>7. KernelInv(test, place, v'[i], u'[i], sptSet[i], words(i)')
  BY <1>1, <1>2, <1>4, <1>5, <1>6 DEF KernelInv, graph, writes
<1>8. place \in Places /\ pc[i] # "done"
  BY <1>1 DEF Places
<1>. HIDE DEF place
<1>. QED  BY <1>1, <1>2, <1>5, <1>6, <1>7, <1>8, OtherStep DEF Typed

LEMMA ClearCheckStep ==
  ASSUME Typed, KernelsInv, NEW i \in Cores, ClearCheck(i)
  PROVE  Stepped(i)
<1>. DEFINE at == CheckAt(test)
            value == WithByte(words(i)[at], 1, 0)
<1>1. /\ pc[i] = "unset" /\ SetByte(i, len + 1, 0) /\ v' = [v EXCEPT ![i] = 1]
      /\ u' = [u EXCEPT ![i] = 0] /\ Go(i, "crc") /\ sptSet' = sptSet /\ test' = test
  BY DEF ClearCheck, At, Go
<1>2. writes = <<>> /\ graph = <<>> /\ bytes # <<>> /\ test \in Tests /\ v[i] \in Nat
  BY <1>1, KernelOf
<1>3. CheckInv(test, "unset", v[i], u[i], words(i)) /\ DOMAIN words(i) = Items(test)
  BY <1>1, <1>2, KernelOf DEF KernelInv, bytes
<1>4. /\ at \in Items(test)
      /\ CheckInv(test, "crc", 1, 0, [words(i) EXCEPT ![at] = value])
  BY <1>2, <1>3, UnsetKeepsCheck, CheckFacts DEF bytes
<1>5. Write(i, at, value)
  <2>1. (len + 1) \div 4 = at /\ (len + 1) % 4 = 1
    BY <1>2, CheckFacts DEF bytes, len
  <2>2. RES[Base(i) + at] = words(i)[at]
    BY <1>4, KernelOf
  <2>. QED  BY <1>1, <2>1, <2>2 DEF SetByte
<1>6. /\ words(i)' = [words(i) EXCEPT ![at] = value]
      /\ \A k \in Cores \ {i} : words(k)' = words(k)
      /\ DOMAIN RES' = DOMAIN RES
  <2>. HIDE DEF at, value
  <2>. QED  BY <1>1, <1>4, <1>5, WordsAfterWrite
<1>7. /\ v' \in [Cores -> Nat] /\ v'[i] = 1 /\ DOMAIN u' = Cores /\ u'[i] = 0
      /\ \A k \in Cores \ {i} : v'[k] = v[k] /\ u'[k] = u[k]
  BY <1>1, <1>2 DEF Typed
<1>8. KernelInv(test, "crc", v'[i], u'[i], sptSet[i], words(i)')
  BY <1>1, <1>2, <1>4, <1>6, <1>7 DEF KernelInv, graph, writes
<1>9. "crc" \in Places /\ pc[i] # "done"
  BY <1>1 DEF Places
<1>. QED  BY <1>1, <1>2, <1>6, <1>7, <1>8, <1>9, OtherStep DEF Typed

LEMMA CheckByteStep ==
  ASSUME Typed, KernelsInv, NEW i \in Cores, CheckByte(i)
  PROVE  Stepped(i)
<1>. DEFINE place == IF v[i] < len THEN "crc" ELSE "high"
            check == icrc(u[i], data_ptr(i, v[i]))
<1>1. /\ pc[i] = "crc" /\ u' = [u EXCEPT ![i] = check] /\ v' = [v EXCEPT ![i] = v[i] + 1]
      /\ Go(i, place) /\ sptSet' = sptSet /\ RES' = RES /\ test' = test
  BY DEF CheckByte, At, Go
<1>2. writes = <<>> /\ graph = <<>> /\ bytes # <<>> /\ test \in Tests /\ v[i] \in Nat
  BY <1>1, KernelOf
<1>3. CheckInv(test, "crc", v[i], u[i], words(i)) /\ DOMAIN words(i) = Items(test)
  BY <1>1, <1>2, KernelOf DEF KernelInv, bytes
<1>4. /\ v[i] \in 1 .. Len(test.bytes) - 8
      /\ CheckInv(test, place, v[i] + 1,
                  icrc(u[i], ByteOf(words(i)[v[i] \div 4], v[i] % 4)), words(i))
  BY <1>2, <1>3, ByteKeepsCheck DEF bytes, len
<1>5. CheckInv(test, place, v[i] + 1, check, words(i))
  <2>1. v[i] \div 4 \in Items(test)
    BY <1>2, <1>4, CheckFacts DEF bytes
  <2>2. RES[Base(i) + (v[i] \div 4)] = words(i)[v[i] \div 4]
    BY <2>1, KernelOf
  <2>. QED  BY <1>4, <2>2 DEF data_ptr
<1>. HIDE DEF check
<1>6. \A k \in Cores : words(k)' = words(k)
  BY <1>1 DEF words, Base, RES_ITEMS
<1>7. /\ v' \in [Cores -> Nat] /\ v'[i] = v[i] + 1 /\ DOMAIN u' = Cores /\ u'[i] = check
      /\ \A k \in Cores \ {i} : v'[k] = v[k] /\ u'[k] = u[k]
  BY <1>1, <1>2 DEF Typed
<1>8. KernelInv(test, place, v'[i], u'[i], sptSet[i], words(i)')
  BY <1>1, <1>2, <1>5, <1>6, <1>7 DEF KernelInv, graph, writes
<1>9. place \in Places /\ pc[i] # "done"
  BY <1>1 DEF Places
<1>. HIDE DEF place
<1>. QED  BY <1>1, <1>2, <1>6, <1>7, <1>8, <1>9, OtherStep DEF Typed

LEMMA WriteCheckStep ==
  ASSUME Typed, KernelsInv, NEW i \in Cores, WriteCheck(i)
  PROVE  Stepped(i)
<1>. DEFINE at == CheckAt(test)
            high == WithByte(words(i)[at], 1, u[i] \div 256)
            low == WithByte(words(i)[at], 2, u[i] % 256)
<1>1. /\ v' = v /\ u' = u /\ sptSet' = sptSet /\ test' = test
      /\ \/ pc[i] = "high" /\ SetByte(i, len + 1, u[i] \div 256) /\ Go(i, "low")
         \/ pc[i] = "low" /\ SetByte(i, len + 2, u[i] % 256) /\ Go(i, "done")
  BY DEF WriteCheck, At, Go
<1>2. writes = <<>> /\ graph = <<>> /\ bytes # <<>> /\ test \in Tests /\ v[i] \in Nat
  BY <1>1, KernelOf
<1>3. CheckInv(test, pc[i], v[i], u[i], words(i)) /\ DOMAIN words(i) = Items(test)
  BY <1>2, KernelOf DEF KernelInv, bytes
<1>4. /\ at \in Items(test) /\ RES[Base(i) + at] = words(i)[at]
      /\ (len + 1) \div 4 = at /\ (len + 1) % 4 = 1
      /\ (len + 2) \div 4 = at /\ (len + 2) % 4 = 2
  BY <1>2, CheckFacts, KernelOf DEF bytes, len
<1>5. /\ v' \in [Cores -> Nat] /\ DOMAIN u' = Cores
      /\ \A k \in Cores : v'[k] = v[k] /\ u'[k] = u[k]
  BY <1>1 DEF Typed
<1>6. CASE pc[i] = "high"
  <2>1. Write(i, at, high) /\ Go(i, "low")
    BY <1>1, <1>4, <1>6 DEF SetByte
  <2>2. /\ words(i)' = [words(i) EXCEPT ![at] = high]
        /\ \A k \in Cores \ {i} : words(k)' = words(k)
        /\ DOMAIN RES' = DOMAIN RES
    <3>. HIDE DEF at, high
    <3>. QED  BY <1>1, <1>4, <2>1, WordsAfterWrite
  <2>3. CheckInv(test, "low", v[i], u[i], words(i)')
    <3>1. CheckInv(test, "high", v[i], u[i], words(i)) /\ test.bytes # <<>>
      BY <1>2, <1>3, <1>6 DEF bytes
    <3>2. \A j \in Items(test) :
            words(i)'[j] = IF j = at THEN WithByte(words(i)[j], 1, u[i] \div 256) ELSE words(i)[j]
      BY <1>3, <2>2
    <3>. QED  BY <1>2, <3>1, <3>2, HighKeepsCheck
  <2>4. KernelInv(test, "low", v'[i], u'[i], sptSet[i], words(i)')
    BY <1>2, <1>5, <2>2, <2>3 DEF KernelInv, graph, writes
  <2>5. "low" \in Places /\ pc[i] # "done"
    BY <1>6 DEF Places
  <2>. QED  BY <1>1, <1>2, <1>5, <2>1, <2>2, <2>4, <2>5, OtherStep DEF Typed
<1>7. CASE pc[i] = "low"
  <2>1. Write(i, at, low) /\ Go(i, "done")
    BY <1>1, <1>4, <1>7 DEF SetByte
  <2>2. /\ words(i)' = [words(i) EXCEPT ![at] = low]
        /\ \A k \in Cores \ {i} : words(k)' = words(k)
        /\ DOMAIN RES' = DOMAIN RES
    <3>. HIDE DEF at, low
    <3>. QED  BY <1>1, <1>4, <2>1, WordsAfterWrite
  <2>3. CheckInv(test, "done", v[i], u[i], words(i)')
    <3>1. CheckInv(test, "low", v[i], u[i], words(i)) /\ test.bytes # <<>>
      BY <1>2, <1>3, <1>7 DEF bytes
    <3>2. \A j \in Items(test) :
            words(i)'[j] = IF j = at THEN WithByte(words(i)[j], 2, u[i] % 256) ELSE words(i)[j]
      BY <1>3, <2>2
    <3>. QED  BY <1>2, <3>1, <3>2, LowKeepsCheck
  <2>4. KernelInv(test, "done", v'[i], u'[i], sptSet[i], words(i)')
    BY <1>2, <1>5, <2>2, <2>3 DEF KernelInv, graph, writes
  <2>5. "done" \in Places /\ pc[i] # "done"
    BY <1>7 DEF Places
  <2>. QED  BY <1>1, <1>2, <1>5, <2>1, <2>2, <2>4, <2>5, OtherStep DEF Typed
<1>. QED  BY <1>1, <1>6, <1>7

\* A step of Dijkstra's algorithm.
LEMMA GraphStep ==
  ASSUME Typed, KernelsInv, NEW i \in Cores, graph # <<>>,
         NEW place \in Places, pc[i] # "done", Go(i, place),
         v' \in [Cores -> Nat], DOMAIN u' = Cores, DOMAIN sptSet' = Cores,
         \A k \in Cores \ {i} : /\ v'[k] = v[k] /\ u'[k] = u[k] /\ sptSet'[k] = sptSet[k]
                                /\ words(k)' = words(k),
         DOMAIN RES' = DOMAIN RES,
         GraphInv(test, place, v'[i], u'[i], sptSet'[i], words(i)'),
         \A j \in Items(test) : Holds(test, pc[i], words(i), j) => Holds(test, place, words(i)', j)
  PROVE  Stepped(i)
<1>1. pc'[i] = place
  BY DEF Typed, Go
<1>2. bytes = <<>> /\ writes = <<>>
  BY KernelOf
<1>3. KernelInv(test, place, v'[i], u'[i], sptSet'[i], words(i)')
  BY <1>2 DEF KernelInv, bytes, writes
<1>. QED  BY <1>1, <1>3 DEF Stepped

LEMMA ClearDistanceStep ==
  ASSUME Typed, KernelsInv, NEW i \in Cores, ClearDistance(i)
  PROVE  Stepped(i)
<1>. DEFINE place == IF v[i] + 1 = V THEN "source" ELSE "clear"
<1>1. /\ pc[i] = "clear" /\ Write(i, v[i], INT_MAX) /\ v' = [v EXCEPT ![i] = v[i] + 1]
      /\ Go(i, place) /\ u' = u /\ sptSet' = sptSet /\ test' = test
  BY DEF ClearDistance, At, Go
<1>2. graph # <<>> /\ test \in Tests /\ v[i] \in Nat
  BY <1>1, KernelOf
<1>3. GraphInv(test, "clear", v[i], u[i], sptSet[i], words(i)) /\ DOMAIN words(i) = Items(test)
  BY <1>1, <1>2, KernelOf DEF KernelInv, graph
<1>4. /\ v[i] \in Items(test)
      /\ GraphInv(test, place, v[i] + 1, u[i], sptSet[i], [words(i) EXCEPT ![v[i]] = INT_MAX])
  BY <1>2, <1>3, ClearKeepsGraph DEF graph, V
<1>5. /\ words(i)' = [words(i) EXCEPT ![v[i]] = INT_MAX]
      /\ \A k \in Cores \ {i} : words(k)' = words(k)
      /\ DOMAIN RES' = DOMAIN RES
  BY <1>1, <1>4, WordsAfterWrite
<1>6. /\ v' \in [Cores -> Nat] /\ DOMAIN u' = Cores /\ DOMAIN sptSet' = Cores
      /\ v'[i] = v[i] + 1 /\ u'[i] = u[i] /\ sptSet'[i] = sptSet[i]
      /\ \A k \in Cores \ {i} : v'[k] = v[k] /\ u'[k] = u[k] /\ sptSet'[k] = sptSet[k]
  BY <1>1, <1>2 DEF Typed
<1>7. place \in {"clear", "source"} /\ place \in Places /\ pc[i] # "done"
  BY <1>1 DEF Places
<1>. HIDE DEF place
<1>8. \A j \in Items(test) : Holds(test, pc[i], words(i), j) => Holds(test, place, words(i)', j)
  BY <1>1, <1>2, <1>7, HoldsAfterClear DEF graph
<1>9. GraphInv(test, place, v'[i], u'[i], sptSet'[i], words(i)')
  BY <1>4, <1>5, <1>6
<1>. QED  BY <1>1, <1>2, <1>5, <1>6, <1>7, <1>8, <1>9, GraphStep

LEMMA SetSourceStep ==
  ASSUME Typed, KernelsInv, NEW i \in Cores, SetSource(i)
  PROVE  Stepped(i)
<1>1. /\ pc[i] = "source" /\ Write(i, 0, 0) /\ Go(i, "pick")
      /\ v' = v /\ u' = u /\ sptSet' = sptSet /\ test' = test
  BY DEF SetSource, At, Go
<1>2. graph # <<>> /\ test \in Tests
  BY <1>1, KernelOf
<1>3. GraphInv(test, "source", v[i], u[i], sptSet[i], words(i)) /\ DOMAIN words(i) = Items(test)
  BY <1>1, <1>2, KernelOf DEF KernelInv, graph
<1>4. /\ 0 \in Items(test)
      /\ GraphInv(test, "pick", v[i], u[i], sptSet[i], [words(i) EXCEPT ![0] = 0])
  BY <1>2, <1>3, SourceKeepsGraph DEF graph
<1>5. /\ words(i)' = [words(i) EXCEPT ![0] = 0]
      /\ \A k \in Cores \ {i} : words(k)' = words(k)
      /\ DOMAIN RES' = DOMAIN RES
  BY <1>1, <1>4, WordsAfterWrite
<1>6. /\ v' \in [Cores -> Nat] /\ DOMAIN u' = Cores /\ DOMAIN sptSet' = Cores
      /\ \A k \in Cores : v'[k] = v[k] /\ u'[k] = u[k] /\ sptSet'[k] = sptSet[k]
  BY <1>1 DEF Typed
<1>7. "pick" \in Places /\ pc[i] # "done"
  BY <1>1 DEF Places
<1>8. \A j \in Items(test) : Holds(test, pc[i], words(i), j) => Holds(test, "pick", words(i)', j)
  <2>1. \A j \in Items(test) :
          Holds(test, "source", words(i), j) => Holds(test, "pick", [words(i) EXCEPT ![0] = 0], j)
    <3>. HIDE DEF words
    <3>. QED  BY <1>2, <1>3, HoldsAfterSource DEF graph
  <2>. QED  BY <1>1, <1>5, <2>1
<1>9. GraphInv(test, "pick", v'[i], u'[i], sptSet'[i], words(i)')
  BY <1>4, <1>5, <1>6
<1>. QED  BY <1>1, <1>2, <1>5, <1>6, <1>7, <1>8, <1>9, GraphStep

LEMMA PickVertexStep ==
  ASSUME Typed, KernelsInv, NEW i \in Cores, PickVertex(i)
  PROVE  Stepped(i)
<1>1. PICK picked : /\ picked = minDistance(dist(i), (0 .. V - 1) \ sptSet[i])
                    /\ u' = [u EXCEPT ![i] = picked]
                    /\ sptSet' = [sptSet EXCEPT ![i] = sptSet[i] \cup {picked}]
  BY DEF PickVertex
<1>2. /\ pc[i] = "pick" /\ v' = [v EXCEPT ![i] = 0] /\ Go(i, "relax") /\ RES' = RES /\ test' = test
  BY DEF PickVertex, At, Go
<1>3. graph # <<>> /\ test \in Tests
  BY <1>2, KernelOf
<1>4. GraphInv(test, "pick", v[i], u[i], sptSet[i], words(i))
  BY <1>2, <1>3, KernelOf DEF KernelInv, graph
<1>5. 0 .. V - 1 = Vertices(test) /\ Vertices(test) \subseteq Items(test)
  BY <1>3, GraphFacts DEF Vertices, V, graph
<1>6. dist(i) = [k \in Vertices(test) |-> words(i)[k]]
  BY <1>5, KernelOf DEF dist
<1>7. GraphInv(test, "relax", 0, picked, sptSet[i] \cup {picked}, words(i))
  BY <1>1, <1>3, <1>4, <1>5, <1>6, PickKeepsGraph DEF graph
<1>8. \A k \in Cores : words(k)' = words(k)
  BY <1>2 DEF words, Base, RES_ITEMS
<1>9. /\ v' \in [Cores -> Nat] /\ DOMAIN u' = Cores /\ DOMAIN sptSet' = Cores
      /\ v'[i] = 0 /\ u'[i] = picked /\ sptSet'[i] = sptSet[i] \cup {picked}
      /\ \A k \in Cores \ {i} : v'[k] = v[k] /\ u'[k] = u[k] /\ sptSet'[k] = sptSet[k]
  BY <1>1, <1>2 DEF Typed
<1>10. "relax" \in Places /\ pc[i] # "done"
  BY <1>2 DEF Places
<1>11. \A j \in Items(test) : Holds(test, pc[i], words(i), j) => Holds(test, "relax", words(i)', j)
  BY <1>2, <1>3, <1>8, HoldsAfterPick DEF graph
<1>12. GraphInv(test, "relax", v'[i], u'[i], sptSet'[i], words(i)')
  BY <1>7, <1>8, <1>9
<1>. QED  BY <1>2, <1>3, <1>8, <1>9, <1>10, <1>11, <1>12, GraphStep

LEMMA RelaxEdgeStep ==
  ASSUME Typed, KernelsInv, NEW i \in Cores, RelaxEdge(i)
  PROVE  Stepped(i)
<1>. DEFINE place == AfterEdge(test, v[i], sptSet[i])
            W == words(i)
            sum == W[u[i]] + Weight(graph, u[i], v[i])
            short == IsShorter(test, v[i], u[i], sptSet[i], W)
            X == IF short THEN [W EXCEPT ![v[i]] = sum] ELSE W
<1>1. pc[i] = "relax" /\ graph # <<>> /\ test \in Tests /\ v[i] \in Nat
  BY KernelOf DEF RelaxEdge, At
<1>2. /\ v' = [v EXCEPT ![i] = v[i] + 1] /\ Go(i, place)
      /\ u' = u /\ sptSet' = sptSet /\ test' = test
  BY DEF RelaxEdge, Go, AfterEdge, V, graph
<1>3. GraphInv(test, "relax", v[i], u[i], sptSet[i], W) /\ DOMAIN W = Items(test)
  BY <1>1, KernelOf DEF KernelInv, graph
<1>4. /\ v[i] \in Items(test) /\ v[i] \in Vertices(test) /\ u[i] \in Vertices(test)
      /\ GraphInv(test, place, v[i] + 1, u[i], sptSet[i], X)
  <2>1. v[i] \in Vertices(test) /\ u[i] \in Vertices(test)
    BY <1>3 DEF GraphInv, Searching
  <2>2. /\ v[i] \in Items(test)
        /\ GraphInv(test, place, v[i] + 1, u[i], sptSet[i], X)
    <3>. HIDE DEF W
    <3>1. X = IF short THEN [W EXCEPT ![v[i]] = W[u[i]] + Weight(test.graph, u[i], v[i])] ELSE W
      BY DEF graph
    <3>. QED  BY <1>1, <1>3, <3>1, RelaxKeepsGraph DEF graph
  <2>. QED  BY <2>1, <2>2
<1>5. dist(i)[u[i]] = W[u[i]] /\ dist(i)[v[i]] = W[v[i]]
  <2>1. 0 .. V - 1 = Vertices(test) /\ Vertices(test) \subseteq Items(test)
    BY <1>1, GraphFacts DEF Vertices, V, graph
  <2>. QED  BY <1>4, <2>1, KernelOf DEF dist
<1>6. Shorter(i) <=> short
  BY <1>5 DEF Shorter, IsShorter, Edge, graph
<1>7. /\ words(i)' = X
      /\ \A k \in Cores \ {i} : words(k)' = words(k)
      /\ DOMAIN RES' = DOMAIN RES
  <2>1. CASE Shorter(i)
    <3>1. Write(i, v[i], sum)
      BY <1>5, <2>1 DEF RelaxEdge
    <3>. HIDE DEF sum, short, W
    <3>2. /\ words(i)' = [words(i) EXCEPT ![v[i]] = sum]
          /\ \A k \in Cores \ {i} : words(k)' = words(k)
          /\ DOMAIN RES' = DOMAIN RES
      BY <1>2, <1>4, <3>1, WordsAfterWrite
    <3>. QED  BY <1>6, <2>1, <3>2 DEF W
  <2>2. CASE ~ Shorter(i)
    <3>1. RES' = RES
      BY <2>2 DEF RelaxEdge
    <3>2. \A k \in Cores : words(k)' = words(k)
      BY <1>2, <3>1 DEF words, Base, RES_ITEMS
    <3>. HIDE DEF sum, short
    <3>. QED  BY <1>6, <2>2, <3>1, <3>2
  <2>. QED  BY <2>1, <2>2
<1>8. /\ v' \in [Cores -> Nat] /\ DOMAIN u' = Cores /\ DOMAIN sptSet' = Cores
      /\ v'[i] = v[i] + 1 /\ u'[i] = u[i] /\ sptSet'[i] = sptSet[i]
      /\ \A k \in Cores \ {i} : v'[k] = v[k] /\ u'[k] = u[k] /\ sptSet'[k] = sptSet[k]
  BY <1>1, <1>2 DEF Typed
<1>9. place \in Places /\ pc[i] # "done"
  BY <1>1 DEF Places, AfterEdge
<1>10. \A j \in Items(test) : Holds(test, "relax", W, j) => Holds(test, place, X, j)
  BY <1>1, <1>3, HoldsAfterRelax DEF graph
<1>. HIDE DEF place, X
<1>11. \A j \in Items(test) : Holds(test, pc[i], words(i), j) => Holds(test, place, words(i)', j)
  BY <1>1, <1>7, <1>10
<1>12. GraphInv(test, place, v'[i], u'[i], sptSet'[i], words(i)')
  BY <1>4, <1>7, <1>8
<1>. QED  BY <1>1, <1>2, <1>7, <1>8, <1>9, <1>11, <1>12, GraphStep

LEMMA KernelStep ==
  ASSUME Typed, KernelsInv, NEW i \in Cores, mkernel(i)
  PROVE  Stepped(i)
BY WriteNextStep, CopyTextStep, ClearCheckStep, CheckByteStep, WriteCheckStep,
   ClearDistanceStep, SetSourceStep, PickVertexStep, RelaxEdgeStep DEF mkernel

-----------------------------------------------------------------------------
(* The invariant.                                                          *)
LEMMA InitInv == Init => SelfTestInv
<1>. SUFFICES ASSUME Init PROVE SelfTestInv
  OBVIOUS
<1>1. test \in Tests /\ started = 1 /\ compared = 0 /\ late = {}
  BY DEF Init
<1>2. /\ ncpu \in Nat \ {0} /\ RES_ITEMS \in Nat \ {0} /\ ncpu * RES_ITEMS \in Nat
      /\ 0 \in Cores /\ Cores \subseteq Nat /\ Items(test) \subseteq Nat
      /\ \A i \in Cores, j \in Items(test) : Base(i) + j \in 0 .. ncpu * RES_ITEMS - 1
  BY <1>1, Dimensions
<1>3. \A i \in Cores : /\ v[i] = 0 /\ u[i] = 0 /\ sptSet[i] = {} /\ mismatches[i] = 0
                       /\ pc[i] = IF graph # <<>> THEN "clear"
                                  ELSE IF bytes # <<>> THEN "copy" ELSE "write"
                       /\ \A j \in Items(test) : words(i)[j] = 0
  BY <1>2 DEF Init, words
<1>4. Typed
  BY <1>1, <1>2 DEF Typed, Init, Places
<1>5. ASSUME NEW i \in Cores PROVE KernelInv(test, pc[i], v[i], u[i], sptSet[i], words(i))
  <2>1. ASSUME test.graph # <<>> PROVE GraphInv(test, pc[i], v[i], u[i], sptSet[i], words(i))
    <3>1. pc[i] = "clear" /\ v[i] = 0 /\ sptSet[i] = {}
      BY <1>3, <2>1 DEF graph
    <3>2. v[i] \in Vertices(test) /\ \A j \in Vertices(test) : ~ (j < v[i]) /\ words(i)[j] = 0
      <4>1. 0 \in Vertices(test) /\ Vertices(test) \subseteq Items(test)
        BY <1>1, <2>1, GraphFacts
      <4>2. \A j \in Vertices(test) : ~ (j < 0)
        BY <1>2, <4>1
      <4>. QED  BY <1>3, <3>1, <4>1, <4>2
    <3>3. \A j \in Len(test.graph) .. test.RES_ITEMS - 1 : words(i)[j] = 0
      BY <1>1, <1>3, <2>1, GraphFacts DEF Items
    <3>. QED  BY <3>1, <3>2, <3>3 DEF GraphInv
  <2>2. ASSUME test.bytes # <<>> PROVE CheckInv(test, pc[i], v[i], u[i], words(i))
    <3>1. pc[i] = "copy" /\ v[i] = 0
      BY <1>1, <1>3, <2>2, TestAssumption DEF graph, bytes
    <3>2. v[i] \in 0 .. (Len(test.bytes) \div 4) - 1
      <4>. DEFINE K == Len(test.bytes) \div 4
      <4>1. K \in Nat /\ Len(test.bytes) = 4 * K /\ Len(test.bytes) > 8
        BY <1>1, <2>2, CheckFacts
      <4>. HIDE DEF K
      <4>2. 0 \in 0 .. K - 1
        BY <4>1
      <4>. QED  BY <3>1, <4>2 DEF K
    <3>3. \A j \in Items(test) : words(i)[j] = IF j < v[i] THEN CopiedWord(test, j) ELSE 0
      BY <1>2, <1>3, <3>1
    <3>. QED  BY <3>1, <3>2, <3>3 DEF CheckInv
  <2>3. ASSUME test.writes # <<>> PROVE WritesInv(test, pc[i], v[i], words(i))
    <3>1. pc[i] = "write" /\ v[i] = 0
      BY <1>1, <1>3, <2>3, TestAssumption DEF graph, bytes
    <3>2. Len(test.writes) \in Nat \ {0}
      BY <1>1, <2>3, WritesAssumption
    <3>3. \A j \in Items(test) : LastWrite(test, 0, 0, j) /\ words(i)[j] = WordAfter(test, 0)
      BY <1>3 DEF LastWrite, WordAfter
    <3>. QED  BY <3>1, <3>2, <3>3 DEF WritesInv
  <2>. QED  BY <2>1, <2>2, <2>3 DEF KernelInv
<1>6. LateInv
  <2>1. pc[0] # "done"
    BY <1>2, <1>3
  <2>. QED  BY <1>1, <1>3, <2>1 DEF LateInv
<1>7. ASSUME NEW i \in Cores PROVE Kept(i)
  BY <1>1, <1>2 DEF Kept
<1>. QED  BY <1>4, <1>5, <1>6, <1>7 DEF SelfTestInv, KernelsInv

LEMMA KernelKeepsInv ==
  ASSUME SelfTestInv, NEW i \in Cores, mkernel(i)
  PROVE  SelfTestInv'
<1>1. Stepped(i)
  BY KernelStep DEF SelfTestInv
<1>2. PICK place \in Places : Go(i, place)
  BY <1>1 DEF Stepped
<1>3. /\ test' = test /\ started' = started /\ compared' = compared /\ mismatches' = mismatches
      /\ pc' = [pc EXCEPT ![i] = place]
      /\ late' = IF i = 0 /\ place = "done" THEN {c \in Cores \ {0} : pc[c] # "done"} ELSE late
  BY <1>2 DEF Go
<1>4. Cores' = Cores /\ ncpu' = ncpu /\ RES_ITEMS' = RES_ITEMS /\ \A k : Base(k)' = Base(k)
  BY <1>3 DEF Cores, ncpu, RES_ITEMS, Base
<1>5. /\ pc' \in [Cores -> Places] /\ pc'[i] = place /\ pc[i] # "done"
      /\ \A k \in Cores \ {i} : pc'[k] = pc[k]
  BY <1>1, <1>3 DEF SelfTestInv, Typed, Stepped
<1>6. Typed'
  BY <1>1, <1>3, <1>4, <1>5 DEF SelfTestInv, Typed, Stepped
<1>7. KernelsInv'
  <2>1. ASSUME NEW k \in Cores PROVE KernelInv(test, pc'[k], v'[k], u'[k], sptSet'[k], words(k)')
    BY <1>1, <1>5 DEF SelfTestInv, KernelsInv, Stepped
  <2>. QED  BY <1>3, <1>4, <2>1 DEF KernelsInv
<1>8. LateInv'
  <2>1. /\ compared > 0 => pc[0] = "done"
        /\ pc[0] = "done" => \A k \in Cores : pc[k] = "done" \/ k \in late
        /\ \A k \in Cores : mismatches[k] > 0 => k \in late /\ compared > 0
    BY DEF SelfTestInv, LateInv
  <2>2. 0 \in Cores
    BY Dimensions DEF SelfTestInv, Typed
  <2>3. pc[0] = "done" => i # 0 /\ late' = late /\ pc'[0] = "done"
    BY <1>3, <1>5, <2>2
  <2>4. ASSUME pc'[0] = "done", NEW k \in Cores PROVE pc'[k] = "done" \/ k \in late'
    <3>1. CASE i = 0
      BY <1>3, <1>5, <2>4, <3>1
    <3>2. CASE i # 0
      <4>1. pc[0] = "done" /\ late' = late
        BY <1>3, <1>5, <2>2, <2>4, <3>2
      <4>. QED  BY <1>5, <2>1, <4>1
    <3>. QED  BY <3>1, <3>2
  <2>5. (compared > 0 => pc[0] = "done")'
    BY <1>3, <2>1, <2>3
  <2>6. \A k \in Cores : mismatches'[k] > 0 => k \in late' /\ compared' > 0
    BY <1>3, <2>1, <2>3
  <2>. QED  BY <1>4, <2>4, <2>5, <2>6 DEF LateInv
<1>9. ASSUME NEW k \in Cores PROVE Kept(k)'
  <2>1. Kept(k)
    BY DEF SelfTestInv
  <2>2. \A j \in Items(test) : Holds(test, pc[k], words(k), j) => Holds(test, pc'[k], words(k)', j)
    BY <1>1, <1>5 DEF Stepped
  <2>. QED  BY <1>3, <1>4, <2>1, <2>2 DEF Kept
<1>. QED  BY <1>4, <1>6, <1>7, <1>8, <1>9 DEF SelfTestInv

LEMMA StartKeepsInv ==
  ASSUME SelfTestInv, StartProcessor \/ UNCHANGED vars
  PROVE  SelfTestInv'
<1>1. /\ test' = test /\ pc' = pc /\ v' = v /\ u' = u /\ sptSet' = sptSet /\ RES' = RES
      /\ compared' = compared /\ mismatches' = mismatches /\ late' = late
  BY DEF StartProcessor, vars, kernelVars
<1>2. /\ Cores' = Cores /\ ncpu' = ncpu /\ RES_ITEMS' = RES_ITEMS
      /\ \A k : Base(k)' = Base(k) /\ words(k)' = words(k)
  BY <1>1 DEF Cores, ncpu, RES_ITEMS, Base, words
<1>3. started' \in 1 .. ncpu
  BY Dimensions DEF SelfTestInv, Typed, StartProcessor, vars
<1>4. Typed'
  BY <1>1, <1>2, <1>3 DEF SelfTestInv, Typed
<1>5. KernelsInv' /\ LateInv'
  BY <1>1, <1>2 DEF SelfTestInv, KernelsInv, LateInv
<1>6. ASSUME NEW k \in Cores PROVE Kept(k)'
  BY <1>1, <1>2 DEF SelfTestInv, Kept
<1>. QED  BY <1>2, <1>4, <1>5, <1>6 DEF SelfTestInv

\* The word that is compared next is one of a core.
LEMMA WordAt ==
  ASSUME NEW R \in Nat \ {0}, NEW C \in Nat, NEW x \in 0 .. C * R - 1
  PROVE  x \div R \in 0 .. C - 1 /\ x % R \in 0 .. R - 1 /\ (x \div R) * R + (x % R) = x
<1>. DEFINE i == x \div R
            j == x % R
<1>1. i \in Int /\ j \in 0 .. R - 1 /\ x = i * R + j /\ x \in Nat
  OBVIOUS
<1>. HIDE DEF i, j
<1>2. i >= 0
  <2>. SUFFICES ASSUME i + 1 <= 0 PROVE FALSE
    BY <1>1
  <2>1. (i + 1) * R <= 0 /\ (i + 1) * R = i * R + R /\ i * R \in Int
    BY <1>1
  <2>. QED  BY <1>1, <2>1
<1>3. i < C
  <2>. SUFFICES ASSUME C <= i PROVE FALSE
    BY <1>1
  <2>1. C * R <= i * R /\ C * R \in Int /\ i * R \in Int
    BY <1>1
  <2>. QED  BY <1>1, <2>1
<1>. QED  BY <1>1, <1>2, <1>3 DEF i, j

LEMMA CompareKeepsInv ==
  ASSUME SelfTestInv, Compare
  PROVE  SelfTestInv'
<1>. DEFINE i == compared \div RES_ITEMS
            j == compared % RES_ITEMS
<1>1. /\ test' = test /\ started' = started /\ pc' = pc /\ v' = v /\ u' = u
      /\ sptSet' = sptSet /\ RES' = RES /\ late' = late /\ compared' = compared + 1
      /\ pc[0] = "done" /\ compared < ncpu * RES_ITEMS
      /\ mismatches' = [mismatches EXCEPT
           ![i] = IF RES[compared] # Expected(test, j) THEN mismatches[i] + 1 ELSE mismatches[i]]
  BY DEF Compare, Returns, WordsCompared, kernelVars, Reference
<1>2. /\ Cores' = Cores /\ ncpu' = ncpu /\ RES_ITEMS' = RES_ITEMS
      /\ \A k : Base(k)' = Base(k) /\ words(k)' = words(k)
  BY <1>1 DEF Cores, ncpu, RES_ITEMS, Base, words
<1>3. Typed /\ test \in Tests /\ compared \in Nat
  BY Dimensions DEF SelfTestInv, Typed
<1>4. i \in Cores /\ j \in Items(test) /\ Base(i) + j = compared
  <2>1. /\ ncpu \in Nat /\ RES_ITEMS \in Nat \ {0} /\ ncpu * RES_ITEMS \in Nat
        /\ compared \in 0 .. ncpu * RES_ITEMS - 1
    BY <1>1, <1>3, Dimensions
  <2>. QED  BY <2>1, WordAt DEF Cores, Items, Base, RES_ITEMS
<1>. HIDE DEF i, j
<1>5. /\ mismatches \in [Cores -> Nat] /\ mismatches' \in [Cores -> Nat]
      /\ \A k \in Cores \ {i} : mismatches'[k] = mismatches[k]
      /\ mismatches'[i] =
           IF RES[compared] # Expected(test, j) THEN mismatches[i] + 1 ELSE mismatches[i]
  BY <1>1, <1>3, <1>4 DEF Typed
<1>6. compared' \in 0 .. ncpu * RES_ITEMS
  BY <1>1, <1>3, Dimensions
<1>7. Typed'
  BY <1>1, <1>2, <1>3, <1>5, <1>6 DEF Typed
<1>8. KernelsInv'
  BY <1>1, <1>2 DEF SelfTestInv, KernelsInv
<1>9. RES[compared] = words(i)[j] /\ KernelInv(test, pc[i], v[i], u[i], sptSet[i], words(i))
  BY <1>4, KernelOf DEF SelfTestInv
<1>10. LateInv'
  <2>1. /\ \A k \in Cores : pc[k] = "done" \/ k \in late
        /\ \A k \in Cores : mismatches[k] > 0 => k \in late
    BY <1>1 DEF SelfTestInv, LateInv
  <2>2. RES[compared] # Expected(test, j) => i \in late
    <3>1. pc[i] = "done" => words(i)[j] = Expected(test, j)
      BY <1>3, <1>4, <1>9, DoneIsRight
    <3>. QED  BY <1>4, <1>9, <2>1, <3>1
  <2>3. ASSUME NEW k \in Cores, mismatches'[k] > 0 PROVE k \in late
    BY <1>5, <2>1, <2>2, <2>3
  <2>4. compared' > 0
    BY <1>1, <1>3
  <2>. QED  BY <1>1, <1>2, <2>1, <2>3, <2>4 DEF LateInv
<1>11. ASSUME NEW k \in Cores PROVE Kept(k)'
  <2>. SUFFICES ASSUME mismatches'[k] = 0, NEW l \in Items(test), Base(k) + l < compared + 1
                PROVE  Holds(test, pc[k], words(k), l)
    BY <1>1, <1>2 DEF Kept
  <2>1. mismatches[k] = 0
    BY <1>5
  <2>2. Base(k) + l \in Nat
    BY <1>3, Dimensions
  <2>3. CASE Base(k) + l < compared
    BY <2>1, <2>3 DEF SelfTestInv, Kept
  <2>4. CASE Base(k) + l = compared
    <3>1. k = i /\ l = j
      BY <1>3, <1>4, <2>4, Dimensions
    <3>2. words(i)[j] = Expected(test, j)
      BY <1>5, <1>9, <3>1
    <3>. QED  BY <1>3, <1>4, <1>9, <3>1, <3>2, TellingSettles DEF Holds
  <2>. QED  BY <1>3, <2>2, <2>3, <2>4
<1>. QED  BY <1>2, <1>7, <1>8, <1>10, <1>11 DEF SelfTestInv

\* The invariant that all the theorems follow from.
LEMMA SelfTestInvariant == SelfTestSpec => []SelfTestInv
<1>1. SelfTestInv /\ [Next]_vars => SelfTestInv'
  BY KernelKeepsInv, StartKeepsInv, CompareKeepsInv DEF Next
<1>. QED  BY InitInv, <1>1, PTL DEF SelfTestSpec

-----------------------------------------------------------------------------
(* What the invariant says of the self-test.                               *)

\* "passed" is sound: when the comparison has found no mismatch, every result of
\* every core is right (selftest/top_multicore.c:47-59), although the others may
\* have been at work during it.
THEOREM PassedAlwaysSound == SelfTestSpec => []PassedIsSound
<1>1. SelfTestInv => PassedIsSound
  <2>. SUFFICES ASSUME SelfTestInv, Passed, NEW i \in Cores, NEW j \in 0 .. RES_ITEMS - 1
                PROVE  RES[i * RES_ITEMS + j] = Reference(j)
    BY DEF PassedIsSound
  <2>1. /\ test \in Tests /\ j \in Items(test)
        /\ KernelInv(test, pc[i], v[i], u[i], sptSet[i], words(i))
    BY DEF SelfTestInv, Typed, KernelsInv, Items, RES_ITEMS
  <2>2. \A k \in Items(test) : Holds(test, pc[i], words(i), k)
    <3>. TAKE k \in Items(test)
    <3>1. mismatches[i] = 0 /\ compared = ncpu * RES_ITEMS
      BY DEF Passed, Completed, WordsCompared
    <3>2. Base(i) + k \in 0 .. ncpu * RES_ITEMS - 1 /\ ncpu * RES_ITEMS \in Nat
      BY <2>1, Dimensions
    <3>. QED  BY <3>1, <3>2 DEF SelfTestInv, Kept
  <2>3. Settled(test, pc[i])
    <3>1. CASE ncpu = 1
      <4>1. i = 0 /\ pc[0] = "done"
        BY <3>1 DEF Cores, Passed, Completed, Returns
      <4>. QED  BY <4>1 DEF Settled
    <3>2. CASE ncpu # 1
      <4>1. test.ncpu > 1
        BY <2>1, <3>2, Dimensions DEF ncpu
      <4>2. PICK k \in Items(test) : Tells(test, k)
        BY <2>1, <4>1, TellingAssumption DEF Items
      <4>. QED  BY <2>2, <4>2 DEF Holds
    <3>. QED  BY <3>1, <3>2
  <2>4. words(i)[j] = Expected(test, j)
    BY <2>1, <2>2, <2>3 DEF Holds
  <2>. QED  BY <2>1, <2>4 DEF words, Base, Reference
<1>. QED  BY SelfTestInvariant, <1>1, PTL

\* "failed" is never the program's own doing: only the words of a core that was
\* not done when the comparison began mismatch.
THEOREM MismatchAlwaysLate == SelfTestSpec => []MismatchMeansLate
<1>1. SelfTestInv => MismatchMeansLate
  BY DEF SelfTestInv, LateInv, MismatchMeansLate
<1>. QED  BY SelfTestInvariant, <1>1, PTL

\* Whatever its kernel, a core that is done has computed what its table expects
\* and keeps it: Dijkstra's algorithm the shortest distances, the check word the
\* one pass over the text, a sequence of writes its last values.
DoneIsCorrect ==
  \A i \in Cores : pc[i] = "done" => \A j \in Items(test) : RES[Base(i) + j] = Expected(test, j)

THEOREM KernelsAlwaysCorrect == SelfTestSpec => []DoneIsCorrect
<1>1. SelfTestInv => DoneIsCorrect
  <2>. SUFFICES ASSUME SelfTestInv, NEW i \in Cores, pc[i] = "done", NEW j \in Items(test)
                PROVE  RES[Base(i) + j] = Expected(test, j)
    BY DEF DoneIsCorrect
  <2>1. test \in Tests /\ KernelInv(test, "done", v[i], u[i], sptSet[i], words(i))
    BY DEF SelfTestInv, Typed, KernelsInv
  <2>2. words(i)[j] = Expected(test, j)
    BY <2>1, DoneIsRight
  <2>. QED  BY <2>2 DEF words
<1>. QED  BY SelfTestInvariant, <1>1, PTL

\* No sum of dijkstra overflows an int, the one that is only compared included:
\* a distance that is not INT_MAX is that of a walk (2_dijkstra.c:153-155).
SumsFit ==
  \A i \in Cores :
    pc[i] = "relax" /\ Edge(test, u[i], v[i]) /\ RES[Base(i) + u[i]] # INT_MAX =>
      RES[Base(i) + u[i]] + Weight(graph, u[i], v[i]) \in 0 .. INT_MAX

THEOREM SumsAlwaysFit == SelfTestSpec => []SumsFit
<1>1. SelfTestInv => SumsFit
  <2>. SUFFICES ASSUME SelfTestInv, NEW i \in Cores, pc[i] = "relax",
                       Edge(test, u[i], v[i]), RES[Base(i) + u[i]] # INT_MAX
                PROVE  RES[Base(i) + u[i]] + Weight(graph, u[i], v[i]) \in 0 .. INT_MAX
    BY DEF SumsFit
  <2>1. /\ test \in Tests /\ test.graph # <<>>
        /\ GraphInv(test, "relax", v[i], u[i], sptSet[i], words(i))
    BY KernelOf DEF SelfTestInv, KernelInv, graph
  <2>2. Searching(test, "relax", v[i], u[i], sptSet[i], words(i))
    BY <2>1 DEF GraphInv
  <2>3. /\ u[i] \in Vertices(test) /\ v[i] \in Vertices(test)
        /\ words(i)[u[i]] = Expected(test, u[i])
    BY <2>2 DEF Searching
  <2>4. RES[Base(i) + u[i]] = Expected(test, u[i])
    BY <2>1, <2>3, GraphFacts DEF words
  <2>5. /\ Expected(test, u[i]) \in Nat /\ Weight(test.graph, u[i], v[i]) \in Nat
        /\ Expected(test, u[i]) + Weight(test.graph, u[i], v[i]) <= INT_MAX
    BY <2>1, <2>3, <2>4, GraphFacts
  <2>6. Expected(test, u[i]) + Weight(test.graph, u[i], v[i]) \in 0 .. INT_MAX
    BY <2>5, MaxIsPositive
  <2>. QED  BY <2>4, <2>6 DEF graph
<1>. QED  BY SelfTestInvariant, <1>1, PTL
=============================================================================
