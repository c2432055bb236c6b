---------------------------- MODULE MCFfiSelfTest ---------------------------
(* The kernels on their own data, then on small data: on three cores, with  *)
(* the graphs of three vertices, a product, a search and a check word; on   *)
(* one core, with the graphs of four vertices, all short tables and texts   *)
(* of four bytes.  The weights make some detours shorter.                   *)
EXTENDS FfiSelfTest, SequencesExt

Test(ws, ref, items, cpus) ==
  [graph |-> <<>>, bytes |-> <<>>, checks |-> <<>>, writes |-> ws, reference |-> ref, RES_ITEMS |-> items,
   ncpu |-> cpus]
GraphTest(g, ref, items, cpus) ==
  [graph |-> g, bytes |-> <<>>, checks |-> <<>>, writes |-> <<>>, reference |-> ref, RES_ITEMS |-> items,
   ncpu |-> cpus]
CheckTest(b, c, ref, cpus) ==
  [graph |-> <<>>, bytes |-> b, checks |-> c, writes |-> <<>>, reference |-> ref,
   RES_ITEMS |-> Len(b) \div 4, ncpu |-> cpus]

\* The graph of size vertices whose weights are the digits of n.
Graph(size, n) ==
  LET Digit(k) == (n \div 3 ^ k) % 3
      Place(a, b) == (((b - 1) * (b - 2)) \div 2) + a - 1
      WeightOf(d) == IF d = 2 THEN 3 ELSE d
  IN  [a \in 1 .. size |-> [b \in 1 .. size |->
        IF a = b THEN 0 ELSE WeightOf(Digit(Place(Min({a, b}), Max({a, b}))))]]

\* Some vertex is a neighbour of the source, as in the program's graph.
Linked == {g \in {Graph(3, n) : n \in 0 .. 26} : \E b \in 2 .. 3 : g[1][b] # 0}

\* The table of the keys that are the bits of n.
Table(n) == LET Keys == SelectSeq([k \in 1 .. 8 |-> k], LAMBDA k : (n \div 2 ^ (k - 1)) % 2 = 1)
            IN  [x \in 1 .. Len(Keys) |-> <<Keys[x], 9>>]

\* Four bytes of text behind one that the check word ignores.
Message(a, b, c, d) == Padded(<<65, a, b, c, d>>, 12)
Messages == {Message(a, b, c, d) : a, b, c, d \in {0, 1, 90, 127}}

\* The check words of a message.
Checks(b) ==
  FoldLeft(LAMBDA cs, onebyte : Append(cs, icrc(Last(cs), onebyte)), <<0>>, SubSeq(b, 2, Len(b) - 7))

\* The check words of the program's text, as CheckAssumption demands them.
OwnChecks ==
  <<0, 11298, 56239, 59669, 23909, 45725, 34768, 35940, 19091, 21692, 39010,
    40254, 57724, 36174, 10823, 16295, 11848, 43470, 38468, 33565, 37065,
    46902, 45000, 45590, 53068, 39212, 29300, 1255, 39319, 47507, 35280,
    62659, 12382, 62746, 6321, 23726, 6987, 54857, 7988, 23222, 20990,
    37046, 19246, 43816, 29268, 30290, 24691, 57897, 59437, 60461, 13760,
    39141, 2591, 49869, 2589, 38952, 26197, 1973, 14440, 21043, 22006,
    45732, 2043, 55074, 1235, 11919, 13371, 25573, 34774, 19432, 12220,
    37890, 23668, 25105, 31110, 5433, 63228, 24571, 29816, 27185, 32875,
    50331, 32335, 62523, 55919, 15140, 15985, 63560, 23184, 30718, 52339,
    20386, 18414, 31497, 23477, 4202, 17458, 25749, 40256, 11271, 32679,
    3098, 58783, 57125, 9105, 41315, 27617, 41348, 32014, 56765, 39363,
    11295, 26535, 13865, 23543, 4846, 12765, 51057, 34430, 45901, 65242,
    10590, 54616, 59322, 51782, 28914, 43253, 19594, 16203, 45247, 13561,
    46036, 28570, 9003, 274, 40808, 15924, 7698, 23796, 4590, 45765, 57296,
    62659, 20632, 59031, 21565, 7026, 40878, 41665, 51681, 9229, 10002,
    31366, 32191, 11817, 4387, 39963, 25910, 17655, 56098, 9361, 30862,
    23997, 4666, 18055, 54149, 24655, 8101, 25276, 48128, 6864, 60947, 9154,
    55409, 50938, 28584, 2906, 1733, 24682, 8900, 55889, 54937, 3768, 32172,
    40563, 20386, 59044, 9641, 8264, 57610, 43515, 64417, 25149, 32132,
    3928, 38380, 4926, 19, 12035, 62191, 31896, 47698, 59802, 34960, 44722,
    55351, 33018, 59104, 25001, 61925, 46868, 16051, 22686, 24991, 7688,
    30359, 44339, 2946, 44578, 64332, 11367, 48877, 9853, 1975, 58245,
    25711, 32545, 850, 40940, 32775, 43659, 49525, 21459, 40436, 11132,
    54538, 45003, 33141, 27104, 17242, 65386, 14852, 37657, 43738, 52896,
    39042, 32945, 8328, 44130>>

Left == << <<1, 2>>, <<0, -1>> >>
Right == << <<3, -1>>, <<2, 1>> >>
Product == <<7, 1, -2, -1>>
Short == << <<4, 9>>, <<5, 9>> >>

MessageTest(b, cpus) == CheckTest(b, Checks(b), Checked(b), cpus)

OwnTests ==
  {GraphTest(AdjMatrix, DijkstraReference, 64, 1), Test(matmult(M1, M2), MatmultReference, 64, 1),
   Test(searches(data), SearchReference, 64, 1), CheckTest(lin, OwnChecks, CrcReference, 1)}

\* The program's own tables would do on any number of cores.
ASSUME OwnTestsTell == \A t \in OwnTests : \E j \in 0 .. t.RES_ITEMS - 1 : Tells(t, j)

MCTests ==
  OwnTests
  \cup {Test(matmult(Left, Right), Product, 5, 3), Test(searches(Short), Found(Short), 6, 3),
        MessageTest(Message(1, 2, 3, 4), 3)}
  \cup {GraphTest(g, ShortestDistances(g), 4, 3) : g \in Linked}
  \cup {GraphTest(g, ShortestDistances(g), 4, 1) : g \in {Graph(4, n) : n \in 0 .. 728}}
  \cup {Test(searches(d), Found(d), 24, 1) : d \in {Table(n) : n \in 1 .. 255}}
  \cup {MessageTest(m, 1) : m \in Messages}
=============================================================================
