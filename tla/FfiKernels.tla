----------------------------- MODULE FfiKernels -----------------------------
(***************************************************************************)
(* Four of the kernels that the fault-injection platform runs on every     *)
(* core (src/FFI/workloads/selftest), with their data and the results that *)
(* they are compared with.  Dijkstra's algorithm and the check word, which *)
(* read what they have written, are in FfiSelfTest step by step; the       *)
(* others are the sequence of their writes to the results of their core,   *)
(* each an <<index, value>>.                                               *)
(* int arithmetic is TLC's, 32 bits with an error where it overflows, so   *)
(* that the run also shows that no kernel does.  Arrays of the program     *)
(* are sequences, with x[i] as x[i + 1].                                   *)
(***************************************************************************)
EXTENDS Integers, Sequences, FiniteSetsExt

INT_MAX == 2147483647

(* 2_dijkstra.c: distances from vertex 0.                                  *)
AdjMatrix == <<
  <<0, 0, 470, 56, 880, 463, 497, 107, 940, 549, 683, 0, 0, 501, 0, 710, 0, 270, 0, 954>>,
  <<0, 0, 170, 728, 0, 548, 0, 0, 0, 13, 0, 0, 987, 539, 601, 123, 939, 929, 0, 0>>,
  <<470, 170, 0, 337, 879, 43, 0, 27, 351, 786, 406, 387, 0, 182, 358, 0, 0, 0, 0, 486>>,
  <<56, 728, 337, 0, 367, 0, 0, 0, 581, 10, 584, 505, 694, 609, 604, 948, 202, 608, 909, 0>>,
  <<880, 0, 879, 367, 0, 910, 355, 0, 966, 350, 0, 246, 891, 406, 838, 329, 0, 156, 0, 661>>,
  <<463, 548, 43, 0, 910, 0, 0, 0, 457, 0, 877, 0, 827, 0, 0, 952, 987, 0, 221, 0>>,
  <<497, 0, 0, 0, 355, 0, 0, 982, 334, 530, 0, 73, 0, 646, 996, 235, 0, 706, 0, 534>>,
  <<107, 0, 27, 0, 0, 0, 982, 0, 690, 0, 502, 0, 0, 799, 0, 9, 376, 122, 0, 613>>,
  <<940, 0, 351, 581, 966, 457, 334, 690, 0, 845, 948, 0, 424, 0, 494, 832, 99, 0, 559, 0>>,
  <<549, 13, 786, 10, 350, 0, 530, 0, 845, 0, 135, 838, 320, 267, 527, 521, 712, 0, 0, 0>>,
  <<683, 0, 406, 584, 0, 877, 0, 502, 948, 135, 0, 504, 443, 0, 0, 0, 0, 0, 356, 0>>,
  <<0, 0, 387, 505, 246, 0, 73, 0, 0, 838, 504, 0, 161, 638, 87, 95, 0, 263, 282, 0>>,
  <<0, 987, 0, 694, 891, 827, 0, 0, 424, 320, 443, 161, 0, 938, 0, 0, 515, 290, 601, 0>>,
  <<501, 539, 182, 609, 406, 0, 646, 799, 0, 267, 0, 638, 938, 0, 502, 233, 136, 0, 279, 762>>,
  <<0, 601, 358, 604, 838, 0, 996, 0, 494, 527, 0, 87, 0, 502, 0, 0, 717, 105, 0, 563>>,
  <<710, 123, 0, 948, 329, 952, 235, 9, 832, 521, 0, 95, 0, 233, 0, 0, 867, 0, 35, 0>>,
  <<0, 939, 0, 202, 0, 987, 0, 376, 99, 712, 0, 0, 515, 136, 717, 867, 0, 457, 0, 0>>,
  <<270, 929, 0, 608, 156, 0, 706, 122, 0, 0, 0, 263, 290, 0, 105, 0, 457, 0, 0, 448>>,
  <<0, 0, 0, 909, 0, 221, 0, 0, 559, 0, 356, 282, 601, 279, 0, 35, 0, 0, 0, 0>>,
  <<954, 0, 486, 0, 661, 0, 534, 613, 0, 0, 0, 0, 0, 762, 563, 0, 0, 448, 0, 0>> >>

DijkstraReference ==
  <<0, 79, 134, 56, 385, 177, 284, 107, 357, 66,
    201, 211, 372, 316, 298, 116, 258, 229, 151, 620>>

Weight(g, a, b) == g[a + 1][b + 1]

\* Mutant: the farthest vertex.
MaxDistance(dist, left) == CHOOSE v \in left : \A w \in left : dist[v] >= dist[w]

\* The last of the nearest vertices that are not in sptSet.
minDistance(dist, left) ==
  CHOOSE v \in left : \A w \in left : dist[v] < dist[w] \/ (dist[v] = dist[w] /\ v >= w)

\* What it should compute: lengths of the shortest walks, with fewer edges than
\* the graph has vertices.
ShortestDistances(g) ==
  LET Vertices == 0 .. Len(g) - 1
      walk[n \in Vertices] ==
        IF n = 0 THEN [b \in Vertices |-> IF b = 0 THEN 0 ELSE INT_MAX]
        ELSE [b \in Vertices |->
               LET from == {a \in Vertices : Weight(g, a, b) # 0 /\ walk[n - 1][a] # INT_MAX}
               IN  Min({walk[n - 1][b]} \cup {walk[n - 1][a] + Weight(g, a, b) : a \in from})]
  IN  [n \in 1 .. Len(g) |-> walk[Len(g) - 1][n - 1]]

-----------------------------------------------------------------------------
(* 1_matmult.c: every product is summed up in its place.                   *)
M1 == << <<4927, -8612, 28290, -3954, 22031, -12981, -910, 27877>>,
         <<-15230, 7, -11659, 19600, 9630, 0, 7872, 141>>,
         <<-5803, -14, 9533, -915, 11249, 500, -5, 1211>>,
         <<20115, 3783, -7469, 1023, -12071, 127, -1445, 511>> >>

M2 == << <<-11484, 4000, 79, 7311, 256>>, <<19598, 503, 674, -32210, 4010>>,
         <<9580, -107, -808, -4475, -656>>, <<-1, -39, 128, 1793, -255>>,
         <<-6092, 299, 5309, 1024, 701>>, <<-25212, -130, 0, -1964, 10371>>,
         <<12381, -450, 765, 1793, 2318>>, <<-7252, -1700, -422, -4475, 5369>> >>

MatmultReference ==
  <<25295916, -26203261, 75722648, 101399768, -22442765, 101100426, -61336096,
    67819068, -910534, 24534449, 67715350, -22961387, 50918417, -81166777,
    11999287, -179677178, 79277946, -55101283, 42980607, 17207464>>

matmult(left, right) ==
  LET N == Len(right)
      COL == Len(right[1])
      sum[i \in 1 .. Len(left), j \in 1 .. COL, k \in 0 .. N] ==
        IF k = 0 THEN 0 ELSE sum[i, j, k - 1] + left[i][k] * right[k][j]
      Item(n) == (n - 1) \div (N + 1)
  IN  [n \in 1 .. Len(left) * COL * (N + 1) |->
        <<Item(n), sum[Item(n) \div COL + 1, (Item(n) % COL) + 1, (n - 1) % (N + 1)]>>]

-----------------------------------------------------------------------------
(* 6_binarysearch.c: the keys 1, 4, 7.. are looked up.                     *)
data == << <<1, 16>>, <<3, 32>>, <<5, 768>>, <<7, 1792>>, <<8, 2304>>, <<9, 592>>,
    <<10, 1024>>, <<11, 1536>>, <<12, 2048>>, <<13, 5376>>, <<19, 4608>>, <<21, 4608>>,
    <<22, 4608>>, <<28, 4608>>, <<34, 4608>>, <<39, 4608>>, <<40, 272>>, <<52, 320>>,
    <<56, 307>>, <<58, 16>> >>

SearchReference ==
  <<0, 1, 16, -1, 0, 0, 3, 7, 1792, 6, 10, 1024,
    9, 13, 5376, -1, 0, 0, 10, 19, 4608, 12, 22, 4608,
    -1, 0, 0, 13, 28, 4608, -1, 0, 0, 14, 34, 4608,
    -1, 0, 0, 16, 40, 272, -1, 0, 0, -1, 0, 0,
    -1, 0, 0, 17, 52, 320, -1, 0, 0, 19, 58, 16>>

search(din, search_key) ==
  LET binary_search[start \in 0 .. Len(din), end \in -1 .. Len(din) - 1] ==
        LET mid == start + (end - start) \div 2
        IN  IF start > end THEN -1
            ELSE IF din[mid + 1][1] = search_key THEN mid
            ELSE IF din[mid + 1][1] > search_key THEN binary_search[start, mid - 1]
            ELSE binary_search[mid + 1, end]
  IN  binary_search[0, Len(din) - 1]

searches(din) ==
  [n \in 1 .. 3 * Len(din) |->
     LET i == (n - 1) \div 3
         index == search(din, i + 1 + i * 2)
         field == (n - 1) % 3
     IN  <<n - 1, IF field = 0 THEN index
                  ELSE IF index >= 0 THEN din[index + 1][field] ELSE 0>>]

\* What it should find.
Found(din) ==
  [n \in 1 .. 3 * Len(din) |->
     LET key == 3 * ((n - 1) \div 3) + 1
         at == {x \in 0 .. Len(din) - 1 : din[x + 1][1] = key}
         field == (n - 1) % 3
     IN  IF field = 0 THEN (IF at = {} THEN -1 ELSE Min(at))
         ELSE IF at = {} THEN 0 ELSE din[Min(at) + 1][field]]

-----------------------------------------------------------------------------
(* 4_crc.c: a text is copied to the results and its check word put behind  *)
(* it.  A word of the results holds four bytes, the lowest first.          *)
Text ==
  <<69, 100, 103, 101, 32, 99, 111, 109, 112, 117, 116, 105, 110, 103, 32,
    105, 115, 32, 97, 32, 100, 105, 115, 116, 114, 105, 98, 117, 116, 101,
    100, 32, 99, 111, 109, 112, 117, 116, 105, 110, 103, 32, 112, 97, 114,
    97, 100, 105, 103, 109, 32, 116, 104, 97, 116, 32, 98, 114, 105, 110,
    103, 115, 32, 99, 111, 109, 112, 117, 116, 97, 116, 105, 111, 110, 32,
    97, 110, 100, 32, 100, 97, 116, 97, 32, 115, 116, 111, 114, 97, 103,
    101, 32, 99, 108, 111, 115, 101, 114, 32, 116, 111, 32, 116, 104, 101,
    32, 108, 111, 99, 97, 116, 105, 111, 110, 32, 119, 104, 101, 114, 101,
    32, 105, 116, 32, 105, 115, 32, 110, 101, 101, 100, 101, 100, 32, 116,
    111, 32, 105, 109, 112, 114, 111, 118, 101, 32, 114, 101, 115, 112, 111,
    110, 115, 101, 32, 116, 105, 109, 101, 115, 32, 97, 110, 100, 32, 115,
    97, 118, 101, 32, 98, 97, 110, 100, 119, 105, 100, 116, 104, 46, 32, 84,
    104, 101, 32, 111, 114, 105, 103, 105, 110, 115, 32, 111, 102, 32, 101,
    100, 103, 101, 32, 99, 111, 109, 112, 117, 116, 105, 110, 103, 32, 108,
    105, 101, 32, 105, 110, 32, 99, 111, 110, 116, 101, 110, 116, 32, 100,
    101, 108, 105, 118, 101, 114, 121, 32, 110, 101, 116, 119, 111, 114,
    107, 115>>

\* lin: the text and zeros up to DSIZE bytes.
Padded(text, DSIZE) == [n \in 1 .. DSIZE |-> IF n <= Len(text) THEN text[n] ELSE 0]
lin == Padded(Text, 256)

CrcReference ==
  <<1701274693, 1836016416, 1769239920, 1763731310, 543236211, 1953720676,
    1969383794, 543450484, 1886220131, 1852404853, 1634738279, 1768186226,
    1948282215, 544498024, 1852404322, 1663071079, 1970302319, 1769234804,
    1629515375, 1679844462, 543257697, 1919906931, 543516513, 1936682083,
    1948283493, 1752440943, 1869357157, 1769234787, 1998614127, 1701995880,
    544500000, 1847620457, 1701078373, 1869881444, 1886218528, 1702260594,
    1936028192, 1936617328, 1769218149, 544433517, 543452769, 1702257011,
    1851875872, 1684633444, 539912308, 543516756, 1734963823, 544435817,
    1696622191, 543516516, 1886220131, 1852404853, 1768693863, 1852383333,
    1852793632, 1953391988, 1818584096, 1919252073, 1701716089, 1919907700,
    29547, 0, 6466560>>

Ushort == 65536

\* The bits in which two words of 16 bits differ.
Xor(x, y) ==
  LET Bit(w, k) == (w \div 2 ^ k) % 2
      above[k \in 0 .. 16] ==
        IF k = 16 THEN 0
        ELSE (IF Bit(x, k) = Bit(y, k) THEN 0 ELSE 1) + 2 * above[k + 1]
  IN  above[0]

\* One byte: eight shifts, each with a subtraction if a one is shifted out.
icrc1(crc, onech) ==
  LET ans[k \in 0 .. 8] ==
        IF k = 0 THEN Xor(crc, onech * 256)
        ELSE LET a == ans[k - 1]
             IN  IF a >= 32768 THEN Xor((2 * a) % Ushort, 4129) ELSE 2 * a
  IN  ans[8]

icrctb == [n \in 0 .. 255 |-> icrc1(n * 256, 0)]

\* The check word after one more byte.
icrc(cword, onebyte) == Xor(icrctb[Xor(onebyte, cword \div 256)], (cword % 256) * 256)

ByteOf(word, k) == (word \div 256 ^ k) % 256
WithByte(word, k, b) == word + (b - ByteOf(word, k)) * 256 ^ k

\* What the bytes are as words.
Words(bytes) ==
  [n \in 1 .. Len(bytes) \div 4 |->
     LET b == 4 * n
     IN  bytes[b - 3] + 256 * (bytes[b - 2] + 256 * (bytes[b - 1] + 256 * bytes[b]))]

\* What it should find: the bytes are a polynomial over the bits, here the set of
\* its exponents, and the check word is what a division by x^16 + x^12 + x^5 + 1
\* leaves of it.  Byte 0 is not looked at.
Checked(bytes) ==
  LET n == Len(bytes) - 8
      Exponents == {e \in 16 .. 8 * n + 15 :
                      (bytes[n + 1 - ((e - 16) \div 8)] \div 2 ^ ((e - 16) % 8)) % 2 = 1}
      rest[d \in 16 .. 8 * n + 16] ==
        IF d = 8 * n + 16 THEN Exponents
        ELSE LET p == rest[d + 1]
             IN  IF d \in p THEN SymDiff(p, {d, d - 4, d - 11, d - 16}) ELSE p
      Byte(from) == SumSet({2 ^ (e - from) : e \in {x \in rest[16] : x \div 8 = from \div 8}})
  IN  Words([bytes EXCEPT ![n + 2] = Byte(8), ![n + 3] = Byte(0)])
=============================================================================
