------------------------------ MODULE FfiTests ------------------------------
(***************************************************************************)
(* What a test of the workloads is, and what its table must be for the     *)
(* self-test to mean anything: the results of the kernel on its data.  Of  *)
(* a kernel that is a sequence of writes they are the last ones; of the    *)
(* check word, what one pass over the text leaves; of Dijkstra's           *)
(* algorithm, a solution of the equations of shortest distances, which     *)
(* says nothing of how they are found.                                     *)
(***************************************************************************)
EXTENDS FfiKernels

CONSTANT Tests    \* the graph of a test of Dijkstra's algorithm, the bytes of
                  \* one of the check word with its checks, or the writes of
                  \* another kernel, the rest empty; with what is expected

ASSUME TestAssumption ==
  \A t \in Tests :
    /\ DOMAIN t = {"graph", "bytes", "checks", "writes", "reference", "RES_ITEMS", "ncpu"}
    /\ t.ncpu \in Nat \ {0} /\ t.RES_ITEMS \in Nat \ {0}
    /\ Len(t.reference) <= t.RES_ITEMS
    /\ \/ t.graph # <<>> /\ t.bytes = <<>> /\ t.writes = <<>>
       \/ t.graph = <<>> /\ t.bytes # <<>> /\ t.writes = <<>>
       \/ t.graph = <<>> /\ t.bytes = <<>> /\ t.writes # <<>>

\* *(REFERENCE_PTR + j)
Expected(t, j) == IF j < Len(t.reference) THEN t.reference[j + 1] ELSE 0

Beyond(t, n) == \A j \in n .. t.RES_ITEMS - 1 : Expected(t, j) = 0

-----------------------------------------------------------------------------
(* 2_dijkstra.c.  A weight of 0 is no edge, a distance of INT_MAX no walk; *)
(* the sums are those of the program, which do not overflow.               *)
Vertices(t) == 0 .. Len(t.graph) - 1

Edge(t, a, b) == Weight(t.graph, a, b) # 0

ShortestTable(t) ==
  /\ Expected(t, 0) = 0
  /\ \A b \in Vertices(t) : Expected(t, b) \in 0 .. INT_MAX
  /\ \A a, b \in Vertices(t) :
       Edge(t, a, b) /\ Expected(t, a) # INT_MAX =>
         /\ Expected(t, a) + Weight(t.graph, a, b) <= INT_MAX
         /\ Expected(t, b) <= Expected(t, a) + Weight(t.graph, a, b)
  /\ \A b \in Vertices(t) \ {0} :
       Expected(t, b) # INT_MAX =>
         \E a \in Vertices(t) :
           Edge(t, a, b) /\ Expected(t, b) = Expected(t, a) + Weight(t.graph, a, b)

ASSUME GraphAssumption ==
  \A t \in Tests : t.graph # <<>> =>
    /\ Len(t.graph) \in 2 .. t.RES_ITEMS
    /\ \A a, b \in Vertices(t) : Weight(t.graph, a, b) \in Nat
    /\ ShortestTable(t)
    /\ Beyond(t, Len(t.graph))

-----------------------------------------------------------------------------
(* 1_matmult.c, 6_binarysearch.c.                                          *)

\* The n-th write is to word j, or none of the first n is when n is 0; later
\* ones, up to the last-th, are to others.
LastWrite(t, n, last, j) ==
  /\ n \in 0 .. last
  /\ n # 0 => t.writes[n][1] = j
  /\ \A m \in n + 1 .. last : t.writes[m][1] # j

WordAfter(t, n) == IF n = 0 THEN 0 ELSE t.writes[n][2]

ASSUME WritesAssumption ==
  \A t \in Tests : t.writes # <<>> =>
    /\ Len(t.writes) \in Nat \ {0}
    /\ \A n \in 1 .. Len(t.writes) : t.writes[n][1] \in 0 .. t.RES_ITEMS - 1
    /\ \A j \in 0 .. t.RES_ITEMS - 1, n \in 0 .. Len(t.writes) :
         LastWrite(t, n, Len(t.writes), j) => Expected(t, j) = WordAfter(t, n)

-----------------------------------------------------------------------------
(* 4_crc.c.  The check is in bytes 1 and 2 of word CheckAt.                *)
CheckAt(t) == (Len(t.bytes) - 8) \div 4
CopiedWord(t, j) == IF j < Len(t.bytes) \div 4 THEN Words(t.bytes)[j + 1] ELSE 0
UnsetWord(t, j) == IF j = CheckAt(t) THEN WithByte(CopiedWord(t, j), 1, 0) ELSE CopiedWord(t, j)

\* The check word after the bytes 1 to k, and after all.
CheckAfter(t, k) == t.checks[k + 1]
CheckOf(t) == CheckAfter(t, Len(t.bytes) - 8)

HalfWord(t, j) ==
  IF j = CheckAt(t) THEN WithByte(UnsetWord(t, j), 1, CheckOf(t) \div 256) ELSE UnsetWord(t, j)
CheckedWord(t, j) ==
  IF j = CheckAt(t) THEN WithByte(HalfWord(t, j), 2, CheckOf(t) % 256) ELSE HalfWord(t, j)

ASSUME CheckAssumption ==
  \A t \in Tests : t.bytes # <<>> =>
    /\ Len(t.bytes) \in Nat /\ Len(t.bytes) > 8 /\ Len(t.bytes) % 4 = 0
    /\ Len(t.bytes) \div 4 <= t.RES_ITEMS
    /\ CheckAfter(t, 0) = 0
    /\ \A k \in 1 .. Len(t.bytes) - 8 :
         CheckAfter(t, k) = icrc(CheckAfter(t, k - 1), ByteOf(UnsetWord(t, k \div 4), k % 4))
    /\ \A j \in 0 .. t.RES_ITEMS - 1 : Expected(t, j) = CheckedWord(t, j)

-----------------------------------------------------------------------------
(* A word tells when it cannot be right before the kernel has begun to     *)
(* look for distances, or, of the other kernels, before it is done.  Where *)
(* results are compared while they are written, a test must have one.      *)
Tells(t, j) ==
  IF t.graph # <<>> THEN j \in Vertices(t) \ {0} /\ Expected(t, j) # INT_MAX
  ELSE IF t.bytes # <<>>
    THEN /\ j = CheckAt(t)
         /\ Expected(t, j) \notin {0, CopiedWord(t, j), UnsetWord(t, j), HalfWord(t, j)}
  ELSE /\ j = t.writes[Len(t.writes)][1]
       /\ Expected(t, j) # 0
       /\ \A n \in 1 .. Len(t.writes) - 1 :
            t.writes[n][1] = j => t.writes[n][2] # Expected(t, j)

ASSUME TellingAssumption ==
  \A t \in Tests : t.ncpu > 1 => \E j \in 0 .. t.RES_ITEMS - 1 : Tells(t, j)
=============================================================================
