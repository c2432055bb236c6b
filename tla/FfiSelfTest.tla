---------------------------- MODULE FfiSelfTest -----------------------------
(***************************************************************************)
(* The self-test of the fault-injection platform's workloads on several    *)
(* cores (src/FFI/workloads/selftest/top_multicore.c).  Core 0 clears the  *)
(* results, starts the other cores, runs the kernel itself and compares    *)
(* the results of all cores with the expected ones, a word at a time, at   *)
(* once: the others run the kernel at their own pace or, as the platform's *)
(* faults will have it, stop anywhere, and never say that they are done.   *)
(*                                                                         *)
(* A step is an iteration of an inner loop, which makes at most one write  *)
(* to the results, or the comparison of a word.  Stores are seen in the    *)
(* order of the program.                                                   *)
(***************************************************************************)
EXTENDS FfiTests

VARIABLES
  test,         \* the test that runs, chosen once
  started,      \* the cores that are running are 0 .. started - 1
  pc,           \* where each core is in its kernel
  v, u, sptSet, \* its loop index; u and its picked vertices in dijkstra, and
                \* in u the check word
  RES,          \* RES_PTR[0 .. ncpu * RES_ITEMS - 1]
  compared,     \* the words core 0 has compared, of all cores
  mismatches,   \* by core
  late          \* history: the cores not done when the comparison began

kernelVars == <<pc, v, u, sptSet>>
vars == <<test, started, kernelVars, RES, compared, mismatches, late>>

graph == test.graph
bytes == test.bytes
writes == test.writes
RES_ITEMS == test.RES_ITEMS
ncpu == test.ncpu
Cores == 0 .. ncpu - 1
V == Len(graph)

Reference(j) == Expected(test, j)

Base(mhartid) == mhartid * RES_ITEMS

Init ==
  /\ test \in Tests
  /\ started = 1
  /\ pc = [i \in Cores |-> IF graph # <<>> THEN "clear"
                        ELSE IF bytes # <<>> THEN "copy" ELSE "write"]
  /\ v = [i \in Cores |-> 0] /\ u = [i \in Cores |-> 0]
  /\ sptSet = [i \in Cores |-> {}]
  /\ RES = [n \in 0 .. ncpu * RES_ITEMS - 1 |-> 0]
  /\ compared = 0
  /\ mismatches = [i \in Cores |-> 0]
  /\ late = {}

\* Core 0 starts the others in their order.
StartProcessor ==
  /\ started < ncpu
  /\ started' = started + 1
  /\ UNCHANGED <<test, kernelVars, RES, compared, mismatches, late>>

-----------------------------------------------------------------------------
(* A kernel, on core i.  A core other than 0 is stalled when it is done.   *)
At(i, place) == pc[i] = place /\ i < started /\ (i = 0 => started = ncpu)

\* The kernel goes on to place; done is its end.
Go(i, place) ==
  /\ pc' = [pc EXCEPT ![i] = place]
  /\ late' = IF i = 0 /\ place = "done" THEN {c \in Cores \ {0} : pc[c] # "done"} ELSE late
  /\ UNCHANGED <<test, started, compared, mismatches>>

Write(i, j, value) == RES' = [RES EXCEPT ![Base(i) + j] = value]

\* matmult, search: the next write.
WriteNext(i) ==
  /\ At(i, "write")
  /\ Write(i, writes[v[i] + 1][1], writes[v[i] + 1][2])
  /\ v' = [v EXCEPT ![i] = @ + 1]
  /\ Go(i, IF v[i] + 1 = Len(writes) THEN "done" ELSE "write")
  /\ UNCHANGED <<u, sptSet>>

\* dijkstra: the distances are in the results.
dist(i) == [n \in 0 .. V - 1 |-> RES[Base(i) + n]]

ClearDistance(i) ==
  /\ At(i, "clear")
  /\ Write(i, v[i], INT_MAX)
  /\ v' = [v EXCEPT ![i] = @ + 1]
  /\ Go(i, IF v[i] + 1 = V THEN "source" ELSE "clear")
  /\ UNCHANGED <<u, sptSet>>

SetSource(i) ==
  /\ At(i, "source")
  /\ Write(i, 0, 0)
  /\ Go(i, "pick")
  /\ UNCHANGED <<v, u, sptSet>>

PickVertex(i) ==
  /\ At(i, "pick")
  /\ LET picked == minDistance(dist(i), (0 .. V - 1) \ sptSet[i])
     IN  /\ u' = [u EXCEPT ![i] = picked]
         /\ sptSet' = [sptSet EXCEPT ![i] = @ \cup {picked}]
  /\ v' = [v EXCEPT ![i] = 0]
  /\ Go(i, "relax")
  /\ UNCHANGED RES

Shorter(i) ==
  /\ v[i] \notin sptSet[i]
  /\ Weight(graph, u[i], v[i]) # 0
  /\ dist(i)[u[i]] # INT_MAX
  /\ dist(i)[u[i]] + Weight(graph, u[i], v[i]) < dist(i)[v[i]]

\* As many vertices are picked as rounds have been begun.
RelaxEdge(i) ==
  /\ At(i, "relax")
  /\ IF Shorter(i)
       THEN Write(i, v[i], dist(i)[u[i]] + Weight(graph, u[i], v[i]))
       ELSE UNCHANGED RES
  /\ v' = [v EXCEPT ![i] = @ + 1]
  /\ Go(i, IF v[i] + 1 < V THEN "relax"
           ELSE IF Cardinality(sptSet[i]) < V - 1 THEN "pick" ELSE "done")
  /\ UNCHANGED <<u, sptSet>>

\* crc: the bytes 1 to len of the results are read back, byte 0 is not.
len == Len(bytes) - 8
data_ptr(i, k) == ByteOf(RES[Base(i) + (k \div 4)], k % 4)
SetByte(i, k, b) == Write(i, k \div 4, WithByte(RES[Base(i) + (k \div 4)], k % 4, b))

\* memcpy, taken to copy words in their order.
CopyText(i) ==
  /\ At(i, "copy")
  /\ Write(i, v[i], Words(bytes)[v[i] + 1])
  /\ v' = [v EXCEPT ![i] = @ + 1]
  /\ Go(i, IF 4 * (v[i] + 1) = Len(bytes) THEN "unset" ELSE "copy")
  /\ UNCHANGED <<u, sptSet>>

ClearCheck(i) ==
  /\ At(i, "unset")
  /\ SetByte(i, len + 1, 0)
  /\ v' = [v EXCEPT ![i] = 1] /\ u' = [u EXCEPT ![i] = 0]
  /\ Go(i, "crc")
  /\ UNCHANGED sptSet

CheckByte(i) ==
  /\ At(i, "crc")
  /\ u' = [u EXCEPT ![i] = icrc(@, data_ptr(i, v[i]))]
  /\ v' = [v EXCEPT ![i] = @ + 1]
  /\ Go(i, IF v[i] < len THEN "crc" ELSE "high")
  /\ UNCHANGED <<sptSet, RES>>

\* The check of the whole that follows has no effect: its result is dropped.
WriteCheck(i) ==
  /\ UNCHANGED <<v, u, sptSet>>
  /\ \/ At(i, "high") /\ SetByte(i, len + 1, u[i] \div 256) /\ Go(i, "low")
     \/ At(i, "low") /\ SetByte(i, len + 2, u[i] % 256) /\ Go(i, "done")

mkernel(i) ==
  \/ WriteNext(i)
  \/ ClearDistance(i) \/ SetSource(i) \/ PickVertex(i) \/ RelaxEdge(i)
  \/ CopyText(i) \/ ClearCheck(i) \/ CheckByte(i) \/ WriteCheck(i)

-----------------------------------------------------------------------------
\* Mutant: core 0 is stalled, too.
ReturnsNever(mhartid) == pc[mhartid] = "done" /\ ~(mhartid >= 0)
Returns(mhartid) == pc[mhartid] = "done" /\ ~(mhartid > 0)

\* Mutant: the words of core 0 only are compared.
WordsOfCoreZero == RES_ITEMS
WordsCompared == ncpu * RES_ITEMS

Compare ==
  /\ Returns(0)
  /\ compared < WordsCompared
  /\ LET i == compared \div RES_ITEMS
         j == compared % RES_ITEMS
     IN  mismatches' = [mismatches EXCEPT ![i] = IF RES[compared] # Reference(j) THEN @ + 1 ELSE @]
  /\ compared' = compared + 1
  /\ UNCHANGED <<test, started, kernelVars, RES, late>>

Next == StartProcessor \/ Compare \/ \E i \in Cores : mkernel(i)

\* Core 0 runs; any other core may be slow, or stop.
SelfTestSpec ==
  /\ Init /\ [][Next]_vars
  /\ WF_vars(StartProcessor \/ mkernel(0) \/ Compare)

-----------------------------------------------------------------------------
Completed == Returns(0) /\ compared = WordsCompared
Passed == Completed /\ \A i \in Cores : mismatches[i] = 0

\* "passed" is to be relied on: when the comparison finds no mismatch, all the
\* results of all the cores are right and stay so, although they may have been
\* compared while they were being written, and a word may have the right value
\* before it has its last (selftest/top_multicore.c:47-59).
PassedIsSound ==
  Passed => \A i \in Cores, j \in 0 .. RES_ITEMS - 1 : RES[i * RES_ITEMS + j] = Reference(j)

\* "failed" has a cause other than the program: without faults only the results
\* of a core that was not done when core 0 began to compare mismatch.  Core 0
\* never does: the kernel computes what the table of its file expects.
MismatchMeansLate == \A i \in Cores : mismatches[i] > 0 => i \in late

\* The verdict comes, whatever the other cores do.
TestCompletes == <>Completed
=============================================================================
