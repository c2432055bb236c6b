---------------------------- MODULE AccessQueue -----------------------------
(***************************************************************************)
(* The queues of bus accesses in src/safety/ahb_pmu: reads and writes that *)
(* a core has started and not finished, each kind in a queue of its own    *)
(* (module_fifo) with the set of cores in it (cpu_vector), and one queue   *)
(* for both, fed through multiplePushPullingUnifier, whose head is the     *)
(* core that is blamed for the waiting of the others.                      *)
(*                                                                         *)
(* A step is a clock edge with any pushes and pulls of the two push state  *)
(* machines: at most a read and a write push, and a read and a write pull. *)
(* What they do is restrained in three ways.  A core that waits for an     *)
(* access starts no other; only what is queued is pulled; and after two    *)
(* pushes, or two pulls, in a clock the next one has none, as the          *)
(* assertions of the unifier demand.  Where a program lives up to inorder  *)
(* accesses of either kind finish in the order in which they began.        *)
(***************************************************************************)
EXTENDS Integers, Sequences, FiniteSets

CONSTANTS
  Cpus,      \* the cores, ncpu of them
  None       \* the one-hot vector of no core

ncpu == Cardinality(Cpus)

ASSUME CpuAssumption == IsFiniteSet(Cpus) /\ Cpus # {} /\ None \notin Cpus

VARIABLES
  reads, writes, unified,                \* the three queues
  reading, writing,                      \* cpu_active_read_req, .._write_req
  push_valid_buffer, push_data_buffer,   \* the read push that is put off
  pull_valid_buffer,                     \* the pull that is put off
  inorder,                               \* environment: chosen once
  order                                  \* history: what a queue would hold

queueVars == <<reads, writes, unified, reading, writing,
               push_valid_buffer, push_data_buffer, pull_valid_buffer>>
vars == <<queueVars, inorder, order>>

-----------------------------------------------------------------------------
(* module_fifo, g_WIDTH and g_DEPTH both ncpu.                             *)
Fifo == [mem : [0 .. ncpu - 1 -> Cpus \cup {None}],
         head : 0 .. ncpu - 1, tail : 0 .. ncpu - 1, fill : 0 .. ncpu]

EmptyFifo == [mem |-> [n \in 0 .. ncpu - 1 |-> None], head |-> 0, tail |-> 0, fill |-> 0]

\* Mutant: the wrap one too late.
IncrLate(n) == IF n = ncpu THEN 0 ELSE n + 1
incr(n) == IF n = ncpu - 1 THEN 0 ELSE n + 1
i_full(f)  == f.fill = ncpu
i_empty(f) == f.fill = 0
rd_data(f) == f.mem[f.tail]

\* Mutant: the count ignores a read in the clock of a write.
FifoAfterWriteFirst(f, wr_en, wr_data, rd_en) ==
  [mem  |-> IF wr_en THEN [f.mem EXCEPT ![f.head] = wr_data] ELSE f.mem,
   head |-> IF wr_en /\ ~i_full(f) THEN incr(f.head) ELSE f.head,
   tail |-> IF rd_en /\ ~i_empty(f) THEN incr(f.tail) ELSE f.tail,
   fill |-> IF wr_en THEN f.fill + 1 ELSE IF rd_en THEN f.fill - 1 ELSE f.fill]

\* The pointers look at the flags; the count and the memory do not.
FifoAfter(f, wr_en, wr_data, rd_en) ==
  [mem  |-> IF wr_en THEN [f.mem EXCEPT ![f.head] = wr_data] ELSE f.mem,
   head |-> IF wr_en /\ ~i_full(f) THEN incr(f.head) ELSE f.head,
   tail |-> IF rd_en /\ ~i_empty(f) THEN incr(f.tail) ELSE f.tail,
   fill |-> IF wr_en /\ ~rd_en THEN f.fill + 1
            ELSE IF rd_en /\ ~wr_en THEN f.fill - 1 ELSE f.fill]

FifoReset(f) == [f EXCEPT !.head = 0, !.tail = 0, !.fill = 0]

Wrapped(n) == IF n < ncpu THEN n ELSE n - ncpu
Contents(f) == [n \in 1 .. f.fill |-> f.mem[Wrapped(f.tail + n - 1)]]

(* cpu_vector: the cores in a queue, as a set.                             *)
\* Mutant: a pull in the clock of a push is forgotten.
VectorAfterPushFirst(v, push, cpu, pop, popped) ==
  IF push THEN v \cup {cpu} ELSE IF pop THEN v \ {popped} ELSE v

VectorAfter(v, push, cpu, pop, popped) ==
  (v \ (IF pop THEN {popped} ELSE {})) \cup (IF push THEN {cpu} ELSE {})

-----------------------------------------------------------------------------
(* multiplePushPullingUnifier.  A core in place of None is a push.         *)
push_valid_out(r, w) == push_valid_buffer \/ r # None \/ w # None
\* Mutant: the second of two pulls is forgotten.
PullOnce(popR, popW) == popR \/ popW
pull_valid_out(popR, popW) == pull_valid_buffer \/ popR \/ popW

\* Mutant: reads first.
PushReadFirst(r, w) ==
  IF push_valid_buffer THEN push_data_buffer ELSE IF r # None THEN r ELSE w
push_data_out(r, w) ==
  IF push_valid_buffer THEN push_data_buffer ELSE IF w # None THEN w ELSE r

\* Mutant: of two pushes the one that is served is put off, too.
UnifierEdgeTwice(r, w, popR, popW) ==
  /\ push_valid_buffer' = (r # None /\ w # None)
  /\ push_data_buffer' = IF r # None /\ w # None THEN w ELSE push_data_buffer
  /\ pull_valid_buffer' = (popR /\ popW)

UnifierEdge(r, w, popR, popW) ==
  /\ push_valid_buffer' = (r # None /\ w # None)
  /\ push_data_buffer' = IF r # None /\ w # None THEN r ELSE push_data_buffer
  /\ pull_valid_buffer' = (popR /\ popW)

-----------------------------------------------------------------------------
Init ==
  /\ reads = EmptyFifo /\ writes = EmptyFifo /\ unified = EmptyFifo
  /\ reading = {} /\ writing = {}
  /\ push_valid_buffer = FALSE /\ push_data_buffer = None
  /\ pull_valid_buffer = FALSE
  /\ inorder \in BOOLEAN
  /\ order = <<>>

cpu_active_req == reading \cup writing

\* What the push state machines may do at an edge.
Pushed(r, w) == {r, w} \ {None}
Pulled(popR, popW) ==
  (IF popR THEN {rd_data(reads)} ELSE {}) \cup (IF popW THEN {rd_data(writes)} ELSE {})
Pulls(popR, popW) == (IF popR THEN 1 ELSE 0) + (IF popW THEN 1 ELSE 0)

Allowed(r, w, popR, popW) ==
  /\ Pushed(r, w) \cap cpu_active_req = {}
  /\ r = w => r = None
  /\ popR => ~i_empty(reads)
  /\ popW => ~i_empty(writes)
  /\ push_valid_buffer => Pushed(r, w) = {}
  /\ pull_valid_buffer => ~popR /\ ~popW
  /\ inorder => \A n \in 1 .. Pulls(popR, popW) : order[n] \in Pulled(popR, popW)

Arrivals(r, w) ==
  (IF w # None THEN <<w>> ELSE <<>>) \o (IF r # None THEN <<r>> ELSE <<>>)

Edge(r, w, popR, popW) ==
  /\ Allowed(r, w, popR, popW)
  /\ reads' = FifoAfter(reads, r # None, r, popR)
  /\ writes' = FifoAfter(writes, w # None, w, popW)
  /\ reading' = VectorAfter(reading, r # None, r, popR, rd_data(reads))
  /\ writing' = VectorAfter(writing, w # None, w, popW, rd_data(writes))
  /\ UnifierEdge(r, w, popR, popW)
  /\ unified' = FifoAfter(unified, push_valid_out(r, w), push_data_out(r, w),
                          pull_valid_out(popR, popW))
  /\ order' = SubSeq(order, Pulls(popR, popW) + 1, Len(order)) \o Arrivals(r, w)
  /\ UNCHANGED inorder

\* The reset holds the push state machines idle; the memories and the buffers
\* of the unifier are not wired to it, but without pushes the buffers clear.
Reset ==
  /\ reads' = FifoReset(reads)
  /\ writes' = FifoReset(writes)
  /\ unified' = FifoReset(unified)
  /\ reading' = {} /\ writing' = {}
  /\ push_valid_buffer' = FALSE /\ pull_valid_buffer' = FALSE
  /\ order' = <<>>
  /\ UNCHANGED <<push_data_buffer, inorder>>

Next ==
  \/ Reset
  \/ \E r, w \in Cpus \cup {None}, popR, popW \in BOOLEAN : Edge(r, w, popR, popW)

QueueSpec == Init /\ [][Next]_vars

-----------------------------------------------------------------------------
QueueTypeOK ==
  /\ reads \in Fifo /\ writes \in Fifo /\ unified \in Fifo
  /\ reading \subseteq Cpus /\ writing \subseteq Cpus
  /\ push_valid_buffer \in BOOLEAN /\ pull_valid_buffer \in BOOLEAN
  /\ push_data_buffer \in Cpus \cup {None}

\* The common queue is one, in spite of two pushes or two pulls in a clock:
\* with what is put off counted in, it holds the accesses in the order in which
\* they began, a write before the read of the same clock
\* (ahb_latency_and_contention.vhd:914-942).
Backlog ==
  LET held == Contents(unified) \o
                (IF push_valid_buffer THEN <<push_data_buffer>> ELSE <<>>)
  IN  IF pull_valid_buffer THEN Tail(held) ELSE held

QueueExact == Backlog = order

\* The books balance: the three fill counts, which are moved by different
\* pushes and pulls at different clocks, agree but for what is put off.  A
\* difference would stay for ever, and the wrong core be blamed from then on.
One(b) == IF b THEN 1 ELSE 0
BooksBalance ==
  unified.fill + One(push_valid_buffer) =
    reads.fill + writes.fill + One(pull_valid_buffer)

\* A core counts as waiting exactly while its access is queued, also when its
\* queue gains one access and loses another in the same clock.
ActiveExact ==
  /\ reading = {Contents(reads)[n] : n \in 1 .. reads.fill}
  /\ writing = {Contents(writes)[n] : n \in 1 .. writes.fill}

\* The assertions of module_fifo hold in all three queues, "FIFO IS FULL AND
\* BEING WRITTEN" and "FIFO IS EMPTY AND BEING READ" (fifo_regs.vhd:104-109): in
\* the common queue, too, which is emptied and filled later than the others, and
\* which has room for ncpu accesses and no more.
FitsAndFinds(f, wr_en, rd_en) == (wr_en => ~i_full(f)) /\ (rd_en => ~i_empty(f))

FifoAssertions ==
  \A r, w \in Cpus \cup {None}, popR, popW \in BOOLEAN :
    Allowed(r, w, popR, popW) =>
      /\ FitsAndFinds(reads, r # None, popR)
      /\ FitsAndFinds(writes, w # None, popW)
      /\ FitsAndFinds(unified, push_valid_out(r, w), pull_valid_out(popR, popW))

\* "A contender(J) causes contention if it is the head of the queue and you are
\* queued" (ahb_latency_and_contention.vhd:524): whom the head blames, for the
\* waiting of I, is itself waiting for an access, but for the clock in which the
\* second of two pulls is made good.
QueueBlame(I, J) == rd_data(unified) = J /\ I \in cpu_active_req

BlamedIsQueued ==
  inorder /\ ~pull_valid_buffer =>
    \A I, J \in Cpus : QueueBlame(I, J) => J \in cpu_active_req
=============================================================================
