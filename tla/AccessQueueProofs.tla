------------------------- MODULE AccessQueueProofs -------------------------
(***************************************************************************)
(* The queues of bus accesses for any set of cores: what AccessQueue has   *)
(* TLC check for three.                                                    *)
(*                                                                         *)
(* QueueInv ties each queue to the set of cores in it.  Its pointers are   *)
(* as far apart as its count says, and it holds no core twice; therefore   *)
(* the count is the size of the set, and the cores are the bound that the  *)
(* queues never meet.  OrderInv compares the common queue with the history *)
(* of the accesses, place by place, and Turns says whose turn it is.       *)
(***************************************************************************)
EXTENDS AccessQueue, FiniteSetTheorems, SequenceTheorems, TLAPS

\* There is a core.
LEMMA CoresCounted == ncpu \in Nat /\ ncpu > 0
  BY CpuAssumption, FS_CardinalityType, FS_EmptySet, SMT DEF ncpu

\* The head is the fill count ahead of the tail.
Sound(f) == f \in Fifo /\ f.head = Wrapped(f.tail + f.fill)

\* Different places of a queue are different slots.
LEMMA Wrapping ==
  ASSUME NEW t \in 0 .. ncpu - 1, NEW i \in 0 .. ncpu - 1
  PROVE  /\ Wrapped(t + i) \in 0 .. ncpu - 1
         /\ \A j \in 0 .. ncpu - 1 : i # j => Wrapped(t + i) # Wrapped(t + j)
  BY CoresCounted DEF Wrapped

\* incr keeps the head the fill count ahead of the tail.
LEMMA Turning ==
  ASSUME NEW t \in 0 .. ncpu - 1, NEW k \in 0 .. ncpu,
         NEW wr \in BOOLEAN, NEW rd \in BOOLEAN, wr => k < ncpu, rd => k > 0
  PROVE  (IF wr THEN incr(Wrapped(t + k)) ELSE Wrapped(t + k))
           = Wrapped((IF rd THEN incr(t) ELSE t) + (k + One(wr) - One(rd)))
<1> USE CoresCounted DEF Wrapped, incr, One
<1>1. CASE wr /\ rd
  BY <1>1
<1>2. CASE wr /\ ~rd
  BY <1>2
<1>3. CASE ~wr /\ rd
  BY <1>3
<1>4. CASE ~wr /\ ~rd
  BY <1>4
<1> QED  BY <1>1, <1>2, <1>3, <1>4

\* After a read the n-th place of the queue is the next one.
LEMMA Shifting ==
  ASSUME NEW t \in 0 .. ncpu - 1, NEW n \in 1 .. ncpu, NEW rd \in BOOLEAN
  PROVE  Wrapped((IF rd THEN incr(t) ELSE t) + n - 1) = Wrapped(t + n + One(rd) - 1)
<1> USE CoresCounted DEF Wrapped, incr, One
<1>1. CASE rd /\ t = ncpu - 1
  BY <1>1
<1>2. CASE rd /\ t # ncpu - 1
  BY <1>2
<1>3. CASE ~rd
  BY <1>3
<1> QED  BY <1>1, <1>2, <1>3

\* One edge of a queue that neither overflows nor runs dry drops its oldest
\* entry and adds the new one behind the others (fifo_regs.vhd:53-86).
LEMMA FifoStep ==
  ASSUME NEW f, Sound(f), NEW d \in Cpus \cup {None},
         NEW rd \in BOOLEAN, FitsAndFinds(f, d # None, rd)
  PROVE  LET g == FifoAfter(f, d # None, d, rd) IN
         /\ Sound(g)
         /\ g.fill = f.fill + One(d # None) - One(rd)
         /\ \A n \in 1 .. g.fill :
              Contents(g)[n] = IF n + One(rd) <= f.fill THEN Contents(f)[n + One(rd)] ELSE d
<1> DEFINE g == FifoAfter(f, d # None, d, rd)
<1> USE CoresCounted
<1>1. /\ f.mem \in [0 .. ncpu - 1 -> Cpus \cup {None}]
      /\ f.head \in 0 .. ncpu - 1 /\ f.tail \in 0 .. ncpu - 1 /\ f.fill \in 0 .. ncpu
      /\ f.head = Wrapped(f.tail + f.fill)
  BY DEF Sound, Fifo
<1>2. g.fill = f.fill + One(d # None) - One(rd) /\ g.fill \in 0 .. ncpu
  BY <1>1 DEF FifoAfter, FitsAndFinds, i_full, i_empty, One
<1>3. g.head = (IF d # None THEN incr(f.head) ELSE f.head) /\ g.tail = IF rd THEN incr(f.tail) ELSE f.tail
  BY <1>1 DEF FifoAfter, FitsAndFinds
<1>4. g.mem = IF d # None THEN [f.mem EXCEPT ![f.head] = d] ELSE f.mem
  BY DEF FifoAfter
<1>5. g \in Fifo
  <2>1. g.mem \in [0 .. ncpu - 1 -> Cpus \cup {None}]
    BY <1>1, <1>4
  <2>2. g.head \in 0 .. ncpu - 1 /\ g.tail \in 0 .. ncpu - 1
    BY <1>1, <1>3 DEF incr
  <2> QED  BY <2>1, <2>2, <1>2 DEF FifoAfter, Fifo
<1>6. g.head = Wrapped(g.tail + g.fill)
  <2>1. (d # None => f.fill < ncpu) /\ (rd => f.fill > 0)
    BY <1>1 DEF FitsAndFinds, i_full, i_empty
  <2>2. (IF d # None THEN incr(Wrapped(f.tail + f.fill)) ELSE Wrapped(f.tail + f.fill))
          = Wrapped((IF rd THEN incr(f.tail) ELSE f.tail) + (f.fill + One(d # None) - One(rd)))
    BY <2>1, <1>1, Turning
  <2> QED  BY <2>2, <1>1, <1>2, <1>3
<1>7. ASSUME NEW n \in 1 .. g.fill
      PROVE  Contents(g)[n] = IF n + One(rd) <= f.fill THEN Contents(f)[n + One(rd)] ELSE d
  <2>1. Contents(g)[n] = g.mem[Wrapped(g.tail + n - 1)]
    BY DEF Contents
  <2>2. Wrapped(g.tail + n - 1) = Wrapped(f.tail + n + One(rd) - 1)
    <3>1. f.tail \in 0 .. ncpu - 1 /\ n \in 1 .. ncpu
      BY <1>1, <1>2
    <3> QED  BY <3>1, <1>3, Shifting
  <2>3. CASE n + One(rd) <= f.fill
    <3>1. Contents(f)[n + One(rd)] = f.mem[Wrapped(f.tail + n + One(rd) - 1)]
      BY <2>3, <1>1, <1>2 DEF Contents, One
    <3>2. /\ Wrapped(f.tail + n + One(rd) - 1) \in 0 .. ncpu - 1
          /\ d # None => Wrapped(f.tail + n + One(rd) - 1) # f.head
      <4> DEFINE j == n + One(rd) - 1
      <4>1. j \in 0 .. ncpu - 1 /\ j < f.fill /\ (d # None => f.fill < ncpu)
        <5>1. One(rd) \in Int /\ 0 <= One(rd) /\ One(rd) <= 1
          BY DEF One
        <5>2. n \in Int /\ 1 <= n /\ f.fill \in Int /\ f.fill <= ncpu
          BY <1>1, <1>2
        <5>3. d # None => f.fill # ncpu
          BY DEF FitsAndFinds, i_full
        <5>4. ncpu \in Int
          BY CoresCounted
        <5> QED  BY ONLY <5>1, <5>2, <5>3, <5>4, <2>3
      <4>2. /\ Wrapped(f.tail + j) \in 0 .. ncpu - 1
            /\ \A k \in 0 .. ncpu - 1 : j # k => Wrapped(f.tail + j) # Wrapped(f.tail + k)
        <5> HIDE DEF j
        <5> QED  BY <4>1, <1>1, Wrapping
      <4>4. d # None => f.fill \in 0 .. ncpu - 1 /\ j # f.fill
        BY <4>1, <1>1
      <4>3. f.tail + n + One(rd) - 1 = f.tail + j
        BY <1>1, <1>2 DEF One
      <4> QED  BY <4>2, <4>3, <4>4, <1>1
    <3>3. g.mem[Wrapped(f.tail + n + One(rd) - 1)] = f.mem[Wrapped(f.tail + n + One(rd) - 1)]
      BY <3>2, <1>1, <1>4
    <3> QED  BY <2>3, <2>1, <2>2, <3>1, <3>3
  <2>4. CASE ~(n + One(rd) <= f.fill)
    <3>1. d # None /\ n + One(rd) = f.fill + 1
      BY <2>4, <1>1, <1>2 DEF One
    <3>2. Wrapped(f.tail + n + One(rd) - 1) = f.head
      <4>1. f.tail + n + One(rd) - 1 = f.tail + f.fill
        <5>1. One(rd) \in Int /\ n \in Int /\ f.tail \in Int /\ f.fill \in Int
          BY <1>1, <1>2 DEF One
        <5> QED  BY ONLY <5>1, <3>1
      <4> QED  BY <4>1, <1>1
    <3>3. g.mem[f.head] = d
      BY <3>1, <1>1, <1>4
    <3> QED  BY <2>4, <2>1, <2>2, <3>2, <3>3
  <2> QED  BY <2>3, <2>4
<1> QED  BY <1>2, <1>5, <1>6, <1>7 DEF Sound

-----------------------------------------------------------------------------
\* The queue f, without repetition, holds just the cores v.
Members(f) == {Contents(f)[n] : n \in 1 .. f.fill}

Distinct(f) == \A i, j \in 1 .. f.fill : Contents(f)[i] = Contents(f)[j] => i = j

Tracks(f, v) == Sound(f) /\ Distinct(f) /\ v = Members(f) /\ v \subseteq Cpus

\* rd_data is the oldest entry of a queue that has one.
LEMMA OldestRead ==
  ASSUME NEW f, Sound(f), ~i_empty(f)
  PROVE  1 \in 1 .. f.fill /\ rd_data(f) = Contents(f)[1]
<1>1. /\ f.tail \in 0 .. ncpu - 1 /\ f.fill \in 0 .. ncpu /\ f.fill # 0
  BY DEF Sound, Fifo, i_empty
<1>2. 1 \in 1 .. f.fill /\ Wrapped(f.tail + 1 - 1) = f.tail
  BY <1>1, CoresCounted DEF Wrapped
<1> QED  BY <1>2 DEF rd_data, Contents

\* The vector of a queue follows it through an edge with a push, a pull or both
\* (cpu_vector.vhd:59-79).
LEMMA TrackStep ==
  ASSUME NEW f, NEW v, Tracks(f, v), NEW d \in Cpus \cup {None}, d \notin v,
         NEW rd \in BOOLEAN, FitsAndFinds(f, d # None, rd)
  PROVE  Tracks(FifoAfter(f, d # None, d, rd), VectorAfter(v, d # None, d, rd, rd_data(f)))
<1> DEFINE g == FifoAfter(f, d # None, d, rd)
           x == One(rd)
           w == VectorAfter(v, d # None, d, rd, rd_data(f))
<1>1. Sound(f) /\ f.fill \in Nat /\ x \in 0 .. 1 /\ (rd => x = 1) /\ (~rd => x = 0)
  BY CoresCounted DEF Tracks, Sound, Fifo, One
<1>2. /\ Sound(g) /\ g.fill = f.fill + One(d # None) - x
      /\ \A n \in 1 .. g.fill :
           Contents(g)[n] = IF n + x <= f.fill THEN Contents(f)[n + x] ELSE d
  BY <1>1, FifoStep
<1>3. /\ d # None => g.fill = f.fill + 1 - x
      /\ d = None => g.fill = f.fill - x
      /\ x <= f.fill
      /\ g.fill \in Int
  BY <1>1, <1>2 DEF One, FitsAndFinds, i_empty
<1>4. \A n \in 1 .. f.fill : Contents(f)[n] \in v
  BY DEF Tracks, Members
<1>5. \A n \in 1 .. g.fill : ~(n + x <= f.fill) => n = g.fill /\ d # None /\ Contents(g)[n] = d
  <2> SUFFICES ASSUME NEW n \in 1 .. g.fill, ~(n + x <= f.fill)
               PROVE  n = g.fill /\ d # None /\ Contents(g)[n] = d
    OBVIOUS
  <2>1. n \in Int /\ n <= g.fill
    BY <1>1, <1>3
  <2>2. n = g.fill /\ d # None
    BY <2>1, <1>1, <1>3
  <2> QED  BY <2>2, <1>2
<1>6. \A n \in 1 .. g.fill : n + x <= f.fill =>
         n + x \in 1 .. f.fill /\ Contents(g)[n] = Contents(f)[n + x]
  BY <1>1, <1>2, <1>3
<1>7. Distinct(g)
  <2> SUFFICES ASSUME NEW i \in 1 .. g.fill, NEW j \in 1 .. g.fill,
                      Contents(g)[i] = Contents(g)[j]
               PROVE  i = j
    BY DEF Distinct
  <2>1. CASE i + x <= f.fill /\ j + x <= f.fill
    <3>1. i + x = j + x
      BY <2>1, <1>6 DEF Tracks, Distinct
    <3> QED  BY <3>1, <1>1
  <2>2. CASE ~(i + x <= f.fill) /\ ~(j + x <= f.fill)
    BY <2>2, <1>5
  <2>3. ~(i + x <= f.fill /\ ~(j + x <= f.fill)) /\ ~(~(i + x <= f.fill) /\ j + x <= f.fill)
    BY <1>4, <1>5, <1>6
  <2> QED  BY <2>1, <2>2, <2>3
<1>8. rd => 1 \in 1 .. f.fill /\ rd_data(f) = Contents(f)[1]
  BY <1>1, OldestRead DEF FitsAndFinds
<1>9. w \subseteq Members(g)
  <2> SUFFICES ASSUME NEW c \in w PROVE c \in Members(g)
    OBVIOUS
  <2>1. CASE c = d /\ d # None
    <3>1. g.fill \in 1 .. g.fill /\ ~(g.fill + x <= f.fill)
      BY <2>1, <1>1, <1>3
    <3> QED  BY <3>1, <2>1, <1>5 DEF Members
  <2>2. CASE ~(c = d /\ d # None)
    <3>1. c \in v /\ (rd => c # rd_data(f))
      BY <2>2 DEF VectorAfter
    <3>2. PICK n \in 1 .. f.fill : c = Contents(f)[n]
      BY <3>1 DEF Tracks, Members
    <3>3. n - x \in 1 .. g.fill /\ (n - x) + x = n /\ (n - x) + x <= f.fill
      BY <3>1, <3>2, <1>1, <1>3, <1>8
    <3> QED  BY <3>2, <3>3, <1>6 DEF Members
  <2> QED  BY <2>1, <2>2
<1>10. Members(g) \subseteq w
  <2> SUFFICES ASSUME NEW n \in 1 .. g.fill PROVE Contents(g)[n] \in w
    BY DEF Members
  <2>1. CASE n + x <= f.fill
    <3>1. n + x \in 1 .. f.fill /\ Contents(g)[n] = Contents(f)[n + x] /\ Contents(g)[n] \in v
      BY <2>1, <1>4, <1>6
    <3>2. rd => Contents(g)[n] # rd_data(f)
      <4> SUFFICES ASSUME rd, Contents(f)[n + x] = Contents(f)[1] PROVE FALSE
        BY <3>1, <1>8
      <4>1. n + x = 1
        BY <3>1, <1>8 DEF Tracks, Distinct
      <4>2. n >= 1 /\ n \in Int
        BY <1>3
      <4>3. x = 1
        BY <1>1
      <4> HIDE DEF x
      <4> QED  BY <4>1, <4>2, <4>3
    <3> QED  BY <3>1, <3>2 DEF VectorAfter
  <2>2. CASE ~(n + x <= f.fill)
    BY <2>2, <1>5 DEF VectorAfter
  <2> QED  BY <2>1, <2>2
<1>11. w \subseteq Cpus
  BY DEF VectorAfter, Tracks
<1> QED  BY <1>2, <1>7, <1>9, <1>10, <1>11 DEF Tracks

\* As no core is queued twice, the fill count is the number of queued cores.
LEMMA TrackCount ==
  ASSUME NEW f, NEW v, Tracks(f, v)
  PROVE  IsFiniteSet(v) /\ Cardinality(v) = f.fill
<1>1. f.fill \in Nat
  BY CoresCounted DEF Tracks, Sound, Fifo
<1>2. IsFiniteSet(1 .. f.fill) /\ Cardinality(1 .. f.fill) = f.fill
  <2>1. /\ IsFiniteSet(1 .. f.fill)
        /\ Cardinality(1 .. f.fill) = IF 1 > f.fill THEN 0 ELSE f.fill - 1 + 1
    <3>1. 1 \in Int /\ f.fill \in Int
      BY <1>1
    <3> QED  BY <3>1, FS_Interval, Zenon
  <2> QED  BY <1>1, <2>1
<1>3. Contents(f) \in Bijection(1 .. f.fill, v)
  <2>1. Contents(f) \in [1 .. f.fill -> v]
    BY DEF Contents, Tracks, Members
  <2>2. \A i, j \in 1 .. f.fill : Contents(f)[i] = Contents(f)[j] => i = j
    BY DEF Tracks, Distinct
  <2>3. \A c \in v : \E n \in 1 .. f.fill : Contents(f)[n] = c
    BY DEF Tracks, Members
  <2> QED  BY <2>1, <2>2, <2>3 DEF Bijection, Injection, Surjection, IsInjective
<1> QED  BY <1>2, <1>3, FS_Bijection DEF ExistsBijection

-----------------------------------------------------------------------------
\* The inductive invariant.  A push is put off only after two pushes, and a pull
\* only after two pulls, which leave two cores without an access.
QueueInv ==
  /\ Tracks(reads, reading) /\ Tracks(writes, writing) /\ Sound(unified)
  /\ reading \cap writing = {}
  /\ push_valid_buffer \in BOOLEAN /\ pull_valid_buffer \in BOOLEAN
  /\ push_data_buffer \in Cpus \cup {None}
  /\ BooksBalance
  /\ push_valid_buffer =>
       push_data_buffer # None /\ ~i_empty(reads) /\ ~i_empty(writes)
  /\ pull_valid_buffer => reads.fill + writes.fill + 2 <= ncpu

\* The counts are numbers.
LEMMA Fills ==
  ASSUME QueueInv
  PROVE  reads.fill \in Nat /\ writes.fill \in Nat /\ unified.fill \in Nat
  BY CoresCounted DEF QueueInv, Tracks, Sound, Fifo

\* Each core is queued once at most, so a core that is not queued has a place.
LEMMA Seats ==
  ASSUME QueueInv
  PROVE  /\ reads.fill + writes.fill <= ncpu
         /\ \A c \in Cpus \ cpu_active_req : reads.fill + writes.fill + 1 <= ncpu
         /\ \A c, e \in Cpus \ cpu_active_req :
              c # e => reads.fill + writes.fill + 2 <= ncpu
<1>1. IsFiniteSet(cpu_active_req) /\ Cardinality(cpu_active_req) = reads.fill + writes.fill
  <2>1. /\ IsFiniteSet(reading) /\ Cardinality(reading) = reads.fill
        /\ IsFiniteSet(writing) /\ Cardinality(writing) = writes.fill
    BY TrackCount DEF QueueInv
  <2>2. Cardinality(reading \cap writing) = 0
    BY FS_EmptySet DEF QueueInv
  <2>3. /\ IsFiniteSet(reading \cup writing)
        /\ Cardinality(reading \cup writing)
             = Cardinality(reading) + Cardinality(writing) - Cardinality(reading \cap writing)
    BY <2>1, FS_Union
  <2> QED  BY <2>1, <2>2, <2>3, Fills DEF cpu_active_req
<1>2. cpu_active_req \subseteq Cpus
  BY DEF QueueInv, Tracks, cpu_active_req
<1>3. ASSUME NEW X \in SUBSET Cpus PROVE Cardinality(X) <= ncpu
  BY CpuAssumption, FS_Subset DEF ncpu
<1>4. ASSUME NEW c \in Cpus \ cpu_active_req
      PROVE  /\ IsFiniteSet(cpu_active_req \cup {c})
             /\ Cardinality(cpu_active_req \cup {c}) = reads.fill + writes.fill + 1
  BY <1>1, FS_AddElement
<1>5. ASSUME NEW c \in Cpus \ cpu_active_req PROVE reads.fill + writes.fill + 1 <= ncpu
  BY <1>2, <1>4, <1>3
<1>6. ASSUME NEW c \in Cpus \ cpu_active_req, NEW e \in Cpus \ cpu_active_req, c # e
      PROVE  reads.fill + writes.fill + 2 <= ncpu
  <2> DEFINE B == cpu_active_req \cup {c}
  <2>1. IsFiniteSet(B) /\ Cardinality(B) = reads.fill + writes.fill + 1 /\ e \notin B
    BY <1>4, <1>6
  <2>2. B \cup {e} \in SUBSET Cpus
    BY <1>2
  <2> HIDE DEF B
  <2>3. Cardinality(B \cup {e}) = reads.fill + writes.fill + 1 + 1
    BY <2>1, FS_AddElement
  <2> QED  BY <2>2, <2>3, <1>3, Fills, CoresCounted
<1>7. reads.fill + writes.fill <= ncpu
  BY <1>1, <1>2, <1>3
<1> QED  BY <1>5, <1>6, <1>7

\* What the invariant is for: an edge that the push state machines may bring
\* finds room, and something to take, in all three queues.
LEMMA RoomFor ==
  ASSUME QueueInv, NEW r \in Cpus \cup {None}, NEW w \in Cpus \cup {None},
         NEW popR \in BOOLEAN, NEW popW \in BOOLEAN, Allowed(r, w, popR, popW)
  PROVE  /\ FitsAndFinds(reads, r # None, popR)
         /\ FitsAndFinds(writes, w # None, popW)
         /\ FitsAndFinds(unified, push_valid_out(r, w), pull_valid_out(popR, popW))
         /\ reads.fill + writes.fill + One(r # None) + One(w # None) <= ncpu
<1>1. /\ r # None => r \in Cpus \ cpu_active_req
      /\ w # None => w \in Cpus \ cpu_active_req
      /\ r # None /\ w # None => r # w
      /\ push_valid_buffer => r = None /\ w = None
  BY DEF Allowed, Pushed
<1>2. reads.fill + writes.fill + One(r # None) + One(w # None) <= ncpu
  <2>1. CASE r # None /\ w # None
    <3>1. reads.fill + writes.fill + 2 <= ncpu
      BY <2>1, <1>1, Seats
    <3> QED  BY <3>1, <2>1, Fills, CoresCounted DEF One
  <2>2. CASE r # None /\ w = None
    <3>1. reads.fill + writes.fill + 1 <= ncpu
      BY <2>2, <1>1, Seats
    <3> QED  BY <3>1, <2>2, Fills, CoresCounted DEF One
  <2>3. CASE r = None /\ w # None
    <3>1. reads.fill + writes.fill + 1 <= ncpu
      BY <2>3, <1>1, Seats
    <3> QED  BY <3>1, <2>3, Fills, CoresCounted DEF One
  <2>4. CASE r = None /\ w = None
    BY <2>4, Seats, Fills, CoresCounted DEF One
  <2> QED  BY <2>1, <2>2, <2>3, <2>4
<1>3. /\ popR => reads.fill > 0
      /\ popW => writes.fill > 0
      /\ pull_valid_buffer => ~popR /\ ~popW /\ reads.fill + writes.fill + 2 <= ncpu
      /\ push_valid_buffer => reads.fill > 0 /\ writes.fill > 0
      /\ push_valid_buffer \in BOOLEAN /\ pull_valid_buffer \in BOOLEAN
  BY Fills DEF Allowed, QueueInv, i_empty
<1>4. unified.fill + One(push_valid_buffer) = reads.fill + writes.fill + One(pull_valid_buffer)
  BY DEF QueueInv, BooksBalance
<1>5. (r # None => reads.fill < ncpu) /\ (w # None => writes.fill < ncpu)
  BY <1>2, Fills, CoresCounted DEF One
<1>6. push_valid_out(r, w) => unified.fill < ncpu
  BY <1>1, <1>2, <1>3, <1>4, Fills, CoresCounted DEF One, push_valid_out
<1>7. pull_valid_out(popR, popW) => unified.fill > 0
  BY <1>3, <1>4, Fills DEF One, pull_valid_out
<1> QED  BY <1>2, <1>3, <1>5, <1>6, <1>7, Fills, CoresCounted DEF FitsAndFinds, i_full, i_empty

\* The counts of reads and of writes move by their own pushes and pulls.
LEMMA FillsAfter ==
  ASSUME QueueInv, NEW r \in Cpus \cup {None}, NEW w \in Cpus \cup {None},
         NEW popR \in BOOLEAN, NEW popW \in BOOLEAN, Edge(r, w, popR, popW)
  PROVE  /\ reads'.fill = reads.fill + One(r # None) - One(popR)
         /\ writes'.fill = writes.fill + One(w # None) - One(popW)
<1>0. Allowed(r, w, popR, popW)
  BY DEF Edge
<1>1. reads'.fill = reads.fill + One(r # None) - One(popR)
  <2>1. reads' = FifoAfter(reads, r # None, r, popR)
    BY DEF Edge
  <2>2. Sound(reads) /\ FitsAndFinds(reads, r # None, popR)
    BY <1>0, RoomFor DEF QueueInv, Tracks
  <2>3. FifoAfter(reads, r # None, r, popR).fill = reads.fill + One(r # None) - One(popR)
    BY <2>2, FifoStep
  <2> QED  BY <2>1, <2>3
<1>2. writes'.fill = writes.fill + One(w # None) - One(popW)
  <2>1. writes' = FifoAfter(writes, w # None, w, popW)
    BY DEF Edge
  <2>2. Sound(writes) /\ FitsAndFinds(writes, w # None, popW)
    BY <1>0, RoomFor DEF QueueInv, Tracks
  <2>3. FifoAfter(writes, w # None, w, popW).fill = writes.fill + One(w # None) - One(popW)
    BY <2>2, FifoStep
  <2> QED  BY <2>1, <2>3
<1> QED  BY <1>1, <1>2

\* The common queue moves by one push and one pull an edge, whatever the cores do.
LEMMA UnifiedStep ==
  ASSUME QueueInv, NEW r \in Cpus \cup {None}, NEW w \in Cpus \cup {None},
         NEW popR \in BOOLEAN, NEW popW \in BOOLEAN, Edge(r, w, popR, popW)
  PROVE  LET x == One(pull_valid_out(popR, popW)) IN
         /\ Sound(unified')
         /\ unified'.fill = unified.fill + One(push_valid_out(r, w)) - x
         /\ \A n \in 1 .. unified'.fill :
              Contents(unified')[n] =
                IF n + x <= unified.fill THEN Contents(unified)[n + x] ELSE push_data_out(r, w)
<1> DEFINE d == push_data_out(r, w)
           q == pull_valid_out(popR, popW)
<1>1. push_valid_buffer \in BOOLEAN /\ pull_valid_buffer \in BOOLEAN
  BY DEF QueueInv
<1>2. d \in Cpus \cup {None} /\ q \in BOOLEAN /\ ((d # None) <=> push_valid_out(r, w))
  BY <1>1 DEF QueueInv, push_valid_out, push_data_out, pull_valid_out
<1>3. unified' = FifoAfter(unified, d # None, d, q)
  BY <1>2 DEF Edge, FifoAfter
<1>4. FitsAndFinds(unified, d # None, q)
  BY <1>2, RoomFor DEF FitsAndFinds, Edge
<1>5. One(d # None) = One(push_valid_out(r, w))
  BY <1>2 DEF One
<1> HIDE DEF d, q
<1>6. LET g == FifoAfter(unified, d # None, d, q) IN
      /\ Sound(g)
      /\ g.fill = unified.fill + One(d # None) - One(q)
      /\ \A n \in 1 .. g.fill :
           Contents(g)[n] = IF n + One(q) <= unified.fill THEN Contents(unified)[n + One(q)] ELSE d
  BY <1>2, <1>4, FifoStep DEF QueueInv
<1> QED  BY <1>3, <1>5, <1>6 DEF d, q

\* The unifier feeds one queue: the count moves by one push and one pull.
\* A clock edge preserves the invariant.
LEMMA EdgeKeeps ==
  ASSUME QueueInv, NEW r \in Cpus \cup {None}, NEW w \in Cpus \cup {None},
         NEW popR \in BOOLEAN, NEW popW \in BOOLEAN, Edge(r, w, popR, popW)
  PROVE  QueueInv'
<1>0. Allowed(r, w, popR, popW)
  BY DEF Edge
<1>1. /\ r # None => r \in Cpus \ cpu_active_req
      /\ w # None => w \in Cpus \ cpu_active_req
      /\ r # None /\ w # None => r # w
      /\ push_valid_buffer => r = None /\ w = None
      /\ pull_valid_buffer => ~popR /\ ~popW
  BY <1>0 DEF Allowed, Pushed
<1>2. r \notin reading /\ w \notin writing
  BY <1>1, CpuAssumption DEF cpu_active_req, QueueInv, Tracks
<1>3. Tracks(reads, reading)'
  <2>1. Tracks(FifoAfter(reads, r # None, r, popR),
               VectorAfter(reading, r # None, r, popR, rd_data(reads)))
    <3>1. FitsAndFinds(reads, r # None, popR)
      BY <1>0, RoomFor
    <3>2. Tracks(reads, reading)
      BY DEF QueueInv
    <3> QED  BY <1>2, <3>1, <3>2, TrackStep
  <2>2. /\ reads' = FifoAfter(reads, r # None, r, popR)
        /\ reading' = VectorAfter(reading, r # None, r, popR, rd_data(reads))
    BY DEF Edge
  <2> QED  BY <2>1, <2>2
<1>4. Tracks(writes, writing)'
  <2>1. Tracks(FifoAfter(writes, w # None, w, popW),
               VectorAfter(writing, w # None, w, popW, rd_data(writes)))
    <3>1. FitsAndFinds(writes, w # None, popW)
      BY <1>0, RoomFor
    <3>2. Tracks(writes, writing)
      BY DEF QueueInv
    <3> QED  BY <1>2, <3>1, <3>2, TrackStep
  <2>2. /\ writes' = FifoAfter(writes, w # None, w, popW)
        /\ writing' = VectorAfter(writing, w # None, w, popW, rd_data(writes))
    BY DEF Edge
  <2> QED  BY <2>1, <2>2
<1>5. reads'.fill = reads.fill + One(r # None) - One(popR)
  BY FillsAfter
<1>6. writes'.fill = writes.fill + One(w # None) - One(popW)
  BY FillsAfter
<1>7. /\ push_valid_buffer \in BOOLEAN /\ pull_valid_buffer \in BOOLEAN
      /\ push_valid_buffer' = (r # None /\ w # None)
      /\ push_data_buffer' = IF r # None /\ w # None THEN r ELSE push_data_buffer
      /\ pull_valid_buffer' = (popR /\ popW)
  BY DEF Edge, UnifierEdge, QueueInv
<1>8. /\ Sound(unified)'
      /\ unified'.fill = unified.fill + One(push_valid_out(r, w)) - One(pull_valid_out(popR, popW))
  BY UnifiedStep
<1>9. BooksBalance'
  <2>1. unified.fill + One(push_valid_buffer) = reads.fill + writes.fill + One(pull_valid_buffer)
    BY DEF QueueInv, BooksBalance
  <2>2. /\ push_valid_buffer' \in BOOLEAN /\ pull_valid_buffer' \in BOOLEAN
        /\ push_valid_buffer' <=> (r # None /\ w # None)
        /\ pull_valid_buffer' <=> (popR /\ popW)
    BY <1>7
  <2>3. One(push_valid_out(r, w)) + One(push_valid_buffer')
          = One(push_valid_buffer) + One(r # None) + One(w # None)
    BY <2>2, <1>1, <1>7 DEF One, push_valid_out
  <2>4. One(pull_valid_out(popR, popW)) + One(pull_valid_buffer')
          = One(pull_valid_buffer) + One(popR) + One(popW)
    BY <2>2, <1>1, <1>7 DEF One, pull_valid_out
  <2>5. \A b \in {push_valid_buffer', pull_valid_buffer', push_valid_buffer, pull_valid_buffer,
                   r # None, w # None, popR, popW, push_valid_out(r, w),
                   pull_valid_out(popR, popW)} : One(b) \in Int
    BY DEF One
  <2> QED  BY <1>5, <1>6, <1>8, <2>1, <2>3, <2>4, <2>5, Fills DEF BooksBalance
<1>10. (reading \cap writing = {})'
  BY <1>1 DEF Edge, QueueInv, VectorAfter, cpu_active_req
<1>11. push_data_buffer' \in Cpus \cup {None}
  BY <1>7 DEF QueueInv
<1>12. ASSUME push_valid_buffer'
       PROVE  push_data_buffer' # None /\ ~i_empty(reads)' /\ ~i_empty(writes)'
  <2>1. r # None /\ w # None
    BY <1>7, <1>12
  <2>2. (popR => reads.fill > 0) /\ (popW => writes.fill > 0)
    BY <1>0, Fills DEF Allowed, i_empty
  <2> QED  BY <2>1, <2>2, <1>5, <1>6, <1>7, Fills DEF One, i_empty
<1>13. ASSUME pull_valid_buffer' PROVE reads'.fill + writes'.fill + 2 <= ncpu
  <2>1. popR /\ popW
    BY <1>7, <1>13
  <2>2. reads.fill + writes.fill + One(r # None) + One(w # None) <= ncpu
    BY <1>0, RoomFor
  <2> QED  BY <2>1, <2>2, <1>5, <1>6, Fills, CoresCounted DEF One
<1>14. push_valid_buffer' \in BOOLEAN /\ pull_valid_buffer' \in BOOLEAN
  BY <1>7
<1> QED  BY <1>3, <1>4, <1>8, <1>9, <1>10, <1>11, <1>12, <1>13, <1>14 DEF QueueInv

\* So does the reset, which leaves the memories as they are.
LEMMA ResetKeeps == QueueInv /\ Reset => QueueInv'
<1> SUFFICES ASSUME QueueInv, Reset PROVE QueueInv'
  OBVIOUS
<1>1. ASSUME NEW f, Sound(f)
      PROVE  Sound(FifoReset(f)) /\ Tracks(FifoReset(f), {}) /\ FifoReset(f).fill = 0
  <2>1. f \in Fifo /\ 0 \in 0 .. ncpu - 1 /\ 0 \in 0 .. ncpu
    BY <1>1, CoresCounted DEF Sound
  <2>2. FifoReset(f) \in Fifo
    BY <2>1 DEF Fifo, FifoReset
  <2>3. FifoReset(f).fill = 0 /\ FifoReset(f).head = 0 /\ FifoReset(f).tail = 0
    BY <2>1 DEF Fifo, FifoReset
  <2> QED  BY <2>2, <2>3, CoresCounted DEF Sound, Wrapped, Tracks, Distinct, Members
<1>2. Tracks(reads, reading)' /\ Tracks(writes, writing)' /\ Sound(unified)'
  <2>1. /\ reads' = FifoReset(reads) /\ writes' = FifoReset(writes)
        /\ unified' = FifoReset(unified) /\ reading' = {} /\ writing' = {}
    BY DEF Reset
  <2> QED  BY <1>1, <2>1 DEF QueueInv, Tracks
<1>3. reads'.fill = 0 /\ writes'.fill = 0 /\ unified'.fill = 0
  BY <1>1 DEF Reset, QueueInv, Tracks
<1>4. BooksBalance'
  <2>1. One(push_valid_buffer') = 0 /\ One(pull_valid_buffer') = 0
    BY DEF Reset, One
  <2> QED  BY <1>3, <2>1 DEF BooksBalance
<1>5. ~push_valid_buffer' /\ ~pull_valid_buffer' /\ push_data_buffer' \in Cpus \cup {None}
      /\ push_valid_buffer' \in BOOLEAN /\ pull_valid_buffer' \in BOOLEAN
      /\ (reading \cap writing = {})'
  BY DEF Reset, QueueInv
<1> QED  BY <1>2, <1>4, <1>5 DEF QueueInv

\* The queues are empty at first.
LEMMA InitKeeps == Init => QueueInv
<1> SUFFICES ASSUME Init PROVE QueueInv
  OBVIOUS
<1>1. Sound(EmptyFifo) /\ EmptyFifo.fill = 0
  BY CoresCounted DEF EmptyFifo, Sound, Fifo, Wrapped
<1>2. Tracks(EmptyFifo, {})
  BY <1>1 DEF Tracks, Distinct, Members
<1>3. BooksBalance
  <2>1. One(push_valid_buffer) = 0 /\ One(pull_valid_buffer) = 0
    BY DEF Init, One
  <2> QED  BY <1>1, <2>1 DEF BooksBalance, Init
<1>4. ~push_valid_buffer /\ ~pull_valid_buffer /\ push_data_buffer \in Cpus \cup {None}
      /\ push_valid_buffer \in BOOLEAN /\ pull_valid_buffer \in BOOLEAN
      /\ reading \cap writing = {}
  BY DEF Init
<1> QED  BY <1>1, <1>2, <1>3, <1>4 DEF QueueInv, Init

-----------------------------------------------------------------------------
\* A core, or the one-hot vector of none.
Name == Cpus \cup {None}

\* The n-th access of the backlog, and the backlog is the history.
Queued(n) ==
  IF n + One(pull_valid_buffer) <= unified.fill
    THEN Contents(unified)[n + One(pull_valid_buffer)]
    ELSE push_data_buffer

OrderInv ==
  /\ order \in Seq(Name)
  /\ Len(order) = reads.fill + writes.fill
  /\ \A n \in 1 .. Len(order) : order[n] = Queued(n)

\* What a queue holds is a sequence of its fill count.
LEMMA ContentsSeq ==
  ASSUME NEW f, Sound(f)
  PROVE  Contents(f) \in Seq(Name) /\ Len(Contents(f)) = f.fill
<1>1. /\ f.mem \in [0 .. ncpu - 1 -> Name] /\ f.tail \in 0 .. ncpu - 1 /\ f.fill \in 0 .. ncpu
  BY DEF Sound, Fifo, Name
<1>2. ASSUME NEW n \in 1 .. f.fill PROVE f.mem[Wrapped(f.tail + n - 1)] \in Name
  <2>1. Wrapped(f.tail + n - 1) \in 0 .. ncpu - 1
    BY <1>1, CoresCounted DEF Wrapped
  <2> QED  BY <2>1, <1>1
<1>3. f.fill \in Nat /\ Contents(f) \in [1 .. f.fill -> Name]
  BY <1>1, <1>2, CoresCounted DEF Contents
<1> QED  BY <1>3

\* The history agrees with the backlog place by place, hence as a sequence.
LEMMA BacklogIsOrder ==
  ASSUME QueueInv, OrderInv
  PROVE  QueueExact
<1> DEFINE p == IF push_valid_buffer THEN <<push_data_buffer>> ELSE <<>>
           held == Contents(unified) \o p
<1>1. Contents(unified) \in Seq(Name) /\ Len(Contents(unified)) = unified.fill
  BY ContentsSeq DEF QueueInv
<1>2. /\ p \in Seq(Name) /\ Len(p) = One(push_valid_buffer)
      /\ \A i \in 1 .. Len(p) : p[i] = push_data_buffer
  <2>1. push_valid_buffer \in BOOLEAN /\ push_data_buffer \in Name
    BY DEF QueueInv, Name
  <2>2. CASE push_valid_buffer
    BY <2>1, <2>2 DEF One
  <2>3. CASE ~push_valid_buffer
    BY <2>3 DEF One
  <2> QED  BY <2>2, <2>3
<1>3. unified.fill + One(push_valid_buffer) = reads.fill + writes.fill + One(pull_valid_buffer)
  BY DEF QueueInv, BooksBalance
<1>4. One(push_valid_buffer) \in 0 .. 1 /\ One(pull_valid_buffer) \in 0 .. 1
  BY DEF One
<1> HIDE DEF p
<1>5. /\ held \in Seq(Name) /\ Len(held) = Len(order) + One(pull_valid_buffer)
      /\ \A i \in 1 .. Len(held) :
           held[i] = IF i <= unified.fill THEN Contents(unified)[i] ELSE push_data_buffer
  <2>1. /\ held \in Seq(Name) /\ Len(held) = unified.fill + One(push_valid_buffer)
        /\ \A i \in 1 .. unified.fill + One(push_valid_buffer) : held[i] =
             IF i <= unified.fill THEN Contents(unified)[i] ELSE p[i - unified.fill]
    <3>1. /\ held \in Seq(Name)
          /\ Len(held) = Len(Contents(unified)) + Len(p)
          /\ \A i \in 1 .. Len(Contents(unified)) + Len(p) : held[i] =
               IF i <= Len(Contents(unified)) THEN Contents(unified)[i]
                                              ELSE p[i - Len(Contents(unified))]
      BY <1>1, <1>2, ConcatProperties, Zenon
    <3> HIDE DEF held
    <3> QED  BY <3>1, <1>1, <1>2
  <2>2. \A i \in 1 .. Len(held) : ~(i <= unified.fill) => i - unified.fill \in 1 .. Len(p)
    BY <2>1, <1>2, <1>4, Fills
  <2>3. Len(held) = Len(order) + One(pull_valid_buffer)
    BY <2>1, <1>3 DEF OrderInv
  <2> QED  BY <2>1, <2>2, <2>3, <1>2
<1> HIDE DEF held
<1>6. CASE pull_valid_buffer
  <2>1. One(pull_valid_buffer) = 1 /\ held # <<>>
    BY <1>5, <1>6, Fills DEF One, OrderInv
  <2>2. /\ Tail(held) \in Seq(Name) /\ Len(Tail(held)) = Len(order)
        /\ \A i \in 1 .. Len(order) : Tail(held)[i] = held[i + 1]
    BY <1>5, <2>1, HeadTailProperties, Fills DEF OrderInv
  <2>3. ASSUME NEW i \in 1 .. Len(order) PROVE Tail(held)[i] = order[i]
    <3>1. i + 1 \in 1 .. Len(held)
      BY <1>5, <2>1, Fills DEF OrderInv
    <3> QED  BY <3>1, <2>1, <2>2, <1>5 DEF OrderInv, Queued
  <2>4. Tail(held) = order
    BY <2>2, <2>3, SeqEqual DEF OrderInv
  <2> QED  BY <2>4, <1>6 DEF QueueExact, Backlog, held, p
<1>7. CASE ~pull_valid_buffer
  <2>1. One(pull_valid_buffer) = 0 /\ Len(held) = Len(order)
    BY <1>5, <1>7, Fills DEF One, OrderInv
  <2>2. \A i \in 1 .. Len(held) : held[i] = order[i]
    BY <2>1, <1>5, Fills DEF OrderInv, Queued
  <2>3. held = order
    BY <2>1, <2>2, <1>5, SeqEqual DEF OrderInv
  <2> QED  BY <2>3, <1>7 DEF QueueExact, Backlog, held, p
<1> QED  BY <1>6, <1>7

\* The history after an edge, place by place.
LEMMA OrderAfter ==
  ASSUME QueueInv, OrderInv, NEW r \in Name, NEW w \in Name,
         NEW popR \in BOOLEAN, NEW popW \in BOOLEAN, Edge(r, w, popR, popW)
  PROVE  LET k == Pulls(popR, popW)
             left == Len(order) - k
             a == Arrivals(r, w)
         IN  /\ k = One(popR) + One(popW) /\ left \in Nat
             /\ a \in Seq(Name) /\ Len(a) = One(r # None) + One(w # None)
             /\ order' \in Seq(Name) /\ Len(order') = left + Len(a)
             /\ \A n \in 1 .. Len(order') :
                  order'[n] = IF n <= left THEN order[n + k] ELSE a[n - left]
<1> DEFINE k == Pulls(popR, popW)
           left == Len(order) - k
           a == Arrivals(r, w)
           kept == SubSeq(order, k + 1, Len(order))
<1>1. k = One(popR) + One(popW) /\ k \in 0 .. 2
  BY DEF Pulls, One
<1>2. left \in Nat
  <2>1. (popR => reads.fill > 0) /\ (popW => writes.fill > 0)
    BY Fills DEF Edge, Allowed, i_empty
  <2> QED  BY <2>1, <1>1, Fills DEF OrderInv, One
<1>3. a \in Seq(Name) /\ Len(a) = One(r # None) + One(w # None)
  <2> DEFINE u == IF w # None THEN <<w>> ELSE <<>>
             v == IF r # None THEN <<r>> ELSE <<>>
  <2>1. u \in Seq(Name) /\ Len(u) = One(w # None)
    <3>1. CASE w # None
      BY <3>1 DEF One
    <3>2. CASE w = None
      BY <3>2 DEF One
    <3> QED  BY <3>1, <3>2
  <2>2. v \in Seq(Name) /\ Len(v) = One(r # None)
    <3>1. CASE r # None
      BY <3>1 DEF One
    <3>2. CASE r = None
      BY <3>2 DEF One
    <3> QED  BY <3>1, <3>2
  <2> HIDE DEF u, v
  <2>3. u \o v \in Seq(Name) /\ Len(u \o v) = Len(u) + Len(v)
    BY <2>1, <2>2, ConcatProperties, Zenon
  <2>4. One(r # None) \in Int /\ One(w # None) \in Int
    BY DEF One
  <2>5. a = u \o v
    BY DEF Arrivals, u, v
  <2> QED  BY <2>1, <2>2, <2>3, <2>4, <2>5
<1>4. /\ kept \in Seq(Name) /\ Len(kept) = left
      /\ \A n \in 1 .. left : kept[n] = order[n + k]
  <2>1. order \in Seq(Name) /\ Len(order) \in Nat
    BY DEF OrderInv
  <2>2. \A i \in k + 1 .. Len(order) : order[i] \in Name
    BY <2>1, <1>1, ElementOfSeq
  <2> HIDE DEF k
  <2>3. /\ kept \in Seq(Name)
        /\ Len(kept) = IF k + 1 <= Len(order) THEN Len(order) - (k + 1) + 1 ELSE 0
        /\ \A i \in 1 .. Len(order) - (k + 1) + 1 : kept[i] = order[(k + 1) + i - 1]
    BY <2>1, <2>2, <1>1, SubSeqProperties
  <2> HIDE DEF kept
  <2>4. k \in Int /\ Len(order) \in Int /\ Len(order) - k >= 0
    BY <2>1, <1>1, <1>2
  <2>5. Len(kept) = left
    BY <2>3, <2>4
  <2>6. ASSUME NEW n \in 1 .. left PROVE kept[n] = order[n + k]
    <3>1. n \in 1 .. Len(order) - (k + 1) + 1 /\ (k + 1) + n - 1 = n + k
      BY <2>4
    <3> QED  BY <2>3, <3>1
  <2> QED  BY <2>3, <2>5, <2>6
<1>5. order' = kept \o a
  BY DEF Edge
<1> HIDE DEF k, a, kept
<1>6. /\ order' \in Seq(Name) /\ Len(order') = left + Len(a)
      /\ \A n \in 1 .. Len(order') :
           order'[n] = IF n <= left THEN kept[n] ELSE a[n - left]
  <2>1. /\ kept \o a \in Seq(Name) /\ Len(kept \o a) = Len(kept) + Len(a)
        /\ \A n \in 1 .. Len(kept) + Len(a) :
             (kept \o a)[n] = IF n <= Len(kept) THEN kept[n] ELSE a[n - Len(kept)]
    BY <1>3, <1>4, ConcatProperties, Zenon
  <2> QED  BY <2>1, <1>4, <1>5
<1>7. \A n \in 1 .. Len(order') : order'[n] = IF n <= left THEN order[n + k] ELSE a[n - left]
  BY <1>2, <1>4, <1>6
<1> QED  BY <1>1, <1>2, <1>3, <1>6, <1>7 DEF k, a

\* The accesses that begin at an edge: the write before the read.
LEMMA ArrivalsAre ==
  ASSUME NEW r \in Name, NEW w \in Name
  PROVE  \A n \in 1 .. Len(Arrivals(r, w)) :
           /\ n = 1 /\ w # None => Arrivals(r, w)[n] = w
           /\ n = 1 /\ w = None => r # None /\ Arrivals(r, w)[n] = r
           /\ n # 1 => n = 2 /\ w # None /\ r # None /\ Arrivals(r, w)[n] = r
<1>1. CASE w # None /\ r # None
  BY <1>1 DEF Arrivals
<1>2. CASE w # None /\ r = None
  BY <1>2 DEF Arrivals
<1>3. CASE w = None /\ r # None
  BY <1>3 DEF Arrivals
<1>4. CASE w = None /\ r = None
  BY <1>4 DEF Arrivals
<1> QED  BY <1>1, <1>2, <1>3, <1>4

\* The backlog and the history change alike.  A push that is put off is made good
\* before the next one, and a pull that is put off hides the place it will free.
LEMMA OrderKeeps ==
  ASSUME QueueInv, OrderInv, NEW r \in Name, NEW w \in Name,
         NEW popR \in BOOLEAN, NEW popW \in BOOLEAN, Edge(r, w, popR, popW)
  PROVE  OrderInv'
<1> DEFINE k == Pulls(popR, popW)
           left == Len(order) - k
           a == Arrivals(r, w)
           x == One(pull_valid_out(popR, popW))
           y == One(push_valid_out(r, w))
           d == push_data_out(r, w)
           p == One(push_valid_buffer)
           q == One(pull_valid_buffer)
           q1 == One(pull_valid_buffer')
<1>1. /\ k = One(popR) + One(popW) /\ left \in Nat
      /\ Len(a) = One(r # None) + One(w # None)
      /\ order' \in Seq(Name) /\ Len(order') = left + Len(a)
      /\ \A n \in 1 .. Len(order') : order'[n] = IF n <= left THEN order[n + k] ELSE a[n - left]
  BY OrderAfter
<1>2. /\ unified'.fill = unified.fill + y - x
      /\ \A n \in 1 .. unified'.fill :
           Contents(unified')[n] = IF n + x <= unified.fill THEN Contents(unified)[n + x] ELSE d
  BY UnifiedStep DEF Name
<1>3. QueueInv'
  BY EdgeKeeps DEF Name
<1>4. Len(order) = unified.fill + p - q /\ Len(order) = reads.fill + writes.fill
  BY Fills DEF QueueInv, OrderInv, BooksBalance, One
<1>5. Len(order') = reads'.fill + writes'.fill
  <2>1. /\ reads'.fill = reads.fill + One(r # None) - One(popR)
        /\ writes'.fill = writes.fill + One(w # None) - One(popW)
    BY FillsAfter DEF Name
  <2>2. /\ One(r # None) \in Int /\ One(w # None) \in Int
        /\ One(popR) \in Int /\ One(popW) \in Int
    BY DEF One
  <2>3. Len(order') = Len(order) - (One(popR) + One(popW)) + (One(r # None) + One(w # None))
    BY <1>1
  <2>4. Len(order) = reads.fill + writes.fill /\ reads.fill \in Int /\ writes.fill \in Int
    BY Fills DEF OrderInv
  <2>5. Len(order') = (reads.fill + One(r # None) - One(popR))
                      + (writes.fill + One(w # None) - One(popW))
    BY ONLY <2>2, <2>3, <2>4, SMTT(30)
  <2> QED  BY ONLY <2>1, <2>5
<1>6. /\ push_valid_buffer \in BOOLEAN /\ pull_valid_buffer \in BOOLEAN
      /\ push_valid_buffer => r = None /\ w = None
      /\ pull_valid_buffer => ~popR /\ ~popW
      /\ push_data_buffer' = IF r # None /\ w # None THEN r ELSE push_data_buffer
      /\ pull_valid_buffer' = (popR /\ popW)
  BY DEF Edge, UnifierEdge, QueueInv, Allowed, Pushed
<1>7. x + q1 = q + k
  BY <1>1, <1>6 DEF One, pull_valid_out
<1>8. /\ x \in 0 .. 1 /\ y \in 0 .. 1 /\ p \in 0 .. 1 /\ q \in 0 .. 1 /\ q1 \in 0 .. 1
      /\ k \in Nat /\ Len(a) \in Nat /\ Len(a) <= 2
  BY <1>1 DEF One
<1>9. /\ p = 1 => y = 1 /\ d = push_data_buffer
      /\ Len(a) > 0 => p = 0 /\ y = 1
  BY <1>1, <1>6 DEF One, push_valid_out, push_data_out
<1>10. /\ Len(a) > 0 => a[1] = d
       /\ Len(a) > 1 => a[2] = push_data_buffer'
  <2>1. push_valid_buffer => Len(a) = 0
    BY <1>1, <1>6 DEF One
  <2>2. Len(a) > 0 => 1 \in 1 .. Len(a)
    BY <1>8
  <2>3. Len(a) > 1 => 2 \in 1 .. Len(a)
    BY <1>8
  <2> QED  BY <2>1, <2>2, <2>3, <1>6, <1>8, ArrivalsAre DEF push_data_out
<1>11. ASSUME NEW n \in 1 .. Len(order') PROVE order'[n] = Queued(n)'
  <2>1. Queued(n)' = IF n + q1 <= unified'.fill THEN Contents(unified')[n + q1]
                                                ELSE push_data_buffer'
    BY DEF Queued
  <2>2. order'[n] = IF n <= left THEN order[n + k] ELSE a[n - left]
    BY <1>1
  <2>3. n + q1 \in 1 .. unified'.fill =>
          Contents(unified')[n + q1] = IF n + q1 + x <= unified.fill
                                       THEN Contents(unified)[n + q1 + x] ELSE d
    BY <1>2
  <2>4. n + k \in 1 .. Len(order) =>
          order[n + k] = IF n + k + q <= unified.fill THEN Contents(unified)[n + k + q]
                                                      ELSE push_data_buffer
    BY DEF OrderInv, Queued
  <2>5. /\ unified.fill \in Int /\ unified'.fill \in Int /\ Len(order) \in Int
        /\ n \in Int /\ 0 < n
    <3>1. unified'.fill \in Nat
      BY <1>3, CoresCounted DEF QueueInv, Sound, Fifo
    <3> QED  BY <3>1, Fills, <1>1 DEF OrderInv
  <2>6. n <= Len(order) - k + Len(a)
    <3>1. Len(order') = Len(order) - k + Len(a) /\ Len(order') \in Int
      BY <1>1
    <3> HIDE DEF k, a
    <3> QED  BY <3>1
  <2>7. unified'.fill = unified.fill + y - x
    BY <1>2
  <2> HIDE DEF k, a, x, y, d, p, q, q1
  <2>8. /\ n + k + q = n + q1 + x
        /\ n <= left =>
             /\ n + q1 \in 1 .. unified'.fill /\ n + q1 <= unified'.fill
             /\ n + k \in 1 .. Len(order)
             /\ n + k + q <= unified.fill \/ p = 1
        /\ ~(n <= left) => n - left \in 1 .. Len(a)
        /\ ~(n <= left) /\ n - left = 1 =>
             /\ n + q1 \in 1 .. unified'.fill /\ n + q1 <= unified'.fill
             /\ ~(n + q1 + x <= unified.fill)
        /\ ~(n <= left) /\ n - left = 2 => ~(n + q1 <= unified'.fill)
    <3>1. /\ k \in Int /\ Len(a) \in Int /\ p \in Int /\ q \in Int /\ q1 \in Int
          /\ x \in Int /\ y \in Int
          /\ 0 <= k /\ 0 <= p /\ p <= 1 /\ 0 <= q /\ q <= 1 /\ 0 <= q1 /\ q1 <= 1
          /\ 0 <= y /\ y <= 1
      BY <1>8
    <3>2. (p = 1 => y = 1) /\ (Len(a) > 0 => p = 0 /\ y = 1)
      BY <1>9
    <3>3. Len(order) = unified.fill + p - q
      BY <1>4
    <3> HIDE DEF left
    <3>4. PICK lo \in Int, u \in Int, v \in Int, m \in Int, b \in Int, i \in Int,
               e \in Int, f \in Int, g \in Int, h \in Int, o \in Int :
            /\ lo = Len(order) /\ u = unified.fill /\ v = unified'.fill /\ m = Len(a)
            /\ b = k /\ i = n /\ e = p /\ f = q /\ g = q1 /\ h = x /\ o = y
      BY <2>5, <3>1, Zenon
    <3>5. /\ lo = u + e - f /\ v = u + o - h /\ h + g = f + b
          /\ 0 <= b /\ 0 <= e /\ e <= 1 /\ 0 <= f /\ f <= 1 /\ 0 <= g /\ g <= 1
          /\ 0 <= o /\ o <= 1 /\ (e = 1 => o = 1) /\ (m > 0 => e = 0 /\ o = 1)
          /\ 0 < i /\ i <= lo - b + m
      BY ONLY <3>1, <3>2, <3>3, <3>4, <2>5, <2>6, <2>7, <1>7
    <3>6. /\ i + b + f = i + g + h
          /\ i <= lo - b =>
               /\ i + g \in 1 .. v /\ i + g <= v /\ i + b \in 1 .. lo
               /\ i + b + f <= u \/ e = 1
          /\ ~(i <= lo - b) => i - (lo - b) \in 1 .. m
          /\ ~(i <= lo - b) /\ i - (lo - b) = 1 =>
               i + g \in 1 .. v /\ i + g <= v /\ ~(i + g + h <= u)
          /\ ~(i <= lo - b) /\ i - (lo - b) = 2 => ~(i + g <= v)
      BY ONLY <3>5
    <3>7. left = lo - b
      BY <3>4 DEF left
    <3> QED  BY ONLY <3>4, <3>6, <3>7
  <2> HIDE DEF left
  <2>9. CASE n <= left
    <3>1. order'[n] = order[n + k]
      BY <2>2, <2>9
    <3>2. ~(n + k + q <= unified.fill) => d = push_data_buffer
      BY <2>8, <2>9, <1>9
    <3>3. Queued(n)' = IF n + k + q <= unified.fill THEN Contents(unified)[n + k + q] ELSE d
      <4>1. /\ n + q1 \in 1 .. unified'.fill /\ n + q1 <= unified'.fill
            /\ n + k + q = n + q1 + x
        BY <2>8, <2>9, Zenon
      <4> QED  BY <4>1, <2>1, <2>3
    <3> QED  BY <2>4, <2>8, <2>9, <3>1, <3>2, <3>3
  <2>10. CASE ~(n <= left)
    <3>1. order'[n] = a[n - left] /\ n - left \in 1 .. Len(a)
      BY <2>2, <2>8, <2>10
    <3>2. CASE n - left = 1
      <4>1. Queued(n)' = d
        <5>1. /\ n + q1 <= unified'.fill /\ n + q1 \in 1 .. unified'.fill
              /\ ~(n + q1 + x <= unified.fill)
          BY <2>8, <2>10, <3>2, Zenon
        <5> QED  BY <5>1, <2>1, <2>3
      <4>2. a[1] = d
        BY <3>1, <3>2, <1>8, <1>10
      <4> QED  BY <4>1, <4>2, <3>1, <3>2
    <3>3. CASE n - left = 2
      <4>1. Queued(n)' = push_data_buffer'
        BY <2>1, <2>8, <2>10, <3>3
      <4>2. a[2] = push_data_buffer'
        BY <3>1, <3>3, <1>8, <1>10
      <4> QED  BY <4>1, <4>2, <3>1, <3>3
    <3> QED  BY <3>1, <3>2, <3>3, <1>8
  <2> QED  BY <2>9, <2>10
<1> QED  BY <1>1, <1>5, <1>11 DEF OrderInv

-----------------------------------------------------------------------------
\* When accesses finish in turn the history names waiting cores, each once.
Turns ==
  inorder =>
    /\ \A n \in 1 .. Len(order) : order[n] \in cpu_active_req
    /\ \A i, j \in 1 .. Len(order) : order[i] = order[j] => i = j

\* Who is pulled in turn is gone from the history, and nobody else is.
LEMMA TurnsKeep ==
  ASSUME QueueInv, OrderInv, Turns, NEW r \in Name, NEW w \in Name,
         NEW popR \in BOOLEAN, NEW popW \in BOOLEAN, Edge(r, w, popR, popW)
  PROVE  Turns'
<1> SUFFICES ASSUME inorder'
             PROVE  /\ \A n \in 1 .. Len(order') : order'[n] \in cpu_active_req'
                    /\ \A i, j \in 1 .. Len(order') : order'[i] = order'[j] => i = j
  BY DEF Turns
<1> DEFINE k == Pulls(popR, popW)
           left == Len(order) - k
           a == Arrivals(r, w)
           Z == Pulled(popR, popW)
<1>1. /\ k = One(popR) + One(popW) /\ left \in Nat
      /\ Len(a) = One(r # None) + One(w # None) /\ Len(order') = left + Len(a)
      /\ \A n \in 1 .. Len(order') : order'[n] = IF n <= left THEN order[n + k] ELSE a[n - left]
  BY OrderAfter
<1>2. /\ \A n \in 1 .. Len(order) : order[n] \in cpu_active_req
      /\ \A i, j \in 1 .. Len(order) : order[i] = order[j] => i = j
      /\ \A n \in 1 .. k : order[n] \in Z
      /\ Pushed(r, w) \cap cpu_active_req = {}
      /\ r = w => r = None
      /\ Len(order) \in Nat
  BY DEF Turns, Edge, Allowed, OrderInv
<1>3. k \in 0 .. 2 /\ Len(a) \in 0 .. 2
  BY <1>1 DEF One
<1>4. ASSUME NEW n \in 1 .. Len(order), n > k PROVE order[n] \notin Z
  <2>1. CASE k = 0
    <3>1. Z = {}
      BY <2>1, <1>1 DEF Pulled, One
    <3> QED  BY <3>1
  <2>2. CASE k = 1
    <3>1. (popR \/ popW) /\ ~(popR /\ popW)
      BY <2>2 DEF Pulls
    <3>2. Z = {rd_data(reads)} \/ Z = {rd_data(writes)}
      BY <3>1 DEF Pulled
    <3>3. PICK z : Z = {z}
      BY <3>2, Zenon
    <3>4. 1 \in 1 .. k /\ 1 \in 1 .. Len(order) /\ n # 1
      BY <2>2, <1>2, <1>4
    <3> HIDE DEF Z, k
    <3> QED  BY <3>3, <3>4, <1>2
  <2>3. CASE k = 2
    <3>1. Z = {rd_data(reads), rd_data(writes)}
      BY <2>3 DEF Pulled, Pulls
    <3>2. PICK y, z : Z = {y, z}
      BY <3>1, Zenon
    <3>3. /\ 1 \in 1 .. k /\ 2 \in 1 .. k
          /\ 1 \in 1 .. Len(order) /\ 2 \in 1 .. Len(order) /\ n # 1 /\ n # 2
      BY <2>3, <1>2, <1>4
    <3> HIDE DEF Z, k
    <3>4. order[1] # order[2] /\ order[1] \in {y, z} /\ order[2] \in {y, z}
      BY <3>2, <3>3, <1>2
    <3> QED  BY <3>2, <3>3, <3>4, <1>2
  <2> QED  BY <2>1, <2>2, <2>3, <1>3
<1>5. (cpu_active_req \ Z) \cup Pushed(r, w) \subseteq cpu_active_req'
  BY DEF Edge, VectorAfter, Pulled, Pushed, cpu_active_req
<1>6. \A n \in 1 .. Len(a) : a[n] \in Pushed(r, w)
  BY <1>3, ArrivalsAre DEF Pushed
<1>7. \A i, j \in 1 .. Len(a) : a[i] = a[j] => i = j
  BY <1>2, <1>3, ArrivalsAre
<1> HIDE DEF k, a, Z
<1>8. ASSUME NEW n \in 1 .. Len(order')
      PROVE  \/ /\ n <= left /\ n + k \in 1 .. Len(order) /\ n + k > k
                /\ order'[n] = order[n + k]
             \/ ~(n <= left) /\ n - left \in 1 .. Len(a) /\ order'[n] = a[n - left]
  <2>1. /\ n \in Nat /\ n > 0 /\ n <= left + Len(a) /\ left = Len(order) - k
        /\ order'[n] = IF n <= left THEN order[n + k] ELSE a[n - left]
    BY <1>1, <1>3
  <2>2. left \in Nat /\ k \in Nat /\ Len(a) \in Nat /\ Len(order) \in Nat
    BY <1>1, <1>2, <1>3
  <2> HIDE DEF left
  <2>3. CASE n <= left
    BY <2>1, <2>2, <2>3
  <2>4. CASE ~(n <= left)
    BY <2>1, <2>2, <2>4
  <2> QED  BY <2>3, <2>4
<1>9. ASSUME NEW n \in 1 .. Len(order') PROVE order'[n] \in cpu_active_req'
  BY <1>8, <1>2, <1>4, <1>5, <1>6
<1>10. ASSUME NEW i \in 1 .. Len(order'), NEW j \in 1 .. Len(order'), order'[i] = order'[j]
       PROVE  i = j
  <2>1. CASE i <= left /\ j <= left
    <3>1. i + k = j + k
      BY <2>1, <1>10, <1>8, <1>2
    <3> QED  BY <3>1, <1>1, <1>3
  <2>2. CASE ~(i <= left) /\ ~(j <= left)
    <3>1. i - left = j - left
      BY <2>2, <1>10, <1>8, <1>7
    <3> QED  BY <3>1, <1>1, <1>3
  <2>3. CASE i <= left /\ ~(j <= left)
    BY <2>3, <1>10, <1>8, <1>2, <1>6
  <2>4. CASE ~(i <= left) /\ j <= left
    BY <2>4, <1>10, <1>8, <1>2, <1>6
  <2> QED  BY <2>1, <2>2, <2>3, <2>4
<1> QED  BY <1>9, <1>10

\* While somebody waits the common queue holds an access, and its head is the
\* oldest one.
LEMMA TurnsBlame ==
  ASSUME QueueInv, OrderInv, Turns
  PROVE  BlamedIsQueued
<1> SUFFICES ASSUME inorder, ~pull_valid_buffer, NEW I \in cpu_active_req
             PROVE  rd_data(unified) \in cpu_active_req
  BY DEF BlamedIsQueued, QueueBlame
<1>1. reads.fill + writes.fill > 0
  <2>1. CASE I \in reading
    BY <2>1, Fills DEF QueueInv, Tracks, Members
  <2>2. CASE I \in writing
    BY <2>2, Fills DEF QueueInv, Tracks, Members
  <2> QED  BY <2>1, <2>2 DEF cpu_active_req
<1>2. One(pull_valid_buffer) = 0
  BY DEF One
<1>3. unified.fill > 0
  <2>1. unified.fill + One(push_valid_buffer) = reads.fill + writes.fill
    BY <1>2, Fills DEF QueueInv, BooksBalance
  <2>2. push_valid_buffer => reads.fill + writes.fill > 1
    BY Fills DEF QueueInv, i_empty
  <2>3. CASE push_valid_buffer
    BY <2>1, <2>2, <2>3, Fills DEF One
  <2>4. CASE ~push_valid_buffer
    BY <2>1, <2>4, <1>1, Fills DEF One
  <2> QED  BY <2>3, <2>4
<1>4. 1 \in 1 .. Len(order) /\ order[1] = Contents(unified)[1]
  BY <1>1, <1>2, <1>3, Fills DEF OrderInv, Queued
<1>5. rd_data(unified) = Contents(unified)[1]
  BY <1>3, OldestRead DEF QueueInv, i_empty
<1> QED  BY <1>4, <1>5 DEF Turns

\* For every number of cores the pointers, the counts and the vectors fit together.
THEOREM QueueInvariant == QueueSpec => []QueueInv
<1>1. Init => QueueInv
  BY InitKeeps
<1>2. QueueInv /\ [Next]_vars => QueueInv'
  <2> SUFFICES ASSUME QueueInv, [Next]_vars PROVE QueueInv'
    OBVIOUS
  <2>1. CASE Reset
    BY <2>1, ResetKeeps
  <2>2. ASSUME NEW r \in Cpus \cup {None}, NEW w \in Cpus \cup {None},
               NEW popR \in BOOLEAN, NEW popW \in BOOLEAN, Edge(r, w, popR, popW)
        PROVE  QueueInv'
    BY <2>2, EdgeKeeps
  <2>3. CASE UNCHANGED vars
    BY <2>3 DEF vars, queueVars, QueueInv, BooksBalance, i_empty
  <2> QED  BY <2>1, <2>2, <2>3 DEF Next
<1> QED  BY <1>1, <1>2, PTL DEF QueueSpec

\* Both facts about the history are invariant.
LEMMA OrderInvariant == QueueSpec => [](OrderInv /\ Turns)
<1> DEFINE J == OrderInv /\ Turns
<1>1. Init => J
  <2> SUFFICES ASSUME Init PROVE J
    OBVIOUS
  <2>1. EmptyFifo.fill = 0
    BY DEF EmptyFifo
  <2>2. order \in Seq(Name) /\ Len(order) = 0
    BY DEF Init
  <2> QED  BY <2>1, <2>2 DEF Init, OrderInv, Turns
<1>2. QueueInv /\ J /\ [Next]_vars => J'
  <2> SUFFICES ASSUME QueueInv, J, [Next]_vars PROVE J'
    OBVIOUS
  <2>1. CASE Reset
    <3>1. reads'.fill = 0 /\ writes'.fill = 0
      BY <2>1, Fills DEF Reset, FifoReset, QueueInv, Tracks, Sound, Fifo
    <3>2. order' \in Seq(Name) /\ Len(order') = 0
      BY <2>1 DEF Reset
    <3> QED  BY <3>1, <3>2 DEF OrderInv, Turns
  <2>2. ASSUME NEW r \in Cpus \cup {None}, NEW w \in Cpus \cup {None},
               NEW popR \in BOOLEAN, NEW popW \in BOOLEAN, Edge(r, w, popR, popW)
        PROVE  J'
    BY <2>2, OrderKeeps, TurnsKeep DEF Name
  <2>3. CASE UNCHANGED vars
    BY <2>3 DEF vars, queueVars, OrderInv, Turns, Queued, cpu_active_req
  <2> QED  BY <2>1, <2>2, <2>3 DEF Next
<1> QED  BY <1>1, <1>2, QueueInvariant, PTL DEF QueueSpec

\* The three fill counts never part (ahb_latency_and_contention.vhd:914-953).
THEOREM FillsBalance == QueueSpec => []BooksBalance
<1>1. QueueInv => BooksBalance
  BY DEF QueueInv
<1> QED  BY <1>1, QueueInvariant, PTL

\* Exactly the cores with a queued access count as waiting (cpu_vector.vhd:59-79).
THEOREM WaitingExact == QueueSpec => []ActiveExact
<1>1. QueueInv => ActiveExact
  BY DEF QueueInv, Tracks, Members, ActiveExact
<1> QED  BY <1>1, QueueInvariant, PTL

\* None of the three queues is written when full or read when empty, so that the
\* assertions at fifo_regs.vhd:104-109 are true for every number of cores.
THEOREM NoOverrun == QueueSpec => []FifoAssertions
<1>1. QueueInv => FifoAssertions
  <2> SUFFICES ASSUME QueueInv, NEW r \in Cpus \cup {None}, NEW w \in Cpus \cup {None},
                      NEW popR \in BOOLEAN, NEW popW \in BOOLEAN, Allowed(r, w, popR, popW)
               PROVE  /\ FitsAndFinds(reads, r # None, popR)
                      /\ FitsAndFinds(writes, w # None, popW)
                      /\ FitsAndFinds(unified, push_valid_out(r, w), pull_valid_out(popR, popW))
    BY DEF FifoAssertions
  <2> QED  BY RoomFor
<1> QED  BY <1>1, QueueInvariant, PTL

\* No pointer leaves its memory and no count exceeds the depth (fifo_regs.vhd:30-49).
THEOREM QueueTyped == QueueSpec => []QueueTypeOK
<1>1. QueueInv => QueueTypeOK
  BY DEF QueueInv, QueueTypeOK, Tracks, Sound
<1> QED  BY <1>1, QueueInvariant, PTL

\* The unifier makes one queue of two streams: nothing is lost, doubled or
\* overtaken (ahb_latency_and_contention.vhd:914-953).
THEOREM OneQueue == QueueSpec => []QueueExact
<1>1. QueueInv /\ OrderInv => QueueExact
  BY BacklogIsOrder
<1> QED  BY <1>1, QueueInvariant, OrderInvariant, PTL

\* Where accesses finish in the order in which they began, the core that is blamed
\* is itself waiting (ahb_latency_and_contention.vhd:524-538).
THEOREM BlameReachesWaiting == QueueSpec => []BlamedIsQueued
<1>1. QueueInv /\ OrderInv /\ Turns => BlamedIsQueued
  BY TurnsBlame
<1> QED  BY <1>1, QueueInvariant, OrderInvariant, PTL
=============================================================================
