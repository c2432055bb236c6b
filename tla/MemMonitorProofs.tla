-------------------------- MODULE MemMonitorProofs --------------------------
(***************************************************************************)
(* The memory contention monitor for any cores and any number of slots.    *)
(*                                                                         *)
(* Holds says of one ring that it is a given sequence of requests: each    *)
(* request has the slot that lies its position after the read pointer, and *)
(* unless a reset left something behind all others are free.  MonitorInv   *)
(* adds what the flags may say: serving is the oldest request at most, and *)
(* pending cores have a request.                                           *)
(***************************************************************************)
EXTENDS MemMonitor, Integers, SequenceTheorems, FiniteSetTheorems, TLAPS

N == MAX_PENDING_REQ
Num(b) == IF b THEN 1 ELSE 0
\* The slot that lies m after the read pointer.
At(r, m) == r.slots[(r.read_ptr + m) % N]

\* Counting modulo the size of a ring, up to once around.
LEMMA Modulus ==
  ASSUME NEW p \in Slots
  PROVE  /\ p \in Nat /\ N \in Nat /\ N > 1 /\ p % N = p /\ (p + N) % N = p
         /\ \A i \in 0 .. N - 1 : (p + i) % N = IF p + i < N THEN p + i ELSE p + i - N
<1> USE MonitorAssumption DEF N, Slots
<1>1. \A x \in 0 .. N - 1 : x % N = x
  OBVIOUS
<1>2. \A x \in N .. 2 * N - 1 : x % N = x - N
  OBVIOUS
<1> QED  BY <1>1, <1>2

\* A step of a pointer goes to the next place.
LEMMA Around ==
  ASSUME NEW p \in Slots, NEW i \in 0 .. N - 1
  PROVE  (p + i) % N \in Slots /\ Next1((p + i) % N) = (p + (i + 1)) % N
<1>1. (p + i) % N = IF p + i < N THEN p + i ELSE p + i - N
  BY Modulus
<1>2. p \in 0 .. N - 1 /\ N > 1 /\ N \in Nat /\ Slots = 0 .. N - 1
  BY Modulus, MonitorAssumption DEF Slots, N
<1>3. (p + i) % N \in 0 .. N - 1
  BY <1>1, <1>2
<1>4. Next1((p + i) % N) = (((p + i) % N) + 1) % N
  BY DEF Next1, N
<1>5. (((p + i) % N) + 1) % N = IF ((p + i) % N) + 1 < N THEN ((p + i) % N) + 1 ELSE ((p + i) % N) + 1 - N
  BY <1>2, <1>3, Modulus
<1>6. (p + (i + 1)) % N = IF p + (i + 1) < N THEN p + (i + 1) ELSE p + (i + 1) - N
  <2>1. CASE i + 1 < N
    <3>1. i + 1 \in 0 .. N - 1
      BY <2>1, <1>2
    <3> QED  BY <3>1, Modulus
  <2>2. CASE i + 1 = N
    <3>1. p + (i + 1) = p + N /\ p + (i + 1) - N = p
      BY <2>2, <1>2
    <3>2. (p + N) % N = p
      BY Modulus
    <3> QED  BY <3>1, <3>2, <1>2
  <2> QED  BY <2>1, <2>2, <1>2
<1> QED  BY <1>1, <1>2, <1>3, <1>4, <1>5, <1>6

\* Different places of a ring are different slots.
LEMMA Apart ==
  ASSUME NEW p \in Slots, NEW i \in 0 .. N - 1, NEW j \in 0 .. N - 1, i # j
  PROVE  (p + i) % N # (p + j) % N
  BY Modulus

\* Places may be counted from the next slot, too.
LEMMA Home ==
  ASSUME NEW p \in Slots
  PROVE  /\ (p + 0) % N = p /\ Next1(p) = (p + 1) % N /\ Next1(p) \in Slots
         /\ \A i \in 0 .. N - 1 : (Next1(p) + i) % N = (p + (1 + i)) % N
<1>1. p \in 0 .. N - 1 /\ N > 1 /\ N \in Nat /\ Slots = 0 .. N - 1
  BY Modulus, MonitorAssumption DEF Slots, N
<1>2. 0 \in 0 .. N - 1 /\ p + 0 < N /\ p + 0 = p
  BY <1>1
<1>3. (p + 0) % N = p
  BY <1>2, Modulus
<1>4. Next1(p) = (p + 1) % N /\ Next1(p) \in Slots
  <2>1. 1 \in 0 .. N - 1 /\ Next1(p) = (p + 1) % N
    BY <1>1 DEF Next1, N
  <2> QED  BY <2>1, Around
<1>5. Next1(p) = IF p + 1 < N THEN p + 1 ELSE 0
  BY <1>1, <1>4, Modulus
<1>6. ASSUME NEW i \in 0 .. N - 1 PROVE (Next1(p) + i) % N = (p + (1 + i)) % N
  <2>1. CASE p + 1 < N
    BY <2>1, <1>1, <1>5
  <2>2. CASE p + 1 = N
    <3>1. Next1(p) = 0 /\ 0 \in Slots
      BY <2>2, <1>1, <1>5
    <3>2. i % N = i /\ (i + N) % N = i
      BY <1>1, Modulus
    <3>3. Next1(p) + i = i /\ p + (1 + i) = i + N
      BY <2>2, <3>1, <1>1
    <3> QED  BY <3>2, <3>3
  <2> QED  BY <2>1, <2>2, <1>1
<1> QED  BY <1>3, <1>4, <1>6

\* Ring r is the requests f; if tidy, its other slots are free.
Holds(r, f, tidy) ==
  /\ f \in Seq(Cores) /\ Len(f) <= N
  /\ r.read_ptr \in Slots
  /\ r.numpending = Len(f) /\ r.full = (Len(f) = N)
  /\ r.write_ptr = (r.read_ptr + Len(f)) % N
  /\ \A m \in 0 .. Len(f) - 1 : At(r, m) = [pending |-> TRUE, qos |-> f[m + 1]]
  /\ tidy => \A m \in Len(f) .. N - 1 : ~At(r, m).pending

\* The requests f after one of core c came and, if out, the oldest left.
Queue(f, c, out) ==
  (IF out THEN Tail(f) ELSE f) \o (IF c = NoCore THEN <<>> ELSE <<c>>)

\* The outstanding requests after a clock, place by place.
LEMMA QueueStep ==
  ASSUME NEW f \in Seq(Cores), NEW c \in Cores \cup {NoCore}, NEW out \in BOOLEAN,
         out => f # <<>>
  PROVE  LET g == Queue(f, c, out) IN
         /\ g \in Seq(Cores)
         /\ Len(g) = Len(f) - Num(out) + Num(c # NoCore)
         /\ \A n \in 1 .. Len(g) :
              g[n] = IF n + Num(out) <= Len(f) THEN f[n + Num(out)] ELSE c
<1> DEFINE u == IF out THEN Tail(f) ELSE f
           v == IF c = NoCore THEN <<>> ELSE <<c>>
           x == Num(out)
           y == Num(c # NoCore)
<1>1. x \in 0 .. 1 /\ y \in 0 .. 1 /\ Len(f) \in Nat
  BY DEF Num
<1>2. u \in Seq(Cores) /\ Len(u) = Len(f) - x /\ \A n \in 1 .. Len(u) : u[n] = f[n + x]
  <2>1. CASE out
    <3>1. x = 1
      BY <2>1 DEF Num
    <3>2. /\ Tail(f) \in Seq(Cores) /\ Len(Tail(f)) = Len(f) - 1
          /\ \A n \in 1 .. Len(Tail(f)) : Tail(f)[n] = f[n + 1]
      BY <2>1, HeadTailProperties
    <3> QED  BY <2>1, <3>1, <3>2
  <2>2. CASE ~out
    BY <2>2, <1>1 DEF Num
  <2> QED  BY <2>1, <2>2
<1>3. v \in Seq(Cores) /\ Len(v) = y /\ \A n \in 1 .. Len(v) : v[n] = c
  <2>1. CASE c = NoCore
    BY <2>1 DEF Num
  <2>2. CASE c # NoCore
    BY <2>2 DEF Num
  <2> QED  BY <2>1, <2>2
<1> HIDE DEF u, v, x, y
<1>4. /\ u \o v \in Seq(Cores) /\ Len(u \o v) = Len(u) + Len(v)
      /\ \A n \in 1 .. Len(u) + Len(v) : (u \o v)[n] =
           IF n <= Len(u) THEN u[n] ELSE v[n - Len(u)]
  BY <1>2, <1>3, ConcatProperties, Zenon
<1>5. Queue(f, c, out) = u \o v
  BY DEF Queue, u, v
<1>6. ASSUME NEW n \in 1 .. Len(u \o v)
      PROVE  (u \o v)[n] = IF n + x <= Len(f) THEN f[n + x] ELSE c
  BY <1>1, <1>2, <1>3, <1>4
<1> QED  BY <1>1, <1>2, <1>3, <1>4, <1>5, <1>6 DEF x, y

\* The ring follows the outstanding requests through a clock with a request, an
\* answer or both, the exchange in a full ring included (mem_monitor.vhd:204-262).
LEMMA RingStep ==
  ASSUME NEW r, NEW f, NEW tidy \in BOOLEAN, Holds(r, f, tidy),
         NEW c \in Cores \cup {NoCore}, NEW out \in BOOLEAN, NEW freed,
         out => f # <<>> /\ ~freed.pending,
         c # NoCore => Len(f) < N \/ out
  PROVE  Holds(RingAfter(r, c, out, freed), Queue(f, c, out), tidy)
<1> DEFINE s == RingAfter(r, c, out, freed)
           g == Queue(f, c, out)
           x == Num(out)
           y == Num(c # NoCore)
           rp == r.read_ptr
<1>1. /\ f \in Seq(Cores) /\ Len(f) \in Nat /\ Len(f) <= N /\ rp \in Slots
      /\ r.numpending = Len(f) /\ r.full = (Len(f) = N)
      /\ r.write_ptr = (rp + Len(f)) % N
      /\ \A m \in 0 .. Len(f) - 1 : At(r, m) = [pending |-> TRUE, qos |-> f[m + 1]]
      /\ tidy => \A m \in Len(f) .. N - 1 : ~At(r, m).pending
  BY DEF Holds
<1>2. /\ g \in Seq(Cores) /\ Len(g) = Len(f) - x + y
      /\ \A n \in 1 .. Len(g) : g[n] = IF n + x <= Len(f) THEN f[n + x] ELSE c
  <2>1. out => f # <<>>
    OBVIOUS
  <2>2. /\ Queue(f, c, out) \in Seq(Cores)
        /\ Len(Queue(f, c, out)) = Len(f) - Num(out) + Num(c # NoCore)
        /\ \A n \in 1 .. Len(Queue(f, c, out)) : Queue(f, c, out)[n] =
             IF n + Num(out) <= Len(f) THEN f[n + Num(out)] ELSE c
    BY <1>1, <2>1, QueueStep
  <2> QED  BY <2>2
<1>3. N \in Nat /\ N > 1
  BY MonitorAssumption DEF N
<1>4. /\ x \in 0 .. 1 /\ y \in 0 .. 1 /\ (out <=> x = 1) /\ (c # NoCore <=> y = 1)
      /\ (x = 1 => Len(f) > 0) /\ (y = 1 => Len(f) < N \/ x = 1)
  BY <1>1 DEF Num
<1>5. Len(g) \in 0 .. N
  BY <1>1, <1>2, <1>3, <1>4
<1>6. s.read_ptr = (IF out THEN Next1(rp) ELSE rp) /\ s.read_ptr \in Slots
  BY <1>1, Home DEF RingAfter
<1>7. \A m \in 0 .. N - 1 : (s.read_ptr + m) % N = (rp + (x + m)) % N
  <2> SUFFICES ASSUME NEW m \in 0 .. N - 1
               PROVE  (s.read_ptr + m) % N = (rp + (x + m)) % N
    OBVIOUS
  <2>1. CASE out
    <3>1. (Next1(rp) + m) % N = (rp + (1 + m)) % N
      BY <1>1, Home
    <3>2. x = 1
      BY <2>1, <1>4
    <3> QED  BY <3>1, <3>2, <2>1, <1>6
  <2>2. CASE ~out
    BY <2>2, <1>1, <1>3, <1>4, <1>6
  <2> QED  BY <2>1, <2>2
<1> HIDE DEF s, g, x, y
<1>full. r.full <=> Len(f) = N
  BY <1>1
<1>home. /\ (rp + N) % N = rp /\ (rp + 0) % N = rp
         /\ \A j \in 0 .. N - 1 : j # 0 => (rp + j) % N # rp
  <2>1. (rp + N) % N = rp /\ rp % N = rp /\ (rp + 0) % N = rp /\ 0 \in 0 .. N - 1
    <3>1. (rp + 0) % N = rp
      BY <1>1, Home
    <3>2. (rp + N) % N = rp /\ rp % N = rp
      BY <1>1, Modulus
    <3> QED  BY <3>1, <3>2, <1>3
  <2>2. ASSUME NEW j \in 0 .. N - 1, j # 0 PROVE (rp + j) % N # (rp + 0) % N
    BY <2>1, <2>2, <1>1, Apart
  <2> QED  BY <2>1, <2>2
<1>tail. /\ Len(f) = N => r.write_ptr = rp
         /\ Len(f) < N => \A j \in 0 .. N - 1 : j # Len(f) => (rp + j) % N # r.write_ptr
  <2>1. ASSUME Len(f) = N PROVE r.write_ptr = rp
    BY <2>1, <1>1, <1>home
  <2>2. ASSUME Len(f) < N, NEW j \in 0 .. N - 1, j # Len(f)
        PROVE  (rp + j) % N # r.write_ptr
    <3>1. Len(f) \in 0 .. N - 1
      BY <2>2, <1>1, <1>3
    <3>2. (rp + j) % N # (rp + Len(f)) % N
      BY <3>1, <2>2, <1>1, Apart
    <3> QED  BY <3>2, <1>1
  <2> QED  BY <2>1, <2>2
\* The place an entry of the new queue has, counted from the old read pointer.
<1>8. ASSUME NEW m \in 0 .. N - 1
      PROVE  At(s, m) = IF out /\ (rp + (x + m)) % N = rp /\ ~(c # NoCore /\ r.full) THEN freed
                        ELSE IF c # NoCore /\ (rp + (x + m)) % N = r.write_ptr
                          THEN [pending |-> TRUE, qos |-> c]
                        ELSE r.slots[(rp + (x + m)) % N]
  <2>1. (s.read_ptr + m) % N \in Slots
    BY <1>6, Around
  <2>2. s.slots = SlotsAfter(r, c, out, freed)
    BY DEF s, RingAfter
  <2> QED  BY <2>1, <2>2, <1>7 DEF At, SlotsAfter
<1>9. ASSUME NEW m \in 0 .. Len(g) - 1
      PROVE  At(s, m) = [pending |-> TRUE, qos |-> g[m + 1]]
  <2>1. /\ m \in 0 .. N - 1 /\ x + m \in 0 .. N /\ m + 1 \in 1 .. Len(g)
        /\ (m + 1) + x = (x + m) + 1
    BY <1>3, <1>4, <1>5
  <2>2. CASE x + m < Len(f)
    <3>1. x + m \in 0 .. Len(f) - 1 /\ x + m \in 0 .. N - 1 /\ (x + m) + 1 <= Len(f)
      BY <2>1, <2>2, <1>1, <1>3
    <3>2. r.slots[(rp + (x + m)) % N] = [pending |-> TRUE, qos |-> g[m + 1]]
      BY <3>1, <2>1, <1>1, <1>2 DEF At
    <3>3. out => (rp + (x + m)) % N # rp
      <4>1. out => x + m # 0
        BY <2>1, <1>4
      <4> QED  BY <3>1, <4>1, <1>home
    <3>4. c # NoCore => (rp + (x + m)) % N # r.write_ptr
      <4>1. c # NoCore /\ ~(Len(f) < N) => x + m # 0
        BY <2>1, <1>4
      <4> QED  BY <3>1, <4>1, <2>2, <1>1, <1>3, <1>home, <1>tail
    <3> QED  BY <2>1, <3>2, <3>3, <3>4, <1>8
  <2>3. CASE ~(x + m < Len(f))
    <3>1. c # NoCore /\ x + m = Len(f) /\ g[m + 1] = c
      BY <2>1, <2>3, <1>1, <1>2, <1>4
    <3>2. (rp + (x + m)) % N = r.write_ptr
      BY <3>1, <1>1
    <3>3. out /\ ~r.full => (rp + (x + m)) % N # rp
      <4>1. out /\ ~r.full => Len(f) \in 0 .. N - 1 /\ Len(f) # 0
        BY <1>1, <1>3, <1>4, <1>full
      <4> QED  BY <3>1, <4>1, <1>home
    <3> QED  BY <2>1, <3>1, <3>2, <3>3, <1>8
  <2> QED  BY <2>2, <2>3
<1>10. ASSUME tidy, NEW m \in Len(g) .. N - 1 PROVE ~At(s, m).pending
  <2>1. m \in 0 .. N - 1 /\ x + m \in 0 .. N /\ x + m >= Len(f) + y
    BY <1>1, <1>2, <1>3, <1>4, <1>5
  <2>2. CASE x + m = N
    <3>1. out /\ (rp + (x + m)) % N = rp
      BY <2>1, <2>2, <1>3, <1>4, <1>home
    <3>2. ~(c # NoCore /\ r.full)
      BY <2>1, <2>2, <1>1, <1>3, <1>4, <1>full
    <3> QED  BY <2>1, <3>1, <3>2, <1>8
  <2>3. CASE x + m # N
    <3>1. x + m \in Len(f) .. N - 1 /\ x + m \in 0 .. N - 1
      BY <2>1, <2>3, <1>1, <1>3, <1>4
    <3>2. ~r.slots[(rp + (x + m)) % N].pending
      BY <3>1, <1>1, <1>10 DEF At
    <3>3. out => (rp + (x + m)) % N # rp
      <4>1. out => x + m # 0
        BY <2>1, <1>4
      <4> QED  BY <3>1, <4>1, <1>home
    <3>4. c # NoCore => (rp + (x + m)) % N # r.write_ptr
      <4>1. c # NoCore => x + m # Len(f) /\ Len(f) < N
        BY <2>1, <3>1, <1>1, <1>3, <1>4
      <4> QED  BY <3>1, <4>1, <1>tail
    <3> QED  BY <2>1, <3>2, <3>3, <3>4, <1>8
  <2> QED  BY <2>2, <2>3
<1>11. s.numpending = Len(g)
  BY <1>1, <1>2, <1>4 DEF s, RingAfter
<1>12. s.full = (Len(g) = N)
  <2>1. s.full = CASE c # NoCore /\ ~out -> r.full \/ r.numpending + 1 = N
                   [] out /\ ~(c # NoCore) -> FALSE
                   [] OTHER -> r.full
    BY DEF s, RingAfter, N
  <2>2. CASE c # NoCore /\ ~out
    <3>1. s.full = (r.full \/ r.numpending + 1 = N)
      BY <2>1, <2>2
    <3>2. ~r.full /\ r.numpending + 1 = Len(g)
      BY <2>2, <1>1, <1>2, <1>3, <1>4, <1>full
    <3> QED  BY <3>1, <3>2
  <2>3. CASE out /\ ~(c # NoCore)
    <3>1. s.full = FALSE
      BY <2>1, <2>3
    <3>2. Len(g) # N
      BY <2>3, <1>1, <1>2, <1>3, <1>4
    <3> QED  BY <3>1, <3>2
  <2>4. CASE (c # NoCore) <=> out
    <3>1. s.full = r.full
      BY <2>1, <2>4
    <3>2. Len(g) = Len(f)
      BY <2>4, <1>1, <1>2, <1>4
    <3> QED  BY <3>1, <3>2, <1>1
  <2> QED  BY <2>2, <2>3, <2>4
<1>13. s.write_ptr = (s.read_ptr + Len(g)) % N
  <2>1. s.write_ptr = IF c # NoCore THEN Next1(r.write_ptr) ELSE r.write_ptr
    BY DEF s, RingAfter
  <2>2. s.write_ptr = (rp + (Len(f) + y)) % N \/ (Len(f) = N /\ c # NoCore)
    <3>1. CASE c = NoCore
      BY <3>1, <2>1, <1>1, <1>4
    <3>2. CASE c # NoCore /\ Len(f) < N
      <4>1. Len(f) \in 0 .. N - 1 /\ y = 1
        BY <3>2, <1>1, <1>3, <1>4
      <4> QED  BY <4>1, <3>2, <2>1, <1>1, Around
    <3> QED  BY <3>1, <3>2, <1>1, <1>3
  <2>3. CASE Len(f) = N /\ c # NoCore
    <3>1. out /\ Len(g) = N /\ s.write_ptr = Next1(rp)
      BY <2>1, <2>3, <1>2, <1>3, <1>4, <1>tail
    <3> QED  BY <3>1, <1>6, Modulus
  <2>4. CASE ~(Len(f) = N /\ c # NoCore) /\ Len(g) < N
    <3>1. Len(g) \in 0 .. N - 1 /\ x + Len(g) = Len(f) + y
      BY <2>4, <1>1, <1>2, <1>3, <1>4, <1>5
    <3> QED  BY <3>1, <2>2, <2>4, <1>7
  <2>5. CASE ~(Len(f) = N /\ c # NoCore) /\ Len(g) = N
    <3>1. ~out /\ Len(f) + y = N
      BY <2>5, <1>1, <1>2, <1>3, <1>4
    <3> QED  BY <3>1, <2>2, <2>5, <1>home, <1>6
  <2> QED  BY <2>3, <2>4, <2>5, <1>3, <1>5
<1> QED  BY <1>2, <1>5, <1>6, <1>9, <1>10, <1>11, <1>12, <1>13 DEF Holds, s, g

-----------------------------------------------------------------------------
\* Of the requests f: the core of the oldest, the cores, and whether they differ.
First(f) == IF f = <<>> THEN {} ELSE {f[1]}
Elements(f) == {f[n] : n \in 1 .. Len(f)}
Unique(f) == \A i, j \in 1 .. Len(f) : f[i] = f[j] => i = j

\* Whose requests are outstanding after a clock, and whose is the oldest.
LEMMA QueueElements ==
  ASSUME NEW f \in Seq(Cores), NEW c \in Cores \cup {NoCore}, NEW out \in BOOLEAN,
         out => f # <<>>
  PROVE  LET g == Queue(f, c, out) IN
         /\ ~out => Elements(g) = Elements(f) \cup ({c} \cap Cores)
         /\ out => (Elements(f) \ {f[1]}) \cup ({c} \cap Cores) \subseteq Elements(g)
         /\ ~out /\ f # <<>> => g # <<>> /\ g[1] = f[1]
         /\ out /\ Len(f) > 1 => g # <<>> /\ g[1] = f[2]
         /\ Unique(f) /\ c \notin Elements(f) =>
              /\ Unique(g)
              /\ out => Elements(g) = (Elements(f) \ {f[1]}) \cup ({c} \cap Cores)
<1> DEFINE g == Queue(f, c, out)
           x == Num(out)
           y == Num(c # NoCore)
<1>1. /\ g \in Seq(Cores) /\ Len(g) = Len(f) - x + y
      /\ \A n \in 1 .. Len(g) : g[n] = IF n + x <= Len(f) THEN f[n + x] ELSE c
  <2>1. out => f # <<>>
    OBVIOUS
  <2> QED  BY <2>1, QueueStep
<1>2. /\ Len(f) \in Nat /\ Len(g) \in Nat /\ x \in 0 .. 1 /\ y \in 0 .. 1
      /\ (out <=> x = 1) /\ (c # NoCore <=> y = 1) /\ (f # <<>> <=> Len(f) > 0)
      /\ (g # <<>> <=> Len(g) > 0) /\ (x = 1 => Len(f) > 0)
  <2>1. \A h \in Seq(Cores) : Len(h) \in Nat /\ (h # <<>> <=> Len(h) > 0)
    OBVIOUS
  <2>2. x \in 0 .. 1 /\ y \in 0 .. 1 /\ (out <=> x = 1) /\ (c # NoCore <=> y = 1)
    BY DEF Num
  <2> HIDE DEF g, x, y
  <2> QED  BY <2>1, <2>2, <1>1
<1>3. c \in Cores <=> c # NoCore
  BY MonitorAssumption
<1> HIDE DEF g, x, y
<1>4. ASSUME NEW n \in 1 .. Len(g)
      PROVE  \/ n + x \in 1 .. Len(f) /\ g[n] = f[n + x]
             \/ n + x = Len(f) + 1 /\ n = Len(g) /\ c # NoCore /\ g[n] = c
  BY <1>1, <1>2
<1>5. ASSUME NEW n \in 1 .. Len(f), n > x
      PROVE  n - x \in 1 .. Len(g) /\ g[n - x] = f[n]
  BY <1>1, <1>2, <1>5
<1>6. c # NoCore => Len(g) \in 1 .. Len(g) /\ g[Len(g)] = c
  BY <1>1, <1>2
<1>7. Elements(g) \subseteq Elements(f) \cup ({c} \cap Cores)
  BY <1>3, <1>4 DEF Elements
<1>8. {c} \cap Cores \subseteq Elements(g)
  BY <1>3, <1>6 DEF Elements
<1>9. ~out => Elements(f) \subseteq Elements(g)
  <2> SUFFICES ASSUME ~out, NEW n \in 1 .. Len(f) PROVE f[n] \in Elements(g)
    BY DEF Elements
  <2>1. n > x
    BY <1>2
  <2> QED  BY <2>1, <1>5 DEF Elements
<1>10. out => Elements(f) \ {f[1]} \subseteq Elements(g)
  <2> SUFFICES ASSUME out, NEW n \in 1 .. Len(f), f[n] # f[1] PROVE f[n] \in Elements(g)
    BY DEF Elements
  <2>1. n > x
    BY <1>2
  <2> QED  BY <2>1, <1>5 DEF Elements
<1>11. ~out /\ f # <<>> => g # <<>> /\ g[1] = f[1]
  <2> SUFFICES ASSUME ~out, f # <<>> PROVE g # <<>> /\ g[1] = f[1]
    OBVIOUS
  <2>1. 1 \in 1 .. Len(f) /\ 1 > x /\ 1 - x = 1
    BY <1>2
  <2>2. 1 \in 1 .. Len(g) /\ g[1] = f[1]
    BY <2>1, <1>5
  <2> QED  BY <2>2, <1>2
<1>12. out /\ Len(f) > 1 => g # <<>> /\ g[1] = f[2]
  <2> SUFFICES ASSUME out, Len(f) > 1 PROVE g # <<>> /\ g[1] = f[2]
    OBVIOUS
  <2>1. 2 \in 1 .. Len(f) /\ 2 > x /\ 2 - x = 1
    BY <1>2
  <2>2. 1 \in 1 .. Len(g) /\ g[1] = f[2]
    BY <2>1, <1>5
  <2> QED  BY <2>2, <1>2
<1>13. ASSUME Unique(f), c \notin Elements(f) PROVE Unique(g)
  <2> SUFFICES ASSUME NEW i \in 1 .. Len(g), NEW j \in 1 .. Len(g), g[i] = g[j]
               PROVE  i = j
    BY DEF Unique
  <2>1. CASE i + x \in 1 .. Len(f) /\ g[i] = f[i + x] /\ j + x \in 1 .. Len(f) /\ g[j] = f[j + x]
    <3>1. i + x = j + x
      BY <2>1, <1>13 DEF Unique
    <3> QED  BY <3>1, <1>2
  <2>2. CASE i = Len(g) /\ j = Len(g)
    BY <2>2
  <2>3. CASE i + x \in 1 .. Len(f) /\ g[i] = f[i + x] /\ g[j] = c
    BY <2>3, <1>13 DEF Elements
  <2>4. CASE j + x \in 1 .. Len(f) /\ g[j] = f[j + x] /\ g[i] = c
    BY <2>4, <1>13 DEF Elements
  <2> QED  BY <2>1, <2>2, <2>3, <2>4, <1>4
<1>14. ASSUME Unique(f), c \notin Elements(f), out PROVE f[1] \notin Elements(g)
  <2> SUFFICES ASSUME NEW n \in 1 .. Len(g), g[n] = f[1] PROVE FALSE
    BY DEF Elements
  <2>1. 1 \in 1 .. Len(f) /\ x = 1
    BY <1>2, <1>14
  <2>2. CASE n + x \in 1 .. Len(f) /\ g[n] = f[n + x]
    <3>1. n + x = 1
      BY <2>1, <2>2, <1>14 DEF Unique
    <3> QED  BY <3>1, <2>1, <1>2
  <2>3. CASE g[n] = c
    BY <2>1, <2>3, <1>14 DEF Elements
  <2> QED  BY <2>2, <2>3, <1>4
<1> QED  BY <1>7, <1>8, <1>9, <1>10, <1>11, <1>12, <1>13, <1>14 DEF g

-----------------------------------------------------------------------------
\* The inductive invariant.
MonitorInv ==
  /\ clean \in BOOLEAN /\ simple \in BOOLEAN
  /\ \A d \in Dirs : Holds(ring[d], flight[d], clean)
  /\ clean => \A d \in Dirs :
       serving[d] \subseteq First(flight[d]) /\ pending[d] \subseteq Elements(flight[d])
  /\ clean /\ simple => \A d \in Dirs :
       serving[d] = {} /\ pending[d] = Elements(flight[d]) /\ Unique(flight[d])

\* The slot after the read pointer is the oldest request, and if the row goes on
\* in a slot without a stale entry the next request is of the same core.
LEMMA HeadOfRow ==
  ASSUME MonitorInv, NEW d \in Dirs, flight[d] # <<>>
  PROVE  /\ HeadCore(d) = flight[d][1] /\ flight[d][1] \in Elements(flight[d])
         /\ clean /\ RowContinues(d) => Len(flight[d]) > 1 /\ flight[d][2] = flight[d][1]
<1> DEFINE r == ring[d]
           f == flight[d]
<1>1. Holds(r, f, clean) /\ clean \in BOOLEAN
  BY DEF MonitorInv
<1>2. f \in Seq(Cores) /\ Len(f) \in Nat /\ Len(f) > 0 /\ r.read_ptr \in Slots
  BY <1>1 DEF Holds
<1>3. N \in Nat /\ N > 1
  BY MonitorAssumption DEF N
<1>4. At(r, 0) = r.slots[r.read_ptr] /\ At(r, 1) = r.slots[Next1(r.read_ptr)]
  BY <1>2, Home DEF At
<1>5. At(r, 0) = [pending |-> TRUE, qos |-> f[1]]
  <2>1. 0 \in 0 .. Len(f) - 1 /\ 0 + 1 = 1
    BY <1>2
  <2> QED  BY <2>1, <1>1 DEF Holds
<1>6. f[1] \in Elements(f)
  BY <1>2 DEF Elements
<1>7. ASSUME clean, RowContinues(d) PROVE Len(f) > 1 /\ f[2] = f[1]
  <2>1. At(r, 1).pending /\ At(r, 1).qos = f[1]
    BY <1>4, <1>5, <1>7 DEF RowContinues, HeadCore
  <2>2. Len(f) > 1
    <3>1. CASE Len(f) = 1
      <4>1. 1 \in Len(f) .. N - 1
        BY <3>1, <1>3
      <4> QED  BY <4>1, <2>1, <1>1, <1>7 DEF Holds
    <3>2. CASE Len(f) # 1
      <4>1. \A n \in Nat : n > 0 /\ n # 1 => n > 1
        OBVIOUS
      <4> QED  BY <4>1, <3>2, <1>2
    <3> QED  BY <3>1, <3>2
  <2>3. 1 \in 0 .. Len(f) - 1 /\ 1 + 1 = 2
    BY <2>2, <1>2
  <2>4. At(r, 1) = [pending |-> TRUE, qos |-> f[2]]
    BY <2>3, <1>1 DEF Holds
  <2> QED  BY <2>1, <2>2, <2>4
<1> QED  BY <1>4, <1>5, <1>6, <1>7 DEF HeadCore

\* The environment of one direction gives what QueueStep and QueueElements need.
LEMMA FlightStep ==
  ASSUME MonitorInv, NEW d \in Dirs, NEW c \in Cores \cup {NoCore}, NEW beat \in Beats,
         Possible(d, c, beat)
  PROVE  /\ flight[d] \in Seq(Cores) /\ (beat = "last") \in BOOLEAN
         /\ beat = "last" => flight[d] # <<>>
         /\ FlightAfter(d, c, beat) = Queue(flight[d], c, beat = "last")
  BY DEF MonitorInv, Holds, Possible, FlightAfter, Queue, Beats

\* The flags of the cores follow the requests: the answer, which is looked at last,
\* leaves no flag without a request (mem_monitor.vhd:264-330).
LEMMA FlagsStep ==
  ASSUME MonitorInv, clean, NEW d \in Dirs, NEW c \in Cores \cup {NoCore}, NEW beat \in Beats,
         Possible(d, c, beat)
  PROVE  LET g == FlightAfter(d, c, beat)
             answered == beat # "none"
         IN  /\ ServingAfter(d, answered) \subseteq First(g)
             /\ PendingAfter(d, c, answered) \subseteq Elements(g)
             /\ simple =>
                  /\ ServingAfter(d, answered) = {}
                  /\ PendingAfter(d, c, answered) = Elements(g)
                  /\ Unique(g)
<1> DEFINE f == flight[d]
           g == FlightAfter(d, c, beat)
           answered == beat # "none"
           out == beat = "last"
<1>1. /\ f \in Seq(Cores) /\ out \in BOOLEAN /\ (out => f # <<>>) /\ (answered => f # <<>>)
      /\ g = Queue(f, c, out) /\ (out => answered)
      /\ serving[d] \subseteq First(f) /\ pending[d] \subseteq Elements(f)
  BY FlightStep DEF MonitorInv, Possible
<1>2. /\ ~out => Elements(g) = Elements(f) \cup ({c} \cap Cores)
      /\ out => (Elements(f) \ {f[1]}) \cup ({c} \cap Cores) \subseteq Elements(g)
      /\ ~out /\ f # <<>> => g # <<>> /\ g[1] = f[1]
      /\ out /\ Len(f) > 1 => g # <<>> /\ g[1] = f[2]
      /\ Unique(f) /\ c \notin Elements(f) =>
           /\ Unique(g)
           /\ out => Elements(g) = (Elements(f) \ {f[1]}) \cup ({c} \cap Cores)
  <2>1. out => f # <<>>
    BY <1>1
  <2>2. LET h == Queue(f, c, out) IN
      /\ ~out => Elements(h) = Elements(f) \cup ({c} \cap Cores)
      /\ out => (Elements(f) \ {f[1]}) \cup ({c} \cap Cores) \subseteq Elements(h)
      /\ ~out /\ f # <<>> => h # <<>> /\ h[1] = f[1]
      /\ out /\ Len(f) > 1 => h # <<>> /\ h[1] = f[2]
      /\ Unique(f) /\ c \notin Elements(f) =>
           /\ Unique(h)
           /\ out => Elements(h) = (Elements(f) \ {f[1]}) \cup ({c} \cap Cores)
    BY <1>1, <2>1, QueueElements
  <2> QED  BY <1>1, <2>2
<1>3. f # <<>> => /\ HeadCore(d) = f[1] /\ f[1] \in Elements(f)
                  /\ RowContinues(d) => Len(f) > 1 /\ f[2] = f[1]
  BY HeadOfRow
<1> HIDE DEF g
<1>4. ServingAfter(d, answered) \subseteq First(g)
  <2>1. CASE ~answered
    BY <2>1, <1>1, <1>2 DEF ServingAfter, First
  <2>2. CASE answered /\ RowContinues(d)
    BY <2>2, <1>1, <1>2, <1>3 DEF ServingAfter, First
  <2>3. CASE answered /\ ~RowContinues(d)
    BY <2>3, <1>1, <1>2, <1>3 DEF ServingAfter, First
  <2> QED  BY <2>1, <2>2, <2>3
<1>5. PendingAfter(d, c, answered) \subseteq Elements(g)
  <2>1. CASE ~answered
    BY <2>1, <1>1, <1>2 DEF PendingAfter
  <2>2. CASE answered
    BY <2>2, <1>1, <1>2, <1>3 DEF PendingAfter
  <2> QED  BY <2>1, <2>2
<1>6. ASSUME simple
      PROVE  /\ ServingAfter(d, answered) = {}
             /\ PendingAfter(d, c, answered) = Elements(g)
             /\ Unique(g)
  <2>1. /\ serving[d] = {} /\ pending[d] = Elements(f) /\ Unique(f)
        /\ beat # "more" /\ c \notin Elements(f)
    BY <1>6, <1>1 DEF MonitorInv, Possible, Elements
  <2>2. answered <=> out
    BY <2>1 DEF Beats
  <2>3. f # <<>> => ~RowContinues(d)
    <3> SUFFICES ASSUME Len(f) > 1, f[2] = f[1] PROVE FALSE
      BY <1>3
    <3>1. 1 \in 1 .. Len(f) /\ 2 \in 1 .. Len(f)
      BY <1>1
    <3> QED  BY <3>1, <2>1 DEF Unique
  <2>4. ServingAfter(d, answered) = {}
    BY <2>1, <2>3, <1>1 DEF ServingAfter
  <2>5. PendingAfter(d, c, answered) = Elements(g)
    <3>1. CASE out
      BY <3>1, <2>1, <2>2, <1>1, <1>2, <1>3 DEF PendingAfter
    <3>2. CASE ~out
      BY <3>2, <2>1, <2>2, <1>1, <1>2 DEF PendingAfter
    <3> QED  BY <3>1, <3>2
  <2> QED  BY <2>1, <2>4, <2>5, <1>2
<1> QED  BY <1>4, <1>5, <1>6 DEF g

\* An empty ring, with slots that are free unless a reset came in between.
LEMMA EmptyHolds ==
  ASSUME NEW slots, NEW tidy \in BOOLEAN, tidy => \A p \in Slots : ~slots[p].pending
  PROVE  Holds(EmptyRing(slots), <<>>, tidy)
<1> DEFINE r == EmptyRing(slots)
<1>1. /\ r.write_ptr = 0 /\ r.read_ptr = 0 /\ r.numpending = 0 /\ r.full = FALSE
      /\ r.slots = slots
  BY DEF EmptyRing
<1>2. 0 \in Slots /\ N > 1 /\ N \in Nat
  BY MonitorAssumption DEF Slots, N
<1>3. (0 + 0) % N = 0
  BY <1>2, Home
<1>4. ASSUME tidy, NEW m \in 0 .. N - 1 PROVE ~slots[(0 + m) % N].pending
  <2>1. (0 + m) % N \in Slots
    BY <1>2, Around
  <2> QED  BY <2>1, <1>4
<1>5. <<>> \in Seq(Cores) /\ Len(<<>>) = 0
  OBVIOUS
<1>6. ASSUME NEW f, f = <<>> PROVE Holds(r, f, tidy)
  <2>1. f \in Seq(Cores) /\ Len(f) = 0
    BY <1>5, <1>6
  <2> HIDE DEF r
  <2>2. r.full = (Len(f) = N)
    <3>1. ~(Len(f) = N) /\ r.full = FALSE
      BY <2>1, <1>1, <1>2
    <3> QED  BY <3>1
  <2>3. r.write_ptr = (r.read_ptr + Len(f)) % N
    BY <2>1, <1>1, <1>3
  <2>4. \A m \in 0 .. Len(f) - 1 : At(r, m) = [pending |-> TRUE, qos |-> f[m + 1]]
    BY <2>1
  <2>5. tidy => \A m \in Len(f) .. N - 1 : ~At(r, m).pending
    BY <2>1, <1>1, <1>4 DEF At
  <2> QED  BY <2>1, <2>2, <2>3, <2>4, <2>5, <1>1, <1>2 DEF Holds
<1> QED  BY <1>6

\* The invariant holds at first, whatever the undefined cores of the slots are.
LEMMA InitHolds == Init => MonitorInv
<1> SUFFICES ASSUME Init PROVE MonitorInv
  OBVIOUS
<1>1. ASSUME NEW d \in Dirs PROVE Holds(ring[d], flight[d], clean)
  <2>1. PICK s \in FreeSlot : ring[d] = EmptyRing([p \in Slots |-> s])
    BY DEF Init
  <2>2. \A p \in Slots : ~[q \in Slots |-> s][p].pending
    BY DEF FreeSlot
  <2>3. Holds(EmptyRing([p \in Slots |-> s]), <<>>, TRUE)
    BY <2>2, EmptyHolds
  <2>4. flight[d] = <<>> /\ clean = TRUE
    BY DEF Init
  <2> QED  BY <2>1, <2>3, <2>4
<1>2. clean \in BOOLEAN /\ simple \in BOOLEAN
  BY DEF Init
<1>3. ASSUME NEW d \in Dirs
      PROVE  serving[d] = {} /\ pending[d] = {} /\ Elements(flight[d]) = {} /\ Unique(flight[d])
  BY DEF Init, Elements, Unique
<1> QED  BY <1>1, <1>2, <1>3 DEF MonitorInv

\* A ring without requests has no slot that is taken, wherever its pointers are:
\* a reset then leaves nothing behind.
LEMMA ResetHolds ==
  ASSUME NEW r, NEW f, NEW tidy \in BOOLEAN, Holds(r, f, tidy)
  PROVE  tidy /\ f = <<>> => \A p \in Slots : ~r.slots[p].pending
<1> SUFFICES ASSUME tidy, f = <<>>, NEW q \in Slots PROVE ~r.slots[q].pending
  OBVIOUS
<1>1. Slots = 0 .. N - 1 /\ N > 1 /\ N \in Nat
  BY MonitorAssumption DEF Slots, N
<1>2. Len(f) = 0 /\ r.read_ptr \in 0 .. N - 1 /\ \A m \in Len(f) .. N - 1 : ~At(r, m).pending
  BY <1>1 DEF Holds
<1> DEFINE p == r.read_ptr
           k == IF q >= p THEN q - p ELSE q - p + N
<1>3. k \in 0 .. N - 1 /\ (p + k = q \/ p + k = q + N)
  BY <1>1, <1>2
<1>4. q % N = q /\ (q + N) % N = q
  BY Modulus
<1> HIDE DEF k
<1>5. (p + k) % N = q
  BY <1>3, <1>4
<1>6. ~At(r, k).pending
  BY <1>2, <1>3
<1> QED  BY <1>5, <1>6 DEF At

\* Every clock and every reset preserves the invariant.
LEMMA NextHolds == MonitorInv /\ [Next]_monitorVars => MonitorInv'
<1> SUFFICES ASSUME MonitorInv, [Next]_monitorVars PROVE MonitorInv'
  OBVIOUS
<1>1. CASE Reset
  <2>1. ASSUME NEW d \in Dirs PROVE Holds(ring'[d], flight'[d], clean')
    <3>1. ring'[d] = EmptyRing(ring[d].slots) /\ flight'[d] = <<>>
      BY <1>1 DEF Reset
    <3>2. clean' \in BOOLEAN /\ clean \in BOOLEAN /\ (clean' => clean /\ flight[d] = <<>>)
      BY <1>1 DEF Reset, MonitorInv
    <3>3. clean' => \A p \in Slots : ~ring[d].slots[p].pending
      BY <3>2, ResetHolds DEF MonitorInv
    <3>4. Holds(EmptyRing(ring[d].slots), <<>>, clean')
      BY <3>2, <3>3, EmptyHolds
    <3> QED  BY <3>1, <3>4
  <2>2. clean' \in BOOLEAN /\ simple' \in BOOLEAN
    BY <1>1 DEF Reset, MonitorInv
  <2>3. ASSUME NEW d \in Dirs
        PROVE  /\ serving'[d] = {} /\ pending'[d] = {}
               /\ Elements(flight'[d]) = {} /\ Unique(flight'[d])
    BY <1>1 DEF Reset, Elements, Unique
  <2> QED  BY <2>1, <2>2, <2>3 DEF MonitorInv
<1>2. ASSUME NEW req \in [Dirs -> Cores \cup {NoCore}], NEW beat \in [Dirs -> Beats],
             NEW r \in Freed(beat["read"]), NEW w \in Freed(beat["write"]),
             Clock(req, beat, [d \in Dirs |-> IF d = "read" THEN r ELSE w])
      PROVE  MonitorInv'
  <2> DEFINE freed == [d \in Dirs |-> IF d = "read" THEN r ELSE w]
  <2>1. ASSUME NEW d \in Dirs
        PROVE  /\ Possible(d, req[d], beat[d]) /\ req[d] \in Cores \cup {NoCore} /\ beat[d] \in Beats
               /\ ring'[d] = RingAfter(ring[d], req[d], beat[d] = "last", freed[d])
               /\ pending'[d] = PendingAfter(d, req[d], beat[d] # "none")
               /\ serving'[d] = ServingAfter(d, beat[d] # "none")
               /\ flight'[d] = FlightAfter(d, req[d], beat[d])
    BY <1>2 DEF Clock
  <2>2. clean' = clean /\ simple' = simple /\ clean \in BOOLEAN /\ simple \in BOOLEAN
    BY <1>2 DEF Clock, MonitorInv
  <2>3. ASSUME NEW d \in Dirs PROVE Holds(ring'[d], flight'[d], clean')
    <3>1. beat[d] = "last" => ~freed[d].pending
      BY DEF Freed, FreeSlot, Dirs
    <3>2. /\ beat[d] = "last" => flight[d] # <<>>
          /\ (beat[d] = "last") \in BOOLEAN
          /\ flight'[d] = Queue(flight[d], req[d], beat[d] = "last")
      BY <2>1, FlightStep
    <3>3. req[d] # NoCore => Len(flight[d]) < N \/ beat[d] = "last"
      BY <2>1 DEF Possible, N
    <3>4. Holds(ring[d], flight[d], clean)
      BY DEF MonitorInv
    <3> HIDE DEF freed
    <3>5. Holds(RingAfter(ring[d], req[d], beat[d] = "last", freed[d]),
                Queue(flight[d], req[d], beat[d] = "last"), clean)
      <4>1. req[d] \in Cores \cup {NoCore}
        BY <2>1
      <4> QED  BY <4>1, <2>2, <3>1, <3>2, <3>3, <3>4, RingStep
    <3> QED  BY <2>1, <2>2, <3>2, <3>5
  <2>4. ASSUME clean, NEW d \in Dirs
        PROVE  /\ serving'[d] \subseteq First(flight'[d]) /\ pending'[d] \subseteq Elements(flight'[d])
               /\ simple => /\ serving'[d] = {} /\ pending'[d] = Elements(flight'[d])
                            /\ Unique(flight'[d])
    <3> DEFINE g == FlightAfter(d, req[d], beat[d])
               answered == beat[d] # "none"
    <3>1. /\ ServingAfter(d, answered) \subseteq First(g)
          /\ PendingAfter(d, req[d], answered) \subseteq Elements(g)
          /\ simple => /\ ServingAfter(d, answered) = {}
                       /\ PendingAfter(d, req[d], answered) = Elements(g)
                       /\ Unique(g)
      BY <2>1, <2>4, FlagsStep
    <3> QED  BY <2>1, <3>1
  <2> QED  BY <2>2, <2>3, <2>4 DEF MonitorInv
<1>3. CASE UNCHANGED monitorVars
  BY <1>3 DEF monitorVars, MonitorInv
<1> QED  BY <1>1, <1>2, <1>3 DEF Next

\* For any cores and any size of the rings.
THEOREM MonitorInvariant == MonitorSpec => []MonitorInv
  BY InitHolds, NextHolds, PTL DEF MonitorSpec

\* The ring is the outstanding requests in order (mem_monitor.vhd:204-262).
THEOREM RingIsExact == MonitorSpec => []RingExact
<1>1. MonitorInv => RingExact
  BY DEF MonitorInv, RingExact, Holds, At, N
<1> QED  BY <1>1, MonitorInvariant, PTL

\* All that is blamed on behalf of a direction is its oldest request.
LEMMA Served ==
  ASSUME MonitorInv, clean, NEW d \in Dirs
  PROVE  /\ serving_pre_o(d) \cup serving[d] \subseteq First(flight[d])
         /\ pending[d] \subseteq Elements(flight[d])
         /\ First(flight[d]) \subseteq Elements(flight[d])
         /\ flight[d] = <<>> => Elements(flight[d]) = {}
         /\ flight[d] = <<>> <=> ring[d].numpending = 0
<1>1. /\ serving[d] \subseteq First(flight[d]) /\ pending[d] \subseteq Elements(flight[d])
      /\ flight[d] \in Seq(Cores) /\ ring[d].numpending = Len(flight[d])
  BY DEF MonitorInv, Holds
<1>2. flight[d] = <<>> => Elements(flight[d]) = {}
  BY DEF Elements
<1>3. flight[d] = <<>> <=> Len(flight[d]) = 0
  BY <1>1
<1>4. CASE flight[d] = <<>>
  BY <1>1, <1>2, <1>3, <1>4 DEF First, serving_pre_o
<1>5. CASE flight[d] # <<>>
  BY <1>1, <1>3, <1>5, HeadOfRow DEF First, serving_pre_o
<1> QED  BY <1>4, <1>5

\* No core is pending or serving without a request of its own
\* (mem_monitor.vhd:264-330).
THEOREM BlameIsReal == MonitorSpec => []NoFalseBlame
<1>1. MonitorInv => NoFalseBlame
  <2> SUFFICES ASSUME MonitorInv, clean, NEW d \in Dirs
               PROVE  pending[d] \cup serving[d] \subseteq InFlight(d)
    BY DEF NoFalseBlame
  <2>1. InFlight(d) = Elements(flight[d])
    <3>1. flight[d] \in Seq(Cores)
      BY DEF MonitorInv, Holds
    <3> QED  BY <3>1 DEF InFlight, Elements
  <2> QED  BY <2>1, Served
<1> QED  BY <1>1, MonitorInvariant, PTL

\* The assertion at mem_monitor.vhd:285 is true for any number of cores, as long
\* as no reset cuts requests off.
THEOREM OneIsBlamed == MonitorSpec => []AtMostOneServing
<1>1. MonitorInv => AtMostOneServing
  <2> SUFFICES ASSUME MonitorInv, clean, NEW waits \in Waits, NEW d \in Dirs
               PROVE  Cardinality(serving_o(d, waits)) <= 1
    BY DEF AtMostOneServing
  <2>1. Other(d) \in Dirs
    BY DEF Other, Dirs
  <2>2. \E e \in Dirs : serving_o(d, waits) \subseteq First(flight[e])
    <3>1. CASE waits[d] # NoCore /\ ring[d].numpending = 0
      <4>1. serving_pre_o(d) \cup serving[d] = {}
        BY <3>1, Served
      <4> QED  BY <3>1, <4>1, <2>1, Served DEF serving_o, cross_backpresure
    <3>2. CASE ~(waits[d] # NoCore /\ ring[d].numpending = 0)
      BY <3>2, Served DEF serving_o, cross_backpresure
    <3> QED  BY <3>1, <3>2
  <2>3. PICK e \in Dirs : serving_o(d, waits) \subseteq First(flight[e])
    BY <2>2
  <2>4. serving_o(d, waits) = {} \/ serving_o(d, waits) = {flight[e][1]}
    BY <2>3 DEF First
  <2>5. CASE serving_o(d, waits) = {}
    <3>1. Cardinality(serving_o(d, waits)) = 0
      BY <2>5, FS_EmptySet
    <3> QED  BY <3>1
  <2>6. CASE serving_o(d, waits) = {flight[e][1]}
    <3>1. Cardinality(serving_o(d, waits)) = 1
      BY <2>6, FS_Singleton
    <3> QED  BY <3>1
  <2> QED  BY <2>4, <2>5, <2>6
<1> QED  BY <1>1, MonitorInvariant, PTL

\* With one request per core and one beat per read the outputs say who waits and
\* for whom, as the readme promises.
THEOREM OutputsExact == MonitorSpec => []ContentionExact
<1>1. MonitorInv => ContentionExact
  <2> SUFFICES ASSUME MonitorInv, clean, simple, NEW waits \in Waits, NEW d \in Dirs
               PROVE  /\ pending_o(d, waits) = (InFlight(d) \ Oldest(d)) \cup ({waits[d]} \cap Cores)
                      /\ serving_o(d, waits) =
                           IF flight[d] = <<>> /\ waits[d] # NoCore
                             THEN Oldest(Other(d)) ELSE Oldest(d)
    BY DEF ContentionExact
  <2>1. Other(d) \in Dirs
    BY DEF Other, Dirs
  <2>2. ASSUME NEW e \in Dirs
        PROVE  /\ InFlight(e) = Elements(flight[e]) /\ Oldest(e) = First(flight[e])
               /\ pending_pre_o(e) = InFlight(e) \ Oldest(e)
               /\ serving_pre_o(e) \cup serving[e] = Oldest(e)
               /\ flight[e] = <<>> <=> ring[e].numpending = 0
    <3>1. flight[e] \in Seq(Cores) /\ serving[e] = {} /\ pending[e] = Elements(flight[e])
      BY DEF MonitorInv, Holds
    <3>2. InFlight(e) = Elements(flight[e]) /\ Oldest(e) = First(flight[e])
      BY <3>1 DEF InFlight, Elements, Oldest, First
    <3>3. CASE flight[e] = <<>>
      BY <3>1, <3>2, <3>3, Served DEF First, pending_pre_o, serving_pre_o
    <3>4. CASE flight[e] # <<>>
      BY <3>1, <3>2, <3>4, Served, HeadOfRow DEF First, pending_pre_o, serving_pre_o
    <3> QED  BY <3>2, <3>3, <3>4
  <2>3. pending_o(d, waits) = (InFlight(d) \ Oldest(d)) \cup ({waits[d]} \cap Cores)
    BY <2>2 DEF pending_o
  <2>4. CASE flight[d] = <<>> /\ waits[d] # NoCore
    <3>1. Oldest(d) = {}
      BY <2>4 DEF Oldest
    <3> QED  BY <2>1, <2>2, <2>3, <2>4, <3>1 DEF serving_o, cross_backpresure
  <2>5. CASE ~(flight[d] = <<>> /\ waits[d] # NoCore)
    BY <2>2, <2>3, <2>5 DEF serving_o, cross_backpresure
  <2> QED  BY <2>4, <2>5
<1> QED  BY <1>1, MonitorInvariant, PTL
=============================================================================
