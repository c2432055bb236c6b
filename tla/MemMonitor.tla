------------------------------ MODULE MemMonitor ------------------------------
(***************************************************************************)
(* The memory contention monitor, mem_monitor.vhd.  It watches the AXI     *)
(* channels of the memory and tells the PMU which cores wait for memory    *)
(* ("pending") and which core they wait for ("serving").                   *)
(*                                                                         *)
(* Reads and writes are followed alike, each by a ring of the cores whose  *)
(* requests are outstanding and by two flags per core; a read is answered  *)
(* in one or more beats, a write in one.  mem_sys.vhd ties the AXI ids to  *)
(* zero, so there is one ring for each.  A step is a clock edge.           *)
(***************************************************************************)
EXTENDS Naturals, Sequences, FiniteSets

CONSTANTS
  Cores,             \* the world ids that requests carry in their QoS field
  NoCore,            \* no request
  MAX_PENDING_REQ    \* slots of a ring

ASSUME MonitorAssumption ==
  /\ Cores # {} /\ NoCore \notin Cores
  /\ MAX_PENDING_REQ \in Nat \ {0, 1}

Dirs == {"read", "write"}
Other(d) == IF d = "read" THEN "write" ELSE "read"
Slots == 0 .. MAX_PENDING_REQ - 1

VARIABLES
  ring,       \* mem_sniff_read, mem_sniff_write
  pending,    \* mem_sniff_coreID_read(.).pending, ..._write(.).pending
  serving,    \* mem_sniff_coreID_read(.).serving, ..._write(.).serving
  flight,     \* history: the cores of the outstanding requests, oldest first
  clean,      \* history: no reset has cut a request off
  simple      \* environment: one beat per read, one request per core at a time

monitorVars == <<ring, pending, serving, flight, clean, simple>>

EmptyRing(slots) ==
  [write_ptr |-> 0, read_ptr |-> 0, numpending |-> 0, full |-> FALSE, slots |-> slots]

\* A freed slot keeps no defined core.
FreeSlot == [pending : {FALSE}, qos : Cores]

Init ==
  /\ \E s \in [Dirs -> FreeSlot] :
       ring = [d \in Dirs |-> EmptyRing([p \in Slots |-> s[d]])]
  /\ pending = [d \in Dirs |-> {}]
  /\ serving = [d \in Dirs |-> {}]
  /\ flight = [d \in Dirs |-> <<>>]
  /\ clean = TRUE
  /\ simple \in BOOLEAN

-----------------------------------------------------------------------------
(* The ring: c is the core whose request is accepted, or NoCore; out says  *)
(* whether the oldest request gets its last answer.                        *)
Next1(p) == (p + 1) % MAX_PENDING_REQ

\* Mutant: the slot is freed although the new request has just taken it.
SlotsAfterFreeing(r, c, out, freed) ==
  [p \in Slots |->
     IF out /\ p = r.read_ptr THEN freed
     ELSE IF c # NoCore /\ p = r.write_ptr THEN [pending |-> TRUE, qos |-> c]
     ELSE r.slots[p]]

\* In a full ring the new request takes the slot of the one that leaves.
SlotsAfter(r, c, out, freed) ==
  [p \in Slots |->
     IF out /\ p = r.read_ptr /\ ~(c # NoCore /\ r.full) THEN freed
     ELSE IF c # NoCore /\ p = r.write_ptr THEN [pending |-> TRUE, qos |-> c]
     ELSE r.slots[p]]

RingAfter(r, c, out, freed) ==
  LET in == c # NoCore IN
  [write_ptr  |-> IF in THEN Next1(r.write_ptr) ELSE r.write_ptr,
   read_ptr   |-> IF out THEN Next1(r.read_ptr) ELSE r.read_ptr,
   numpending |-> CASE in /\ ~out -> r.numpending + 1
                    [] out /\ ~in -> r.numpending - 1
                    [] OTHER -> r.numpending,
   full       |-> CASE in /\ ~out -> r.full \/ r.numpending + 1 = MAX_PENDING_REQ
                    [] out /\ ~in -> FALSE
                    [] OTHER -> r.full,
   slots      |-> SlotsAfter(r, c, out, freed)]

-----------------------------------------------------------------------------
(* The flags of the cores.  The answer goes to the core in the oldest slot *)
(* and is looked at last: it overrides a request of the same core.         *)
HeadCore(d) == ring[d].slots[ring[d].read_ptr].qos

\* Mutant: only the core of the slot is looked at.
ContinuesByCore(d) ==
  ring[d].slots[Next1(ring[d].read_ptr)].qos = HeadCore(d)

\* The next slot in the row is a request of the same core.
RowContinues(d) ==
  LET follower == ring[d].slots[Next1(ring[d].read_ptr)] IN
  follower.pending /\ follower.qos = HeadCore(d)

PendingAfter(d, c, answered) ==
  LET asked == IF c \in serving[d] THEN pending[d] \ {c}
               ELSE pending[d] \cup ({c} \cap Cores)
  IN  IF answered THEN asked \ {HeadCore(d)} ELSE asked

ServingAfter(d, answered) ==
  CASE ~answered -> serving[d]
    [] answered /\ RowContinues(d) -> serving[d] \cup {HeadCore(d)}
    [] OTHER -> serving[d] \ {HeadCore(d)}

-----------------------------------------------------------------------------
(* The memory and its masters.  Per direction: the core whose request is   *)
(* accepted, and the beat that is transferred.                             *)
Beats == {"none", "more", "last"}

\* A request is accepted while there is room, or when one leaves (the code
\* asserts it); an answer comes at least one clock after its request.
Possible(d, c, beat) ==
  /\ beat # "none" => flight[d] # <<>>
  /\ c # NoCore => Len(flight[d]) < MAX_PENDING_REQ \/ beat = "last"
  /\ beat = "more" => d = "read"
  /\ simple => /\ beat # "more"
               /\ \A n \in DOMAIN flight[d] : flight[d][n] # c

FlightAfter(d, c, beat) ==
  (IF beat = "last" THEN Tail(flight[d]) ELSE flight[d])
    \o (IF c = NoCore THEN <<>> ELSE <<c>>)

Clock(req, beat, freed) ==
  /\ \A d \in Dirs : Possible(d, req[d], beat[d])
  /\ ring' = [d \in Dirs |-> RingAfter(ring[d], req[d], beat[d] = "last", freed[d])]
  /\ pending' = [d \in Dirs |-> PendingAfter(d, req[d], beat[d] # "none")]
  /\ serving' = [d \in Dirs |-> ServingAfter(d, beat[d] # "none")]
  /\ flight' = [d \in Dirs |-> FlightAfter(d, req[d], beat[d])]
  /\ UNCHANGED <<clean, simple>>

\* The reset clears pointers, counters and flags and leaves the slots alone;
\* the memory forgets what was outstanding.
Reset ==
  /\ ring' = [d \in Dirs |-> EmptyRing(ring[d].slots)]
  /\ pending' = [d \in Dirs |-> {}]
  /\ serving' = [d \in Dirs |-> {}]
  /\ flight' = [d \in Dirs |-> <<>>]
  /\ clean' = (clean /\ \A d \in Dirs : flight[d] = <<>>)
  /\ UNCHANGED simple

\* What a slot may hold that is freed in a clock with this beat.
Freed(beat) == IF beat = "last" THEN FreeSlot ELSE {[pending |-> FALSE, qos |-> NoCore]}

Next ==
  \/ Reset
  \/ \E req \in [Dirs -> Cores \cup {NoCore}], beat \in [Dirs -> Beats] :
       \E r \in Freed(beat["read"]), w \in Freed(beat["write"]) :
         Clock(req, beat, [d \in Dirs |-> IF d = "read" THEN r ELSE w])

MonitorSpec == Init /\ [][Next]_monitorVars

-----------------------------------------------------------------------------
(* The outputs, when waits[d] is the core whose request is held back in    *)
(* this clock (valid without ready), or NoCore.                            *)
Waits == [Dirs -> Cores \cup {NoCore}]

\* Mutant: the core of the oldest request is counted as waiting for itself.
PendingUnmasked(d) == pending[d]

pending_pre_o(d) == pending[d] \ {HeadCore(d)}
serving_pre_o(d) == pending[d] \cap {HeadCore(d)}

pending_o(d, waits) == pending_pre_o(d) \cup ({waits[d]} \cap Cores)

\* Mutant: a request held back blames the other direction in any case.
CrossBlameAlways(d, waits) ==
  IF waits[d] # NoCore
    THEN serving_pre_o(Other(d)) \cup serving[Other(d)] ELSE {}

\* A request held back with nothing outstanding in its own direction waits for
\* the other one.
cross_backpresure(d, waits) ==
  IF waits[d] # NoCore /\ ring[d].numpending = 0
    THEN serving_pre_o(Other(d)) \cup serving[Other(d)] ELSE {}

serving_o(d, waits) == serving_pre_o(d) \cup serving[d] \cup cross_backpresure(d, waits)

-----------------------------------------------------------------------------
InFlight(d) == {flight[d][n] : n \in DOMAIN flight[d]}

\* The ring is the outstanding requests in order, through wrap-around and
\* through clocks in which one request comes and another goes in a full ring.
\* Unless a reset cut requests off, every other slot is free.
RingExact ==
  \A d \in Dirs :
    LET r == ring[d]  n == Len(flight[d])
        At(m) == r.slots[(r.read_ptr + m) % MAX_PENDING_REQ]
    IN  /\ r.numpending = n /\ r.full = (n = MAX_PENDING_REQ)
        /\ r.write_ptr = (r.read_ptr + n) % MAX_PENDING_REQ
        /\ \A m \in 0 .. n - 1 : At(m) = [pending |-> TRUE, qos |-> flight[d][m + 1]]
        /\ clean => \A m \in n .. MAX_PENDING_REQ - 1 : ~At(m).pending

\* No core is blamed, or counted as waiting, for a request it does not have,
\* whatever the undefined cores of freed slots are, unless a reset cut
\* requests off.
NoFalseBlame ==
  clean => \A d \in Dirs : pending[d] \cup serving[d] \subseteq InFlight(d)

\* "More than one serving is enabled!!!, This case is not supported by the
\* SafeSU" (mem_monitor.vhd:285): at most one core is blamed at a time in each
\* direction, across both directions, unless a reset cut requests off.
AtMostOneServing ==
  clean =>
    \A waits \in Waits, d \in Dirs : Cardinality(serving_o(d, waits)) <= 1

\* With one request per core and one beat per read, the outputs are exactly
\* what the readme describes: the core of the oldest request is blamed, all
\* others wait, a request that is held back waits too, and if nothing is
\* outstanding before it, the other direction is blamed.
Oldest(d) == IF flight[d] = <<>> THEN {} ELSE {Head(flight[d])}

ContentionExact ==
  simple /\ clean =>
    \A waits \in Waits, d \in Dirs :
      /\ pending_o(d, waits) = (InFlight(d) \ Oldest(d)) \cup ({waits[d]} \cap Cores)
      /\ serving_o(d, waits) =
           IF flight[d] = <<>> /\ waits[d] # NoCore THEN Oldest(Other(d)) ELSE Oldest(d)

=============================================================================
