# Verification of the SELENE hardware platform

SELENE is a RISC-V system on chip for safety-critical use.  Most of the tree is
the vendored GRLIB library, port maps and build scripts.  The behaviour that is
SELENE's own lies in `safety/` and `interconnect/`, and its centre is the
**RootVoter** (`safety/rootvoter_v2`): a memory-mapped unit to which redundant
cores hand in datasets and which votes on them M-out-of-N.  The C driver, its
multi-core callers, the bus bridge and the hardware race with each other, which
is what this project is about first.  Beside it stand the units that watch the
buses (the two contention monitors, the SafeSU statistics unit and its driver)
and the self-test that the fault-injection platform runs on several cores.

## 1. Inventory

| Component | State | Operations | Hard behaviour | What makes it correct |
|---|---|---|---|---|
| Comparator `rootvoter_v2/hw/CompareUnit.sv` | pair pointers `i`, `j`, match vector, match counters, `done` | one pair per clock while enabled; cleared by the cell | width and bounds of the walk, N(N-1)/2 clocks | each pair compared once; counters equal the number of equal pairs |
| Cell `hw/RVCell.sv`, `hw/Counter.sv` | FSM state, watchdog, timeout flags, status | five-state FSM: idle, collect, vote, time out, result | datasets that land at the closing edge, during the vote, or in another round; reset in mid-vote | flags exact and final, verdict stable, every round ends |
| Register file `hw/rootvoter.sv`, `hw/rv_wrapper.vhd` | configuration, set registers and their valid flags, AXI4-Lite handshakes | register writes with byte strobes, command 0xF, reads | three channels that move independently; data on two lanes | each access performed once, atomically, and answered |
| Bridge `grlib/lib/gaisler/axi/ahb2axi_l.vhd` and AXI4-Lite crossbar | FSM, channel registers | one AHB access to one AXI4-Lite transaction | handshakes in any order, delays in the crossbar | no access ends before all its handshakes |
| Driver `sw/RootVoter.c`, `test_multicore.c`, `kernel_1.c` | copy of features and mode, the result being built | `RVC_sync`, `RVC_reset`, `RVC_load_dataset`, `RVC_vote` | worker cores that hang, wake up in a later round, or write while the result is read; errors nobody looks at | results mean what the API says; calls return |
| Memory contention monitor `interconnect/libnoc/mem_monitor` | a queue per initiator, pending and serving flags per core | follow AR, R, AW and B channels | accept and answer in one clock, stale queue slots, full queue | at most one core is blamed, and only one with an outstanding request; the oldest is blamed and the others wait |
| AHB contention monitor `safety/ahb_pmu` | queues of reads, of writes and of both, cores waiting in them, what the unifier puts off, FSMs | follow the AHB bus | two pushes or pulls in one clock, a full queue, accesses finished out of order | the common queue is the accesses in flight, in order; the three counts agree; the head waits |
| SafeSU driver `BSC_libraries/safeSU` | the configuration registers of the unit: switches, crossbar, weights, quotas | read-modify-writes from C | fields of several parts in one word, fields across two words, masks that differ between variants | every setting is the one last asked for |
| RootVoter v1 and draft (`rootvoter_v1`, `rootvoter`, `swtests`) | as above, fixed 2oo3 and pair cells | as above | as above | superseded by v2 |
| Hardware information ROM `interconnect/HwInfo/AxiRom.sv` | constants, the reset of the accelerators | reads, reset command | a command meeting the pulse of another one or of the system | one pulse per command; every load answered with its word |
| Crossbar wrappers, NoC, accelerators, PMU and lightlock wrappers, SoC integration | none of their own | wiring of submodules and generated kernels that are not in the tree | - | - |
| Fault-injection workloads `FFI/workloads/selftest` | results per core, the table of what is expected | start the cores, run a kernel on each, compare | results compared while they are written, cores that stop | "passed" can be relied on; the verdict comes |
| Fault-injection hardware `FFI/IP` | count-down controllers | clock and reset control | - | out of the product |
| GRLIB, `software/hello` | - | third party; an example | - | - |

How they interact.  A core's load or store crosses the AHB bus, the bridge
`ahb2axi_l` (`gpp_sys.vhd`), the AXI4-Lite crossbar (four RootVoter units, the
information ROM, an accelerator), `rv_wrapper.vhd` and lands in a register of
`rootvoter.sv` on one clock edge.  The register values are wires into `RVCell`,
which clears and enables `CompareUnit` and starts `Counter`.  The status word is
a wire back into the register that reads return.  The driver is the only
software that touches the registers: a supervisor resets, configures and polls,
and each worker core stores its dataset into a register of its own.  Nothing is
interrupt-driven in the driver, and nothing synchronises it with the cell but
the FSM state it polls.  The monitors only listen: the memory monitor to the AXI
channels behind the crossbar, the AHB monitor to the bus of the cores, and the
SafeSU counts the events they raise, as its driver has routed and weighted
them.  The cores of the self-test share nothing but the results in memory.

## 2. Modules

| Module | Models | State and steps |
|---|---|---|
| `CompareUnit` | `CompareUnit.sv` | `i`, `j`, `match_vector`, `match_cnt`, `done`; `CompareEdge(reset, enable, words, used)` is the clocked block, the word comparison is `MatchOutcomes` |
| `CompareBench` | the unit as `tb/test_CompareUnit.sv` drives it | present a pattern, compare, pause |
| `RVCell` (EXTENDS `CompareUnit`) | `RVCell.sv`, `Counter.sv` | `state_reg`, `timeout_reg`, `cnt` and the inputs from the register file; one operator per arm of the FSM; combinational signals keep their names (`all_datasets_loaded`, `config_ok`, `mask`, `failvec`, `compare_reset`, `compare_en`, `ready`, `status`) |
| `RootVoter` (EXTENDS `RVCell`) | the register write block of `rootvoter.sv` | every action is one clock edge of cell, comparator and registers together, with the write that lands at that edge: `NoWrite`, `Command`, `WriteConfig`, `WriteSet`, `HardReset` |
| `Voting` | abstract: one round of M-out-of-N voting | `Open`, `HandIn`, `Decide`, `Close` |
| `RootVoterRound` | the cell under the protocol of `RootVoter.c` | configuration after the reset command, datasets of the mode inside the window; refinement mapping to `Voting` |
| `RootVoterWindow` | the collection window against the clock | history variables `age` and `arrival`; datasets at any edge |
| `RootVoterDriver` (EXTENDS `RootVoter`) | `RootVoter.c`, `test_multicore.c`, `kernel_1.c` | supervisor program counter, one action per bus access; workers that load at any later edge or never |
| `RegisterPort` | abstract: a store or load is performed once, at one moment, and answered; a command to the ROM is one pulse | `Ask`, `Perform`, `Answer`, `ClearPort`, `Pass` |
| `RegisterPath` | `ahb2axi_l.vhd`, crossbar, `rv_wrapper.vhd`, AXI4-Lite handshakes and register decoding of `rootvoter.sv`; words and reset pulse of `AxiRom.sv` | one clock edge of all of them; `unit` says whose registers the accesses of a behaviour go to, as the handshakes and wrappers of the two are the same code; the crossbar (a git submodule, external) is one buffer per channel that may hold an item for any time; refinement mapping to `RegisterPort` |
| `MemMonitor` | `mem_monitor.vhd` | one ring and two sets of flags per direction, `pending` and `serving`; `Clock` is one edge of all four processes with any request and answer on both directions, `Reset` the reset; the outputs are operators of the state and of the requests held back in the clock |
| `AccessQueue` | `fifo_regs.vhd`, `cpu_vector.vhd`, and the unifier, the queues and the blame of the head in `ahb_latency_and_contention.vhd` | `reads`, `writes`, `unified` (memory, head, tail, count), `reading`, `writing`, the buffers of the unifier; `Edge` is one clock with any pushes and pulls, `Reset` the reset |
| `SafeSU` | `safeSU/*/pmu_hw.c` | the configuration registers as sets of bits; one action per call of the driver |
| `FfiKernels` | the kernels `1_matmult.c`, `2_dijkstra.c`, `4_crc.c`, `6_binarysearch.c` with their data and expected results | operators; no state |
| `FfiTests` (EXTENDS `FfiKernels`) | what a test is, and what its table must be: assumptions on the constant `Tests` | no state |
| `FfiSelfTest` (EXTENDS `FfiTests`) | `selftest/top_multicore.c` with a kernel on every core; the two kernels that read what they have written (distances, check word) step by step | a program counter per core; a step is one write to the results, a byte of the check word, or the comparison of one word |
| `MC*` | TLC instances | constants only |
| `*Proofs` | theorems | see section 5 |

What the data are abstracted to.  A dataset is a member of a small set `Word`
with `Zero` the word a cleared register holds.  The configuration word is a
record of its fields.  In `RegisterPath` an access is a whole 64-bit load or
store, as `RootVoter.c` makes them; the 128-bit bus carries it in one beat
(`CFG_AHBDW` is 128) with the word on both lanes, and only the strobes tell the
lanes apart.  Sub-word stores and the test of the low four bits of a
command word other than 0xF are left out since no caller makes them.  The valid flag of
register 0 is never read in the hardware and is not modelled.  The interrupt
output repeats the ready bit.  `RVC_sync` always succeeds: its failure path is
for a wrong sync word, and a unit answers with the right one
(`rootvoter.sv:629`).  AXI error responses are constant OKAY in the
slave, so the bridge's `error_p` state is not entered.  In `MemMonitor` a
request is the core that makes it, and there is one ring per direction because
`mem_sys.vhd` ties the AXI ids to zero.  The core of a freed slot is `'-'` in
the code, hence any core in the model, chosen when the slot is freed.

In `AccessQueue` a one-hot vector of cores is a core or `None`.  What the push
state machines find in the bus signals is any push and pull that `Allowed`
admits: a core that waits starts no other access, only what is queued is pulled,
and the assertions of the unifier (lines 956-972) are kept.  `inorder` is chosen
once and says that accesses of either kind finish in the order in which they
began.  In `SafeSU` a word is the set of its one bits, a call is a step because
one core owns the unit, and `asked` is history: the settings the calls have
asked for.  The driver's variants for four and six cores and for 256 events are
instances.  In `FfiSelfTest` stores are seen in the order of the program, the
test is chosen once, and `late` is history.  The results are 32-bit words, of
which the check-word kernel reads and writes bytes, the lowest first; `memcpy`
is taken to copy words in their order, and the second check of `4_crc.c`, whose
result is dropped, is left out.  What the check word should be is stated
apart from the shifts of the code, as a division of polynomials over bits
(`Checked`); the distances and the found keys, as `ShortestDistances` and
`Found`.  A test of the check word carries the words after each byte
(`checks`), so that what its table must be can be said without recursion.
`caller` in `RootVoterDriver` is
chosen once, too: the program that calls the driver, with its habits and
arguments.

Mutants (operators named in `\* Mutant:` comments) sit before the definitions
they alter: plausible mistakes that each property is able to notice.

## 3. What the runs check

| Run | Question | Instance |
|---|---|---|
| `compare_bench` | Does the walk over the pairs visit each pair once and count exactly, at every clock, with the vector laid out as the table in the source and done after N(N-1)/2 clocks? | 5 datasets, 3 words: all equality patterns that matter for three classes, every N |
| `rootvoter_any` | Whatever is written at whatever edge: does every vote start from a clean comparator, and does a published verdict stay put? | 3 registers and one beyond, 2 words, valid, refused and cleared configurations |
| `rootvoter_round` | Under the protocol: are missing and outvoted datasets exactly the flagged ones, does every round end, is the cell an implementation of `Voting`? | 4 registers, 3 words, five modes, windows 0 and 3, resets at any edge |
| `rootvoter_window` | Is the window the documented number of clocks, at both ends, with writes at any edge? | 3 registers, windows 0, 1 and 3; ages told apart to 6, two clocks past the longest window |
| `driver` | With a supervisor that waits for its workers: is what is not timed out loaded, and agreement M equal datasets? With workers that hang and wake up in a later round: does `RVC_reset` find the cell idle, do the two reads of `RVC_vote` belong together and to a mode that `RVC_reset` accepted, does `RVC_vote` return? | 3 workers; a caller that joins and ignores errors with 2oo3, 3oo3 and two refused modes, windows 0 and 4; one that does not join with 2oo3 and a refused mode, window 4 |
| `register_path` | Is every access performed exactly once, atomically, and answered, in spite of independent channels, crossbar delays and resets? Does every reset command to the ROM reset the accelerators, for one clock? | two set registers (one per lane), configuration, command and status, two words; two words of the ROM and its command |
| `mem_monitor` | Are the rings the outstanding requests in order, through full rings and resets; is at most one core blamed, and none without a request; are the outputs those of the readme where answers have one beat and cores one request? | 2 cores, 2 slots, every combination of request, beat and held-back request per clock in both directions |
| `access_queue` | With two pushes or pulls in a clock: is the common queue the accesses in their order, do the counts of the three queues agree, are the waiting cores those in the queues, do the assertions of the queues hold, does the head wait? | 3 cores, every combination of pushes and pulls per clock, resets at any edge |
| `safesu` | After any sequence of calls, is every switch, route, weight and mode the one last asked for, and no reset or update bit left set? | six cores; three neighbouring crossbar outputs of which the middle one lies in two registers; weights on both sides of a register boundary; all bits and a mixed pattern |
| `self_test` | Is a verdict of "passed" sound although results are compared while they are written, has a mismatch no cause but a late core, does the verdict come?  Are the tables of the sources those of their kernels (the assumptions of `FfiTests`)? | the four kernels on their own data on one core; all 3-vertex graphs, a product, a search and a check word on three cores; all 729 4-vertex graphs of three weights, all 255 tables of keys up to 8 and 256 texts of four bytes on one core |

Bounds.  Voting is symmetric in the words; three words tell majority, minority
and the cleared word apart.  Four registers are the least with a mode smaller
than the number of registers and a tie (two against two).  Windows of 0 to 4
clocks contain the three cases: no clock at all, closing before the last
dataset, and time left over.  `MaxAge`, `TimeoutSpan` (stands for 2^32) and the
constraint `WalkBound` are the only bounds on counters; the rings of
`MemMonitor` are bounded as in the code, by `MAX_PENDING_REQ`.  `WalkBound` cuts
one behaviour: a mode with N below 2 written in mid-vote makes the comparator
walk without end until the next reset command.  The proofs of section 5 need
none of these bounds.

Two slots are enough for a ring of `MemMonitor` to be full, to wrap and to swap
one request for another, and for a row of one core to end before a request of
the other.  Two cores are enough because the code compares a core only with
the ones in two neighbouring slots: they are equal or they differ, and the core
of a freed slot is either of the two.

Three cores fill a queue of `AccessQueue`, wrap it and leave one core over
while two push or pull.  Two pushes and two pulls in the same clock need four
cores, which is beyond a run because every slot keeps what it held; the theorems
of section 5 are about any number of cores.  In `SafeSU` outputs 3 to 5 are bits
21 to 41 of the crossbar registers, and one call about each of two neighbours is
enough to see one disturb the other; weights of inputs 3 and 4 end one register
and begin the next.  `FfiSelfTest` has no counter that is not bounded by its
data.

Two values of `MemMonitor` are not state of the code.  `simple`, chosen at the
start and never changed, restricts the environment to one beat per read and one
request per core at a time; only `ContentionExact` asks for it.  `clean` says
that no reset has come while requests were outstanding: the reset leaves the
slots alone, and what they hold then is read as the follower of a row, so that
`AtMostOneServing` and `NoFalseBlame` do not hold without it.

Fairness.  The clock runs: in the cell every action is a clock edge, and
`RoundSpec` asks that edges go on.  `DriverSpec` adds that the supervisor's
accesses are served, and asks nothing of the workers: a hung core is the case
the watchdog exists for.  `PathSpec` asks that the crossbar passes an item on
when it keeps being asked to, and nothing about when.  `SelfTestSpec` asks that
core 0 goes on, and nothing of the others: the platform injects faults to stop
them.  `MonitorSpec`, `QueueSpec` and `SafeSUSpec` have no fairness: nothing is
claimed of them but safety.

## 4. Where the code departs from its words

Each of these is a run in which TLC finds the property violated.

| Run | What the text says | What the code does |
|---|---|---|
| `unloaded_agreement` | agreement is M matching sets (`RootVoter.h:259,270`) | missing datasets keep the cleared word, match each other, and can make a 2oo4 round agree though the two loaded datasets differ |
| `quota_stops_rdc` | the mask of the update bits is "0xf ->4cores / 0x3f -> 6cores" (`4-core/pmu_hw.c:343`) | the driver for four cores has the mask for six: setting a quota clears bit 6 of `PMUCFG1`, which there enables the request duration counters |

Met on the way and not made runs:

- The cell counts the valid flags of all registers (`RVCell.sv:122`): a dataset
  of a worker beyond the mode stands in for a missing one, which is voted on
  unflagged.  With such a worker `NotTimedOutLoaded` fails.
- `config_ok` does not test M >= 2, as `rootvoter.sv:47` says it does; only
  `RVC_reset` refuses such a mode.  That this is enough, also for callers that
  ignore the refusal, is `ResultOfAcceptedMode`.
- The first beat of a burst clears the flags of its core in `mem_monitor.vhd`
  as the last would; until the burst is over the cores behind it see nobody
  blamed, where `readme.txt:4` blames the head of the queue.  After a reset that
  cuts requests off, two cores can be blamed at once.
- `max_wait_time` is a `uint64_t` of which 32 bits are used; `RVC_load_dataset`
  accepts the id `max_sets` and reports success for a store that no register
  answers.
- `RVC_reset` leaves the cell in reset when it refuses a mode; the tests go on,
  and `RVC_vote` then polls for ever (the run `driver` takes these steps, and
  the theorem `RefusedPollsForEver` says so of every caller and unit).
- The bounds on event, output and core in `pmu_hw.c` (lines 62, 68, 339) are off
  by one, and `pmu_mccu_set_quota_limit` returns nothing when it succeeds.
- `rd_data` of the common queue in `ahb_pmu` names the core that was last in the
  slot when the queue is empty, and the wrong core when accesses finish out of
  order: `BlamedIsQueued` is about the bus that keeps the order.
- The self-test says "failed" of a core that is merely slow.

A caution for users that follows from the run `driver`: a dataset carries no
mark of its round.  When a core that was timed out in one round loads in the
next, its old word is voted on there.  So `AgreementMeansMEqual` and
`NotTimedOutLoaded` are stated for a caller that joins its workers.

## 5. What is proved

The theorems hold for every value of the constants within their named
assumptions: any number of registers, words, modes and windows for the
RootVoter, any callers of the driver, any depth and set of cores for the
monitors, any set of the unit's outputs, events, inputs and weights for the
SafeSU driver, any number of cores and any graph, text or sequence of writes
with its table for the self-test.  `CompareUnitProofs` holds lemmas only.
`RootVoterProofs` holds the theorems on `RootVoter`, `RootVoterRound`,
`RootVoterWindow` and `RootVoterDriver`; every other proof module is named after
the module it is about.

| Theorem | Statement |
|---|---|
| `CompareBenchTyped`, `CompareBenchCounts`, `CompareBenchTime`, `CompareBenchVector` | `BenchSpec => []BenchTypeOK`, `[]CountsExact`, `[]VotingTime`, `[]VectorDecodes` |
| `RootVoterTyped`, `VotesStartClean` | `Spec => []TypeOK`, `[]ComparatorClean` |
| `VerdictStays` | `Spec => VerdictIsStable` |
| `MissingAlwaysFlagged`, `QuorumAlwaysDecides` | `RoundSpec => []MissingIsFlagged`, `[]QuorumDecides` |
| `VerdictAlwaysExact` | `RoundSpec => []VerdictExact`, for a cell with match counters and failure flags: `rootvoter.sv:636-638` gives a cell the match counters when either feature is asked for, and the failure flags only when failure lists are |
| `CellIsVote` | `RoundSpec => Vote!VotingInit /\ [][Vote!VotingNext]_(Vote!votingVars)`, the safety half of `ImplementsVoting`, for a cell with match counters and failure flags |
| `WindowInvariant` | `WindowSpec => []WindowInv` |
| `NeverFalseTimeout`, `WindowAlwaysGranted`, `LateAlwaysReported` | `WindowSpec => []NoFalseTimeout`, `[]FullWindowGranted`, `[]LateIsReported` |
| `FlagsStayFinal` | `WindowSpec => TimeoutFlagsFinal` |
| `ResetAlwaysFindsIdle`, `ReportedAreLoaded` | `DriverSpec => []ResetFindsIdle`, `[]NotTimedOutLoaded` |
| `ResultsConsistent`, `AgreementIsMEqual` | `DriverSpec => []ResultConsistent`, `[]AgreementMeansMEqual`, for a cell with match counters |
| `ResultsOfAcceptedMode` | `DriverSpec => []ResultOfAcceptedMode` |
| `RefusedPollsForEver` | `DriverSpec => [][Abandoned => Abandoned']_allVars`: `RVC_vote` never returns from a round whose mode `RVC_reset` refused |
| `PathInvariant`, `AnswersKept` | `PathSpec => []PathInv`, `[]NoAnswerLost` |
| `PathIsPort` | `PathSpec => Port!PortInit /\ [][Port!PortNext]_(Port!portState)`, the safety half of `ImplementsPort` |
| `RingIsExact`, `BlameIsReal`, `OneIsBlamed`, `OutputsExact` | `MonitorSpec => []RingExact`, `[]NoFalseBlame`, `[]AtMostOneServing`, `[]ContentionExact` |
| `QueueTyped`, `OneQueue`, `FillsBalance`, `WaitingExact`, `NoOverrun`, `BlameReachesWaiting` | `QueueSpec => []QueueTypeOK`, `[]QueueExact`, `[]BooksBalance`, `[]ActiveExact`, `[]FifoAssertions`, `[]BlamedIsQueued` |
| `RoutesObeyed`, `WeightsObeyed` | `SafeSUSpec => []RoutesAsAsked`, `[]WeightsAsAsked` |
| `SwitchesObeyed`, `NothingStaysHeld` | `SafeSUSpec => []SwitchesAsAsked` on six cores or more, `[]NothingHeld` on six or fewer |
| `PassedAlwaysSound`, `MismatchAlwaysLate` | `SelfTestSpec => []PassedIsSound`, `[]MismatchMeansLate` |
| `KernelsAlwaysCorrect` | `SelfTestSpec => []DoneIsCorrect`: a core that is done has exactly its table in its results, and keeps it |
| `SumsAlwaysFit` | `SelfTestSpec => []SumsFit`: the sums of `dijkstra` stay in the range of `int` |

**The comparator.**  `VotingTime` and `VectorDecodes` speak of the end of the
walk and are not inductive.  `VectorInv` says the same of every clock:
`ClocksOnWalk` gives the clocks spent at the pair `(i, j)` in closed form, the
pairs of all datasets less those of the rows still to come, and `FlagsPlaced`
says that the flag of every pair already seen sits at the bit of the table less
the number of clocks to come, with nothing above the first pair's.  The step
rests on two lemmas about the number of pairs, `PairsOfOneMore` and
`PairsGrow`; the second also shows that no flag leaves the register at its top
end, which is as wide as the number of pairs of all registers.

**The cell.**  `CountsExact` is inductive together with the position of the
pointers (`BenchInv`): the counters are the number of equal pairs *before* the
pair at `(i, j)`, and the lemmas of `CompareUnitProofs` say how that set grows
when the pointers advance within a row, to the next row, or stop.  In the cell
the walk starts from a cleared comparator only because of `ComparatorClean`,
which holds for any software.  For the round the invariant is `CollectInv`:
types, `ComparatorClean`, what holds between rounds (`Between`: no datasets, or
a cell about to be configured), that only datasets of the mode are loaded
(`LoadsInMode`, which is what makes counting flags as good as looking at them),
that no flag is up while collecting (`FlagsDown`), and the two goals.
`VerdictExact` is not inductive: at the last clock of the walk it needs to know
what the counters were before, so `RoundInv` adds `WalkExact`, the statement of
`CountsExact` for the datasets in the registers.

**The cell is a vote.**  `CellIsVote` maps the cell to `Voting`: a round is open
while the cell collects or compares, the hand-ins are the words in the
registers, and the verdict is what the status shows.  The abstract decision is
taken in one step from the words, the concrete one over many clocks, so the
last clock of the walk needs `VerdictExact` and `QuorumDecides`
(`VerdictIsDecision`), and all the clocks before it are stutters.  The decision
counts the words of all the mode's registers, the missing ones included, so
`VoteInv` adds to `RoundInv` that a register nobody has loaded holds the cleared
word (`Unloaded`).

**The window.**  `WindowInv` ties the watchdog to the age of the round, a
history variable: while collecting, what is left on the watchdog and the age
add up to the window and one (`Clocked`), so flags can only be raised past its
end.  `Stamped` says who carries an arrival time, and `EachAccounted` that in a
decided round in which only datasets of the mode came, each of them is flagged
or came in time; the edge at which a dataset arrives and the window closes is
the case that separates the two.  `MaxAgeAssumption` asks that ages are told
apart two clocks past the longest window; ages stop there.

**The access path.**  `OneAccess` lists the stages of a load and of a store:
which channels hold the address, the data or the answer, and that everything
else rests.  The bridge starts an access only when all is at rest, and each
clock moves the access on by some channels of its stage, in any order and after
any delay.  With it `NoAnswerLost` is immediate for the slave, and each clock is
`Ask`, `Perform`, `Answer`, a step of the reset pulse or a stutter of
`RegisterPort`, whose `Perform` is the clock at which address and data of a
store have both reached the register, or at which the slave samples the word of
a load.  `PulseShort` keeps a second command from meeting the
pulse of the first: the pulse is over before the answer to the store that began
it has been taken.

**The driver.**  `DriverInv` ties the supervisor to the cell: while it resets,
the cell is held in reset and idle (`Phases`); while it polls, the cell has the
mode it was called with, or a refused reset was ignored; and what has been read
can still be read (`ReadOut`), which is `VerdictIsStable` put to use.  That is
enough for `ResetFindsIdle`, `ResultConsistent` and `ResultOfAcceptedMode` with
workers that write at any clock; the last is `Phases` with `Configured`: a
verdict shows only in a cell whose mode is the one of the last reset that
`RVC_reset` accepted.  A refused mode
leaves a caller that goes on in `Abandoned`, where the cell is held in reset and
idle, so that the poll sees no verdict and no step leads out
(`RefusedPollsForEver`).  The other two properties need the caller to wait for its workers,
and `JoinInv` says what that buys: whoever runs is of the round and has not
loaded (`Awaited`), so only datasets of the mode arrive, and a worker can be
late but not early.  While nobody is flagged the invariant of `RootVoterRound`
holds (`RoundHolds`), and its steps are cited; once somebody is, only
`mask \ timeout_reg` being loaded is kept, with the dataset that lands at the
very edge of closing as the case to look at (it is flagged).

**The memory monitor.**  `Holds` says of a ring that it is the requests in
flight from the read pointer on and that, unless a reset cut requests off, the
other slots are free.  The case that takes work is the full ring that takes one
request and gives up another in the same slot.  On top, a serving flag is of
the oldest request and pending flags are of requests in flight; that a row goes
on only with a request of the same core (`HeadOfRow`) needs the free slots,
which is why a reset in mid-flight breaks it and `clean` is there.

**The AHB queues.**  `Tracks` ties a queue to its vector of waiting cores: the
queue holds each of them once, so its count is their number.  As a core waits in
one queue only, the counts of both are at most the number of cores, and the
common queue differs from their sum by what is put off: a push only after two
pushes, a pull only after two pulls, which leave room for it (`QueueInv`).
`OrderInv` compares the common queue entry by entry with the accesses in the
order in which they began, and `Turns`, for accesses that finish in that order,
makes its head a core that waits.  The number of cores is any number but 0; two
pushes with two pulls in one clock, which no run reaches, are covered.

**The SafeSU driver.**  Registers are sets of bits, and the lemma
`CrossbarBitAfter` says for every bit of every crossbar register what a call
leaves in it, whether the field lies in one register or two; `FieldsApart` and
`FieldInRegisters` carry that to the fields of the outputs.  The bounds on the
number of cores come from the constant mask `0x3f << 2` of
`pmu_mccu_set_quota_limit`: with fewer than six cores it reaches the switch of
the RDC (the run `quota_stops_rdc`), with more it would miss update bits.

**The self-test.**  A program that finishes late is no danger; one that looks
right and is not would be.  `PassedIsSound` therefore needs two things of every
kernel: what it leaves when it is done, and whether a word that has its final
value can lose it again.

What a table must be is assumed in `FfiTests`, of each test by itself, and
evaluated by TLC for the tables of the sources and all small ones
(`self_test`): `GraphAssumption`, that the distances solve the equations of
shortest distances and no sum along an edge leaves the `int`;
`WritesAssumption`, that a word has the value of its last write;
`CheckAssumption`, that the check word is the last of the running ones.
`TellingAssumption` asks, of tests on more than one core, for a word that
cannot be right while the kernel can still make it wrong: a core stopped before
its first write passes a table of zeros, and nothing in the program would
notice.  The tables of the four sources have one (`OwnTestsTell`).

`GraphInv` is the invariant of Dijkstra's algorithm: no distance is below the
shortest one, that of a picked vertex is it, and the edges out of picked
vertices are relaxed, those of the last one as far as the loop has come.  The
step that picks a vertex rests on `NearestIsShortest`: of the vertices whose
distance is not the shortest take one with the least shortest distance
(`LeastElement`, from the well-founded order of the naturals); the vertex before
it on its walk has its shortest distance already and is not picked, or the edge
would have been relaxed (`OpenPredecessor`); so it is nearer than any vertex
whose distance is not the shortest, and the nearest vertex is not one of them.  The
loop ends with one vertex unpicked, and `LastIsShortest` is the same for it.
`CheckInv` and `WritesInv` follow the program through its writes.

`Kept` is the comparison: a word of a core without a mismatch that has been
compared is right once the core has settled (`Settled`: done, or in the search
for distances, where a shortest distance is never changed again); and if it is a
telling word the core has settled.  So when all the words have been compared
every core has settled, and all its words are right.  `MismatchMeansLate` is the
other half: a done kernel has its table, so a mismatch is of a core that was not
done, all of which `late` remembers.

Only model-checked.  Liveness (`RoundEnds`, `VoteReturns`, `TestCompletes`, and
with them the fairness halves of `ImplementsVoting` and `ImplementsPort`), for
which the provers here have no rule.  What recursive functions compute for every
input: that the sequences of writes of `matmult` and `searches` leave a product
and the keys, that `icrc` divides polynomials, and that `ShortestDistances` are
those of walks, is compared with the tables on the data of the sources and on all the
small instances of `self_test`.

## 6. Not modelled, and the plan

In order of importance:

1. The push state machines of `ahb_latency_and_contention.vhd`, which find the
   accesses in the bus signals, and its latency state machine: they would
   discharge `Allowed`, which `AccessQueue` takes from the assertions.
2. RootVoter v1 and its driver, as an instance of `Voting` where it is one.
3. Sub-word stores in `RegisterPath`: a dataset is valid when all eight bytes
   have been written, so two half stores are two moments.

Left out for good: GRLIB beyond the bridge and the driver the project added;
the crossbar and the PMU and lightlock cores (git submodules, not in the tree),
generated accelerator kernels, port maps, build scripts, the fault-injection
bench's count-down controllers, printing.  Of the self-test's kernels `aes`
calls a library, the sorting one is the C library's `qsort` on floating-point
keys, and the filter multiplies in 64 bits, beyond the integers of TLC.

The C files under `src/` are for the greater part not SELENE's: GRLIB's test
programs for devices (SpaceWire, Ethernet, PCI), configuration tools and
generated headers, vendored RISC-V tests, and benchmark inputs that are tables
of numbers.  They have no behaviour that a unit of this project depends on, so
the model covers nearly all of the RootVoter and of the monitors, and a small
share of the lines of the tree.
