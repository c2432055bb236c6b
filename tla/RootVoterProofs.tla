-------------------------- MODULE RootVoterProofs --------------------------
(***************************************************************************)
(* What holds of the cell and its registers for every number of datasets,  *)
(* every set of words, modes and windows: first whatever the software      *)
(* does, then for rounds that keep to the protocol, then for rounds whose  *)
(* datasets may come at any moment, then that a cell is the abstract vote, *)
(* and last for the rounds of the driver.                                  *)
(***************************************************************************)
EXTENDS RootVoterWindow, RootVoterDriver, CompareUnitProofs

\* Every step is one clock edge of the cell, with the reset port up only if
\* the configuration word or the reset pin holds it up.
LEMMA NextIsEdge ==
  ASSUME Next
  PROVE  \E r \in {TRUE, cfg.reset} : CellEdge(r)
BY DEF Next, NoWrite, Command, HardReset, WriteConfig, WriteSet

\* A clock edge keeps the types of the registers of the FSM and the watchdog.
LEMMA CellEdgeTyped ==
  ASSUME TypeOK, NEW r, CellEdge(r)
  PROVE  CompareTypeOK' /\ FsmTypeOK'
<1>. USE DEF TypeOK
<1>1. CompareTypeOK'
  BY CompareEdgeTyped DEF CellEdge
<1>2. mask \ valid \in SUBSET Lane
  BY DEF mask
<1>3. CASE FsmReset
  <2>1. FsmTypeOK'
    BY <1>3 DEF FsmReset, FsmTypeOK, States
  <2>. QED  BY <1>1, <2>1
<1>4. CASE FsmStep
  <2>1. cnt' \in Nat
    <3>1. cfg.timeout \in Nat
      <4>1. cfg \in CfgWord
        BY DEF PortTypeOK
      <4>2. cfg.timeout \in Timeout \cup {0}
        BY <4>1 DEF CfgWord
      <4>3. Timeout \subseteq Nat
        BY CellAssumption
      <4>4. \A t \in Timeout \cup {0} : t \in Nat
        BY <4>3
      <4>. QED  BY <4>2, <4>4, Zenon
    <3>2. cnt' = cnt \/ cnt' = cfg.timeout \/ (cnt # 0 /\ cnt' = cnt - 1)
      BY <1>4
         DEF FsmStep, ConfigMissing, AcceptConfig, AwaitDatasets, StartVote, Expire,
             ComparePairs, FinishVote, HoldResult, Acknowledge, counter_expired, fsmVars
    <3>. QED  BY <3>1, <3>2 DEF FsmTypeOK
  <2>2. state_reg' \in States /\ timeout_reg' \in SUBSET Lane
    BY <1>4, <1>2
       DEF FsmTypeOK, States, FsmStep, ConfigMissing, AcceptConfig, AwaitDatasets,
           StartVote, Expire, ComparePairs, FinishVote, HoldResult, Acknowledge, fsmVars
  <2>3. FsmTypeOK'
    BY <2>1, <2>2 DEF FsmTypeOK
  <2>. QED  BY <1>1, <2>3
<1>. QED  BY <1>3, <1>4 DEF CellEdge

LEMMA ConfigsTyped == NoConfig \in CfgWord /\ ResetConfig \in CfgWord
<1>1. NoConfig \in CfgWord
  BY DEF NoConfig, CfgWord, Nibble
<1>2. \A c \in CfgWord : [c EXCEPT !.reset = TRUE] \in CfgWord
  BY DEF CfgWord
<1>. QED  BY <1>1, <1>2 DEF ResetConfig

LEMMA TypeInit == Init => TypeOK
<1>. SUFFICES ASSUME Init PROVE TypeOK
  OBVIOUS
<1>. USE DEF Init
<1>1. CompareTypeOK
  <2>1. i \in Nibble /\ j \in Nibble
    BY DEF CompareCleared, Nibble
  <2>2. match_vector \in [Bit -> BOOLEAN]
    BY DEF CompareCleared
  <2>3. match_cnt \in [Lane -> Nibble]
    BY DEF CompareCleared, Nibble
  <2>4. done \in BOOLEAN
    BY DEF CompareCleared
  <2>. QED  BY <2>1, <2>2, <2>3, <2>4 DEF CompareTypeOK
<1>2. FsmTypeOK
  BY DEF FsmCleared, FsmTypeOK, States
<1>3. cfg \in CfgWord
  BY ConfigsTyped
<1>4. PortTypeOK
  BY <1>3, ZeroAssumption DEF PortTypeOK, RegistersCleared
<1>. QED  BY <1>1, <1>2, <1>4 DEF TypeOK

LEMMA TypeNext == TypeOK /\ [Next]_vars => TypeOK'
<1>1. ASSUME TypeOK, Next PROVE TypeOK'
  <2>1. CompareTypeOK' /\ FsmTypeOK'
    BY <1>1, NextIsEdge, CellEdgeTyped
  <2>2. cfg' \in CfgWord
    BY <1>1, ConfigsTyped, RegisterAssumption
       DEF TypeOK, PortTypeOK, Next, NoWrite, Command, HardReset, WriteConfig, WriteSet, portVars
  <2>3. sets' \in [Lane -> Word] /\ valid' \in SUBSET Lane
    BY <1>1, ZeroAssumption
       DEF TypeOK, PortTypeOK, Next, NoWrite, Command, HardReset, WriteConfig, WriteSet, portVars
  <2>. QED  BY <2>1, <2>2, <2>3 DEF TypeOK, PortTypeOK
<1>2. ASSUME TypeOK, UNCHANGED vars PROVE TypeOK'
  BY <1>2 DEF vars, TypeOK, CompareTypeOK, PortTypeOK, FsmTypeOK
<1>. QED  BY <1>1, <1>2

\* The registers of the cell, its watchdog and its ports keep their types; the
\* watchdog in particular never counts below zero (Counter.sv:20-39).
THEOREM RootVoterTyped == Spec => []TypeOK
BY TypeInit, TypeNext, PTL DEF Spec

-----------------------------------------------------------------------------
\* No clock edge brings the cell into a state that counts on a clear comparator
\* with a comparator that is not.
LEMMA CleanEdge ==
  ASSUME ComparatorClean, NEW r, CellEdge(r)
  PROVE  ComparatorClean'
<1>1. CASE compare_reset
  \* The comparator is cleared at this edge, whatever the FSM does.
  <2>1. CompareCleared'
    BY <1>1 DEF CellEdge, CompareEdge, CompareReset, CompareCleared
  <2>. QED  BY <2>1 DEF ComparatorClean
<1>2. CASE state_reg = "timeout"
  \* It was clear and is not enabled.
  <2>1. CompareCleared'
    BY <1>2
       DEF CellEdge, CompareEdge, CompareHold, compareVars, compare_reset, compare_en,
           ComparatorClean, CompareCleared
  <2>. QED  BY <2>1 DEF ComparatorClean
<1>3. CASE ~compare_reset /\ state_reg # "timeout"
  \* From any other state the cell enters neither of the two.
  <2>1. state_reg' \notin {"wait_datasets", "timeout"}
    BY <1>3
       DEF CellEdge, FsmReset, compare_reset, FsmStep, ConfigMissing, AcceptConfig,
           AwaitDatasets, StartVote, Expire, ComparePairs, FinishVote, HoldResult,
           Acknowledge, ready, fsmVars
  <2>. QED  BY <2>1 DEF ComparatorClean
<1>. QED  BY <1>1, <1>2, <1>3

LEMMA CleanNext == ComparatorClean /\ [Next]_vars => ComparatorClean'
<1>1. ASSUME ComparatorClean, UNCHANGED vars PROVE ComparatorClean'
  BY <1>1 DEF vars, ComparatorClean, CompareCleared
<1>. QED  BY <1>1, NextIsEdge, CleanEdge

\* A vote starts from a clear comparator, whenever a reset struck before
\* (RVCell.sv:174,184, CompareUnit.sv:46).
THEOREM VotesStartClean == Spec => []ComparatorClean
<1>1. Init => ComparatorClean
  BY DEF Init, ComparatorClean, FsmCleared, CompareCleared
<1>. QED  BY <1>1, CleanNext, PTL DEF Spec

-----------------------------------------------------------------------------
\* Between two edges at which the verdict can be read, and in one mode, it is
\* the same verdict.
LEMMA StableEdge ==
  ASSUME NEW r, CellEdge(r), ready, ready', cfg' = cfg
  PROVE  /\ status' = status /\ match_cnt' = match_cnt
         /\ timeout_reg' = timeout_reg /\ failvec_res' = failvec_res
<1>1. match_cnt' = match_cnt
  BY DEF CellEdge, CompareEdge, CompareHold, compareVars, compare_reset, compare_en, ready
<1>2. state_reg' = state_reg /\ timeout_reg' = timeout_reg
  BY DEF CellEdge, FsmReset, ready, FsmStep, ConfigMissing, AcceptConfig, AwaitDatasets,
         StartVote, Expire, ComparePairs, FinishVote, HoldResult, Acknowledge, fsmVars
<1>3. failvec_res' = failvec_res
  BY <1>1, <1>2 DEF failvec_res, failvec, mask, ready, datasets_min, used_datasets
<1>. QED  BY <1>1, <1>2, <1>3 DEF status, ready

LEMMA StableStep ==
  [Next]_vars => (ready /\ ready' /\ cfg' = cfg => status' = status /\ match_cnt' = match_cnt)
<1>1. ASSUME UNCHANGED vars PROVE status' = status /\ match_cnt' = match_cnt
  BY <1>1 DEF vars, status, ready, failvec_res, failvec, mask, datasets_min, used_datasets
<1>. QED  BY <1>1, NextIsEdge, StableEdge

\* A verdict does not change while it can be read, whatever the software
\* writes into the set registers meanwhile (RVCell.sv:212-232).
THEOREM VerdictStays == Spec => VerdictIsStable
BY StableStep, PTL DEF Spec, VerdictIsStable

-----------------------------------------------------------------------------
(***************************************************************************)
(* The verdict of a round, when the software keeps to the protocol of      *)
(* RootVoter.c: the inductive invariant.                                   *)
(***************************************************************************)

\* A mode that is not held in reset is one that RVC_reset accepts, or none.
ModeAccepted == ~cfg.reset => ModeChecked(cfg) \/ cfg.N = 0

\* Outside a round the registers are empty or the mode is.
Between == (cfg.reset => valid = {}) /\ ModeAccepted

\* Only datasets of the mode are loaded: otherwise the count of valid flags
\* would say nothing about the ones that are missing.
LoadsInMode == Live => valid \subseteq mask

\* No flag of an earlier round is up when the collection begins.
FlagsDown == Live /\ state_reg = "wait_datasets" => timeout_reg = {}

\* From the vote on, the comparator is on its walk and its counters agree with
\* the datasets, which no longer change.
WalkExact ==
  Live /\ state_reg \in {"voting", "result"} =>
    /\ OnWalk(used_datasets)
    /\ CountsAgree(sets, used_datasets)
    /\ state_reg = "result" => done

CollectInv ==
  /\ TypeOK /\ ComparatorClean /\ Between /\ LoadsInMode /\ FlagsDown
  /\ MissingIsFlagged /\ QuorumDecides

RoundInv == CollectInv /\ WalkExact

-----------------------------------------------------------------------------
\* The numbers of a live round.
LEMMA LiveMode ==
  ASSUME TypeOK, ModeAccepted, Live
  PROVE  /\ cfg.N \in Nibble /\ cfg.M \in Nibble
         /\ cfg.N \in Int /\ cfg.M \in Int /\ MAX_DATASETS \in Int
         /\ 2 <= cfg.M /\ cfg.M <= cfg.N /\ cfg.N <= MAX_DATASETS /\ cfg.N <= 15
<1>1. cfg.N \in Nibble /\ cfg.M \in Nibble
  <2>1. cfg \in CfgWord
    BY DEF TypeOK, PortTypeOK
  <2>. QED  BY <2>1 DEF CfgWord
<1>2. cfg.N >= 2
  BY DEF Live, config_ok, used_datasets
<1>3. ModeChecked(cfg)
  BY <1>2 DEF ModeAccepted, Live
<1>. QED  BY <1>1, <1>3, MaxDatasetsAssumption DEF ModeChecked, Nibble

\* The mask has N members, so that a count of valid flags inside it reaches N
\* only when all of them are up, and four bits can hold it.
LEMMA MaskCounted ==
  ASSUME TypeOK, ModeAccepted, LoadsInMode, Live
  PROVE  /\ IsFiniteSet(mask) /\ Cardinality(mask) = cfg.N
         /\ dataset_cnt = Cardinality(valid) /\ Cardinality(valid) \in Nat
         /\ dataset_cnt >= cfg.N => valid = mask
<1>0. /\ cfg.N \in Int /\ MAX_DATASETS \in Int
      /\ 2 <= cfg.N /\ cfg.N <= MAX_DATASETS /\ cfg.N <= 15
  BY LiveMode
<1>1. mask = 0..(cfg.N - 1)
  BY <1>0 DEF mask, Lane, used_datasets
<1>2. IsFiniteSet(mask) /\ Cardinality(mask) = cfg.N
  BY <1>0, <1>1, FS_Interval
<1>3. valid \in SUBSET mask
  BY DEF LoadsInMode
<1>4. IsFiniteSet(valid) /\ Cardinality(valid) <= cfg.N
      /\ (Cardinality(valid) = cfg.N => valid = mask)
  BY <1>2, <1>3, FS_Subset
<1>5. Cardinality(valid) \in Nat
  BY <1>4, FS_CardinalityType
<1>6. dataset_cnt = Cardinality(valid)
  BY <1>0, <1>4, <1>5 DEF dataset_cnt
<1>. QED  BY <1>0, <1>2, <1>4, <1>5, <1>6

\* A round is live after a step only if the step opened it, on cleared flags,
\* or it was live before in the same mode; a dataset can then only have landed
\* while the window was open.
LEMMA RoundStep ==
  ASSUME TypeOK, Between, RoundNext, Live'
  PROVE  \/ /\ cfg.reset /\ cfg' \in Configs /\ ModeChecked(cfg') /\ valid' = {}
            /\ state_reg' = "idle"
         \/ /\ Live /\ cfg' = cfg /\ FsmStep
            /\ CompareEdge(compare_reset, compare_en, sets, used_datasets)
            /\ \/ valid' = valid /\ sets' = sets
               \/ /\ WindowOpen
                  /\ \E k \in mask, w \in Word :
                       valid' = valid \cup {k} /\ sets' = [sets EXCEPT ![k] = w]
<1>1. CASE StartRound
  <2>1. PICK c \in Configs : cfg.reset /\ ModeChecked(c) /\ WriteConfig(c)
    BY <1>1 DEF StartRound
  <2>2. valid' = {} /\ cfg' = c
    BY <2>1 DEF WriteConfig, Between, ModeAccepted
  <2>3. state_reg' = "idle"
    BY <2>1 DEF WriteConfig, CellEdge, FsmReset
  <2>. QED  BY <2>1, <2>2, <2>3
<1>2. CASE Release
  BY <1>2 DEF Release, WriteConfig, NoConfig, Live, config_ok, used_datasets
<1>3. CASE Command
  BY <1>3 DEF Command, ResetConfig, NoConfig, Live
<1>4. CASE HardReset
  BY <1>4 DEF HardReset, NoConfig, Live, config_ok, used_datasets
<1>5. CASE NoWrite
  <2>1. cfg' = cfg /\ sets' = sets /\ valid' = valid
    BY <1>5 DEF NoWrite, portVars
  <2>2. Live
    BY <2>1 DEF Live, config_ok, used_datasets, datasets_min
  <2>3. FsmStep /\ CompareEdge(compare_reset, compare_en, sets, used_datasets)
    BY <1>5, <2>2 DEF NoWrite, CellEdge, Live
  <2>. QED  BY <2>1, <2>2, <2>3
<1>6. CASE LoadInWindow
  <2>1. PICK k \in SetRegister, w \in Word :
          WindowOpen /\ k < used_datasets /\ WriteSet(k, w)
    BY <1>6 DEF LoadInWindow
  <2>2. Live /\ cfg' = cfg
    BY <2>1 DEF WindowOpen, WriteSet
  <2>3. k \in mask /\ k \in Lane
    BY <2>1, <2>2, LiveMode, RegisterAssumption DEF Between, mask, Lane, used_datasets
  <2>4. valid' = valid \cup {k} /\ sets' = [sets EXCEPT ![k] = w]
    BY <2>1, <2>3 DEF WriteSet
  <2>5. FsmStep /\ CompareEdge(compare_reset, compare_en, sets, used_datasets)
    BY <2>1, <2>2 DEF WriteSet, CellEdge, Live
  <2>. QED  BY <2>1, <2>2, <2>3, <2>4, <2>5
<1>. QED  BY <1>1, <1>2, <1>3, <1>4, <1>5, <1>6 DEF RoundNext

-----------------------------------------------------------------------------
\* Every write of a round is one the register file takes from any software, or
\* the acknowledgement; so is every write of a window below.
Written == Next \/ WriteConfig(NoConfig)

LEMMA RoundIsWritten == RoundNext => Written
BY DEF RoundNext, Written, Next, StartRound, Release, LoadInWindow

LEMMA WrittenIsEdge ==
  ASSUME Written
  PROVE  \E r \in {TRUE, cfg.reset} : CellEdge(r)
BY NextIsEdge DEF Written, WriteConfig

LEMMA WrittenTyped == TypeOK /\ Written => TypeOK'
<1>. SUFFICES ASSUME TypeOK, WriteConfig(NoConfig) PROVE TypeOK'
  BY TypeNext DEF Written
<1>1. CompareTypeOK' /\ FsmTypeOK'
  BY WrittenIsEdge, CellEdgeTyped DEF Written
<1>2. PortTypeOK'
  BY ConfigsTyped DEF TypeOK, PortTypeOK, WriteConfig
<1>. QED  BY <1>1, <1>2 DEF TypeOK

LEMMA RoundIsEdge ==
  ASSUME RoundNext
  PROVE  \E r \in {TRUE, cfg.reset} : CellEdge(r)
BY RoundIsWritten, WrittenIsEdge

LEMMA RoundTyped == TypeOK /\ [RoundNext]_vars => TypeOK'
BY RoundIsWritten, WrittenTyped, TypeNext

LEMMA BetweenNext ==
  ASSUME TypeOK, Between, RoundNext
  PROVE  Between'
<1>1. CASE NoWrite
  BY <1>1 DEF NoWrite, portVars, Between, ModeAccepted, ModeChecked
<1>2. CASE Command
  BY <1>2 DEF Command, ResetConfig, NoConfig, Between, ModeAccepted
<1>3. CASE HardReset
  BY <1>3 DEF HardReset, NoConfig, Between, ModeAccepted
<1>4. CASE StartRound
  BY <1>4 DEF StartRound, WriteConfig, Between, ModeAccepted, ModeChecked
<1>5. CASE Release
  BY <1>5 DEF Release, WriteConfig, NoConfig, Between, ModeAccepted
<1>6. CASE LoadInWindow
  BY <1>6 DEF LoadInWindow, WindowOpen, Live, WriteSet, Between, ModeAccepted, ModeChecked
<1>. QED  BY <1>1, <1>2, <1>3, <1>4, <1>5, <1>6 DEF RoundNext

-----------------------------------------------------------------------------
\* The collection: what is loaded, missing and flagged.
LEMMA CollectNext ==
  ASSUME CollectInv, RoundNext
  PROVE  CollectInv'
<1>. USE DEF CollectInv
<1>1. TypeOK' /\ ComparatorClean' /\ Between'
  BY RoundTyped, RoundIsEdge, CleanEdge, BetweenNext
<1>2. CASE ~Live'
  BY <1>1, <1>2 DEF LoadsInMode, FlagsDown, MissingIsFlagged, QuorumDecides, Decided
<1>3. CASE Live' /\ valid' = {} /\ state_reg' = "idle"
  BY <1>1, <1>3 DEF LoadsInMode, FlagsDown, MissingIsFlagged, QuorumDecides, Decided
<1>4. CASE /\ Live' /\ Live /\ cfg' = cfg /\ FsmStep
           /\ \/ valid' = valid
              \/ WindowOpen /\ \E k \in mask : valid' = valid \cup {k}
  <2>1. mask' = mask /\ datasets_min' = cfg.M
    BY <1>4 DEF mask, used_datasets, datasets_min
  <2>2. 2 <= cfg.M /\ cfg.M <= cfg.N /\ cfg.M \in Int /\ cfg.N \in Int
    BY <1>4, LiveMode DEF Between
  <2>3. valid \subseteq mask /\ valid' \subseteq mask
    BY <1>4 DEF LoadsInMode
  <2>4. LoadsInMode'
    BY <2>1, <2>3 DEF LoadsInMode
  <2>5. /\ dataset_cnt = Cardinality(valid) /\ Cardinality(valid) \in Nat
        /\ dataset_cnt >= cfg.N => valid = mask
    BY <1>4, MaskCounted DEF Between
  <2>. DEFINE Undecided == state_reg' \notin {"voting", "timeout", "result"}
              Settled   == /\ timeout_reg' = mask \ valid' /\ valid' = valid
                           /\ state_reg' = "timeout" <=> Cardinality(valid) < cfg.M
  <2>6. ASSUME FlagsDown', Undecided PROVE CollectInv'
    BY <1>1, <2>4, <2>6 DEF MissingIsFlagged, QuorumDecides, Decided
  <2>7. ASSUME Settled, state_reg' # "wait_datasets" PROVE CollectInv'
    <3>1. FlagsDown' /\ MissingIsFlagged' /\ QuorumDecides'
      BY <2>1, <2>7 DEF FlagsDown, MissingIsFlagged, QuorumDecides, Decided
    <3>. QED  BY <1>1, <2>4, <3>1
  <2>8. CASE ConfigMissing
    BY <1>4, <2>8 DEF ConfigMissing, Live
  <2>9. CASE AcceptConfig
    BY <2>6, <2>9 DEF AcceptConfig, FlagsDown
  <2>10. CASE AwaitDatasets
    BY <1>4, <2>6, <2>10 DEF AwaitDatasets, FlagsDown
  <2>11. CASE StartVote
    <3>1. valid = mask /\ valid' = valid /\ timeout_reg = {}
      BY <1>4, <2>5, <2>11 DEF StartVote, all_datasets_loaded, used_datasets, FlagsDown
    <3>2. Settled
      BY <1>4, <2>2, <2>5, <2>11, <3>1, MaskCounted DEF StartVote, Between
    <3>. QED  BY <2>7, <2>11, <3>2 DEF StartVote
  <2>12. CASE Expire
    <3>1. valid' = valid
      BY <1>4, <2>12 DEF Expire, WindowOpen
    <3>2. state_reg' = IF Cardinality(valid) >= cfg.M THEN "voting" ELSE "timeout"
      BY <2>5, <2>12 DEF Expire, datasets_min
    <3>3. Settled
      BY <2>2, <2>5, <2>12, <3>1, <3>2 DEF Expire
    <3>. QED  BY <2>7, <3>2, <3>3
  <2>13. CASE ComparePairs \/ FinishVote \/ HoldResult
    <3>1. state_reg \in {"voting", "timeout", "result"}
      BY <2>13 DEF ComparePairs, FinishVote, HoldResult, ready
    <3>2. /\ timeout_reg' = timeout_reg
          /\ state_reg' \in {"voting", "timeout", "result"}
          /\ state_reg' = "timeout" <=> state_reg = "timeout"
      BY <2>13, <3>1 DEF ComparePairs, FinishVote, HoldResult, fsmVars
    <3>3. valid' = valid
      BY <1>4, <3>1 DEF WindowOpen
    <3>4. Settled
      BY <1>4, <3>1, <3>2, <3>3 DEF MissingIsFlagged, QuorumDecides, Decided, datasets_min
    <3>. QED  BY <2>7, <3>2, <3>4
  <2>14. CASE Acknowledge
    BY <2>2, <2>14 DEF Acknowledge, datasets_min
  <2>. QED
    BY <1>4, <2>8, <2>9, <2>10, <2>11, <2>12, <2>13, <2>14 DEF FsmStep
<1>. QED  BY <1>2, <1>3, <1>4, RoundStep

LEMMA CollectInit == Init => CollectInv
<1>. SUFFICES ASSUME Init PROVE CollectInv
  OBVIOUS
<1>1. cfg.N = 0 /\ cfg.reset = FALSE
  BY DEF Init, NoConfig
<1>2. ~Live
  BY <1>1 DEF Live, config_ok, used_datasets
<1>. QED
  BY <1>1, <1>2, TypeInit
     DEF Init, FsmCleared, CollectInv, ComparatorClean, Between, ModeAccepted, LoadsInMode, FlagsDown,
         MissingIsFlagged, QuorumDecides, Decided

LEMMA CollectAlways == RoundSpec => []CollectInv
<1>1. CollectInv /\ [RoundNext]_vars => CollectInv'
  <2>1. ASSUME CollectInv, UNCHANGED vars PROVE CollectInv'
    BY <2>1
       DEF vars, CollectInv, TypeOK, CompareTypeOK, PortTypeOK, FsmTypeOK,
           ComparatorClean, CompareCleared, Between, ModeAccepted, ModeChecked, LoadsInMode, FlagsDown,
           MissingIsFlagged, QuorumDecides, Decided, Live, config_ok, mask,
           used_datasets, datasets_min
  <2>. QED  BY <2>1, CollectNext
<1>. QED  BY <1>1, CollectInit, PTL DEF RoundSpec

\* No missing dataset escapes the timeout flags, although the cell only counts
\* the valid flags (RVCell.sv:120-127,194).
THEOREM MissingAlwaysFlagged == RoundSpec => []MissingIsFlagged
<1>1. CollectInv => MissingIsFlagged
  BY DEF CollectInv
<1>. QED  BY <1>1, CollectAlways, PTL

\* A cell gives up exactly when fewer than M datasets arrived
\* (RVCell.sv:190-200).
THEOREM QuorumAlwaysDecides == RoundSpec => []QuorumDecides
<1>1. CollectInv => QuorumDecides
  BY DEF CollectInv
<1>. QED  BY <1>1, CollectAlways, PTL

-----------------------------------------------------------------------------
\* The vote: the walk over the pairs, spread over many clocks, stays exact.
LEMMA WalkNext ==
  ASSUME COUNT_MATCHES, CollectInv, WalkExact, RoundNext
  PROVE  WalkExact'
<1>. USE DEF CollectInv
<1>1. CASE ~(Live' /\ state_reg' \in {"voting", "result"})
  BY <1>1 DEF WalkExact
<1>2. CASE /\ state_reg' \in {"voting", "result"}
           /\ Live /\ cfg' = cfg /\ FsmStep
           /\ CompareEdge(compare_reset, compare_en, sets, used_datasets)
           /\ sets' = sets \/ WindowOpen
  <2>. DEFINE Exact == /\ i' < j' /\ j' < cfg.N /\ (done' => i' = cfg.N - 2)
                       /\ \A k \in Lane :
                            match_cnt'[k] =
                              Cardinality(MatchesAt(sets', cfg.N,
                                                    IF done' THEN cfg.N ELSE i', j', k))
                       /\ state_reg' = "result" => done'
  <2>1. cfg.N \in Nibble /\ cfg.N \in Int /\ 2 <= cfg.N /\ cfg.N <= MAX_DATASETS
        /\ 2 <= cfg.M
    BY <1>2, LiveMode DEF Between
  <2>2. ASSUME Exact PROVE WalkExact'
    BY <1>2, <2>2 DEF WalkExact, OnWalk, CountsAgree, RowAt, used_datasets
  <2>3. CASE state_reg = "wait_datasets"
    \* The comparator is cleared at the edge on which the vote begins.
    <3>1. i' = 0 /\ j' = 1 /\ done' = FALSE /\ \A k \in Lane : match_cnt'[k] = 0
      BY <1>2, <2>3 DEF CompareEdge, CompareReset, compare_reset
    <3>2. \A k \in Lane : Cardinality(MatchesAt(sets', cfg.N, 0, 1, k)) = 0
      BY <2>1, ClearedCounts
    <3>3. state_reg' # "result"
      BY <1>2, <2>3
         DEF FsmStep, ConfigMissing, AcceptConfig, AwaitDatasets, StartVote, Expire,
             ComparePairs, FinishVote, HoldResult, Acknowledge, ready, fsmVars
    <3>. QED  BY <2>1, <2>2, <3>1, <3>2, <3>3
  <2>4. CASE state_reg = "voting" /\ ~done
    <3>1. CompareStep(sets, cfg.N) /\ sets' = sets
      BY <1>2, <2>4
         DEF CompareEdge, compare_reset, compare_en, used_datasets, WindowOpen
    <3>2. OnWalk(cfg.N) /\ CountsAgree(sets, cfg.N)
      BY <1>2, <2>4 DEF WalkExact, used_datasets
    <3>3. CompareTypeOK
      BY DEF TypeOK
    <3>4. /\ i' < j' /\ j' < cfg.N /\ (done' => i' = cfg.N - 2)
          /\ \A k \in Lane :
               match_cnt'[k] =
                 Cardinality(MatchesAt(sets, cfg.N, IF done' THEN cfg.N ELSE i', j', k))
      BY <2>1, <3>1, <3>2, <3>3, CompareStepCounts
    <3>5. state_reg' # "result"
      BY <1>2, <2>4
         DEF FsmStep, ConfigMissing, AcceptConfig, AwaitDatasets, StartVote, Expire,
             ComparePairs, FinishVote, HoldResult, Acknowledge, ready, fsmVars
    <3>. QED  BY <2>2, <3>1, <3>4, <3>5
  <2>5. CASE (state_reg = "voting" /\ done) \/ state_reg = "result"
    <3>1. sets' = sets /\ UNCHANGED compareVars
      BY <1>2, <2>5
         DEF CompareEdge, CompareHold, compare_reset, compare_en, WindowOpen
    <3>2. OnWalk(cfg.N) /\ CountsAgree(sets, cfg.N) /\ done
      BY <1>2, <2>5 DEF WalkExact, used_datasets
    <3>. QED  BY <2>2, <3>1, <3>2 DEF compareVars, OnWalk, CountsAgree, RowAt
  <2>6. CASE state_reg \in {"idle", "timeout"}
    BY <1>2, <2>1, <2>6
       DEF FsmStep, ConfigMissing, AcceptConfig, AwaitDatasets, StartVote, Expire,
           ComparePairs, FinishVote, HoldResult, Acknowledge, ready, fsmVars
  <2>. QED  BY <2>3, <2>4, <2>5, <2>6 DEF TypeOK, FsmTypeOK, States
<1>. QED
  <2>1. CASE Live' /\ state_reg' \in {"voting", "result"}
    BY <1>2, <2>1, RoundStep
  <2>. QED  BY <1>1, <2>1

LEMMA WalkAlways ==
  ASSUME COUNT_MATCHES
  PROVE  RoundSpec => []RoundInv
<1>1. Init => RoundInv
  <2>1. Init => WalkExact
    BY DEF Init, FsmCleared, WalkExact
  <2>. QED  BY <2>1, CollectInit DEF RoundInv
<1>2. RoundInv /\ [RoundNext]_vars => RoundInv'
  <2>1. ASSUME RoundInv, RoundNext PROVE RoundInv'
    BY <2>1, CollectNext, WalkNext, COUNT_MATCHES DEF RoundInv
  <2>2. ASSUME RoundInv, UNCHANGED vars PROVE RoundInv'
    <3>1. CollectInv'
      BY <2>2
         DEF vars, RoundInv, CollectInv, TypeOK, CompareTypeOK, PortTypeOK, FsmTypeOK,
             ComparatorClean, CompareCleared, Between, ModeAccepted, ModeChecked, LoadsInMode,
             FlagsDown, MissingIsFlagged, QuorumDecides, Decided, Live, config_ok, mask,
             used_datasets, datasets_min
    <3>2. WalkExact'
      BY <2>2
         DEF vars, RoundInv, WalkExact, OnWalk, CountsAgree, RowAt, Live, config_ok,
             used_datasets, datasets_min
    <3>. QED  BY <3>1, <3>2 DEF RoundInv
  <2>. QED  BY <2>1, <2>2
<1>. QED  BY <1>1, <1>2, PTL DEF RoundSpec

\* A finished walk has counted, for each dataset of the mode, all its equals
\* but itself.
LEMMA EqualsCounted ==
  ASSUME CollectInv, WalkExact, Live, state_reg = "result", NEW k \in mask
  PROVE  /\ Cardinality(Equals(k)) = match_cnt[k] + 1
         /\ match_cnt[k] \in Nat
<1>. DEFINE others == MatchesAt(sets, cfg.N, cfg.N, j, k)
<1>1. cfg.N \in Int /\ cfg.N <= MAX_DATASETS
  BY LiveMode DEF CollectInv, Between
<1>2. k \in Lane /\ k < cfg.N
  BY DEF mask, used_datasets
<1>3. match_cnt[k] = Cardinality(others)
  BY <1>2 DEF WalkExact, CountsAgree, RowAt, used_datasets
<1>4. Equals(k) = others \cup {k} /\ k \notin others
  BY <1>1, <1>2 DEF Equals, mask, used_datasets, MatchesAt, SeenAt, Lane
<1>5. IsFiniteSet(others) /\ Cardinality(others) \in Nat
  BY LaneFinite, FS_Subset, FS_CardinalityType DEF MatchesAt
<1>. HIDE DEF others
<1>. QED  BY <1>3, <1>4, <1>5, FS_AddElement

LEMMA VerdictFollows ==
  ASSUME LIST_FAILURES, RoundInv
  PROVE  VerdictExact
<1>. USE DEF RoundInv
<1>. SUFFICES ASSUME Live, ready
     PROVE  failvec_res = IF Cardinality(valid) < datasets_min
                            THEN mask
                            ELSE {k \in mask : Cardinality(Equals(k)) < datasets_min}
  BY DEF VerdictExact
<1>1. cfg.M \in Int /\ 2 <= cfg.M
  BY LiveMode DEF CollectInv, Between
<1>2. failvec_res = {k \in mask : match_cnt[k] + 1 < cfg.M}
  BY DEF failvec_res, failvec, mask, datasets_min
<1>3. state_reg = "timeout" <=> Cardinality(valid) < cfg.M
  BY DEF CollectInv, QuorumDecides, Decided, ready, datasets_min
<1>4. CASE state_reg = "timeout"
  \* No vote was taken: the counters are clear.
  <2>1. \A k \in mask : match_cnt[k] = 0
    BY <1>4 DEF CollectInv, ComparatorClean, CompareCleared, mask
  <2>. QED  BY <1>1, <1>2, <1>3, <1>4, <2>1 DEF datasets_min
<1>5. CASE state_reg = "result"
  <2>1. \A k \in mask : Cardinality(Equals(k)) = match_cnt[k] + 1
    BY <1>5, EqualsCounted
  <2>. QED  BY <1>2, <1>3, <1>5, <2>1 DEF datasets_min
<1>. QED  BY <1>4, <1>5 DEF ready

\* The failure flags are those of a vote taken at once over the datasets, for
\* every mode and number of datasets (RVCell.sv:137-143, CompareUnit.sv:54-84).
THEOREM VerdictAlwaysExact ==
  ASSUME COUNT_MATCHES, LIST_FAILURES
  PROVE  RoundSpec => []VerdictExact
<1>1. RoundInv => VerdictExact
  BY VerdictFollows, LIST_FAILURES
<1>. QED  BY <1>1, WalkAlways, COUNT_MATCHES, PTL

-----------------------------------------------------------------------------
(***************************************************************************)
(* The collection window against the clock, when datasets may come at any  *)
(* moment: the inductive invariant.                                        *)
(***************************************************************************)

\* A dataset that is there was stamped, no later than now; one that is not
\* carries no stamp.
Stamped ==
  /\ age \in 0..MaxAge
  /\ arrival \in [Lane -> 0..Never]
  /\ cfg.reset => age = 0
  /\ \A k \in Lane : IF k \in valid THEN arrival[k] <= age ELSE arrival[k] = Never

\* The watchdog is the complement of the age: what is left of the window while
\* it is open, and flags are raised past its end only.
Clocked ==
  Live =>
    /\ state_reg = "idle" => age = 0
    /\ state_reg = "wait_datasets" => age + cnt = cfg.timeout + 1
    /\ state_reg \in {"idle", "wait_datasets"} => timeout_reg = {}
    /\ timeout_reg # {} => age > cfg.timeout + 1

\* When nothing but datasets of the mode came, each of them is flagged or came
\* in time.
EachAccounted ==
  Decided /\ valid \subseteq mask =>
    \A k \in mask : k \in timeout_reg \/ (k \in valid /\ arrival[k] <= cfg.timeout + 1)

WindowInv ==
  /\ TypeOK /\ ModeAccepted /\ Stamped /\ Clocked
  /\ NoFalseTimeout /\ EachAccounted

LEMMA WindowStart == WindowInit => WindowInv
<1>. SUFFICES ASSUME WindowInit PROVE WindowInv
  OBVIOUS
<1>1. TypeOK
  BY TypeInit DEF WindowInit
<1>2. ~Live /\ ModeAccepted /\ ~cfg.reset /\ valid = {}
  BY DEF WindowInit, Init, NoConfig, RegistersCleared, Live, config_ok, used_datasets,
         ModeAccepted
<1>3. Stamped
  BY <1>2, MaxAgeAssumption DEF WindowInit, Stamped, Never
<1>. QED
  BY <1>1, <1>2, <1>3 DEF WindowInv, Clocked, NoFalseTimeout, EachAccounted, Decided

LEMMA WindowIsWritten == WindowNext => Written
BY DEF WindowNext, Written, Next, StartRound, Release

\* A round is live after a step only if the step opened it, on a cleared cell,
\* or it was live before in the same mode; what is loaded then stays.
LEMMA WindowStep ==
  ASSUME TypeOK, ModeAccepted, WindowNext, Live'
  PROVE  \/ /\ cfg.reset /\ ModeChecked(cfg')
            /\ state_reg' = "idle" /\ timeout_reg' = {}
         \/ /\ Live /\ cfg' = cfg /\ FsmStep
            /\ valid \subseteq valid' /\ mask' = mask
<1>1. CASE StartRound
  <2>1. PICK c \in Configs : cfg.reset /\ ModeChecked(c) /\ WriteConfig(c)
    BY <1>1 DEF StartRound
  <2>. QED  BY <2>1 DEF WriteConfig, CellEdge, FsmReset
<1>2. CASE Release
  BY <1>2 DEF Release, WriteConfig, NoConfig, Live, config_ok, used_datasets
<1>3. CASE Command
  BY <1>3 DEF Command, ResetConfig, NoConfig, Live
<1>4. CASE NoWrite \/ \E k \in SetRegister, w \in Word : WriteSet(k, w)
  <2>1. cfg' = cfg /\ valid \subseteq valid' /\ CellEdge(cfg.reset)
    BY <1>4 DEF NoWrite, WriteSet, portVars
  <2>2. Live /\ mask' = mask
    BY <2>1 DEF Live, config_ok, used_datasets, datasets_min, mask
  <2>3. FsmStep
    BY <2>1, <2>2 DEF CellEdge, Live
  <2>. QED  BY <2>1, <2>2, <2>3
<1>. QED  BY <1>1, <1>2, <1>3, <1>4 DEF WindowNext

LEMMA ModeAcceptedNext ==
  ASSUME ModeAccepted, WindowNext
  PROVE  ModeAccepted'
<1>1. \/ cfg' = cfg
      \/ cfg' = ResetConfig
      \/ cfg' = NoConfig
      \/ ModeChecked(cfg')
  BY DEF WindowNext, NoWrite, portVars, Command, StartRound, Release, WriteConfig, WriteSet
<1>2. cfg' = cfg => ModeAccepted'
  BY DEF ModeAccepted, ModeChecked
<1>. QED  BY <1>1, <1>2 DEF ModeAccepted, ModeChecked, ResetConfig, NoConfig

\* The stamps follow the flags.
LEMMA StampedNext ==
  ASSUME TypeOK, Stamped, WindowNext
  PROVE  /\ Stamped'
         /\ age' \in Int /\ age \in Int
         /\ ~cfg.reset /\ ~cfg'.reset => age' = Older
         /\ \A k \in Lane : k \in valid' \ valid => arrival'[k] = age'
         /\ \A k \in valid \cap valid' : arrival'[k] = arrival[k]
<1>1. valid' \in SUBSET Lane /\ valid \in SUBSET Lane
  BY WindowIsWritten, WrittenTyped DEF TypeOK, PortTypeOK
<1>2. Stamp
  BY DEF WindowNext
<1>3. age \in 0..MaxAge /\ MaxAge \in Nat
  BY MaxAgeAssumption DEF Stamped
<1>4. Older \in 0..MaxAge /\ age <= Older
  BY <1>3 DEF Older
<1>5. age' \in 0..MaxAge /\ (cfg'.reset => age' = 0)
  BY <1>2, <1>3, <1>4 DEF Stamp
<1>6. arrival' = [k \in Lane |->
        IF k \notin valid' THEN Never ELSE IF k \in valid THEN arrival[k] ELSE age']
  BY <1>2 DEF Stamp
<1>7. arrival' \in [Lane -> 0..Never]
  BY <1>3, <1>5, <1>6 DEF Stamped, Never
<1>8. ASSUME NEW k \in Lane, k \in valid, k \in valid'
      PROVE  arrival[k] <= age'
  <2>1. arrival[k] <= age /\ arrival[k] \in Int /\ arrival[k] >= 0
    BY <1>3, <1>8 DEF Stamped, Never
  <2>2. CASE ~cfg.reset /\ ~cfg'.reset
    BY <1>2, <1>3, <1>4, <2>1, <2>2 DEF Stamp
  <2>3. CASE cfg.reset
    BY <1>3, <1>5, <2>1, <2>3 DEF Stamped
  <2>4. CASE ~cfg.reset /\ cfg'.reset
    <3>1. valid' = {}
      BY <2>4, RegisterAssumption
         DEF WindowNext, NoWrite, portVars, Command, StartRound, Release, WriteConfig,
             WriteSet, NoConfig
    <3>. QED  BY <1>8, <3>1
  <2>. QED  BY <2>2, <2>3, <2>4
<1>9. \A k \in Lane : IF k \in valid' THEN arrival'[k] <= age' ELSE arrival'[k] = Never
  BY <1>5, <1>6, <1>8
<1>10. Stamped'
  BY <1>5, <1>7, <1>9 DEF Stamped, Never
<1>. QED  BY <1>1, <1>2, <1>3, <1>5, <1>6, <1>10 DEF Stamp

\* The end of a window, as the number the stamps are compared with.
LEMMA WindowEnd ==
  ASSUME TypeOK
  PROVE  /\ cfg.timeout \in Int /\ cfg.timeout >= 0 /\ cnt \in Int /\ cnt >= 0
         /\ MaxAge \in Int /\ cfg.timeout + 1 < MaxAge /\ Never = MaxAge + 1
<1>1. cfg.timeout \in Timeout \cup {0}
  BY DEF TypeOK, PortTypeOK, CfgWord
<1>2. \A t \in Timeout \cup {0} : t \in Nat /\ t + 1 < MaxAge
  BY MaxAgeAssumption, CellAssumption
<1>3. cfg.timeout \in Nat /\ cfg.timeout + 1 < MaxAge
  BY <1>1, <1>2, Zenon
<1>. QED  BY <1>3, MaxAgeAssumption DEF TypeOK, FsmTypeOK, Never

\* What an edge of a live round does to the clock and the flags.
LEMMA ClockedNext ==
  ASSUME WindowInv, WindowNext
  PROVE  Clocked' /\ NoFalseTimeout'
<1>. USE DEF WindowInv
<1>. DEFINE end == cfg.timeout + 1
<1>. SUFFICES ASSUME Live' PROVE Clocked' /\ NoFalseTimeout'
  BY DEF Clocked, NoFalseTimeout
<1>1. ~cfg'.reset
  BY DEF Live
<1>2. TypeOK' /\ Stamped'
  BY WindowIsWritten, WrittenTyped, StampedNext
<1>3. CASE cfg.reset /\ state_reg' = "idle" /\ timeout_reg' = {}
  <2>1. age' = 0
    BY <1>3 DEF WindowNext, Stamp
  <2>. QED  BY <1>3, <2>1 DEF Clocked, NoFalseTimeout
<1>4. CASE /\ Live /\ cfg' = cfg /\ FsmStep
           /\ valid \subseteq valid' /\ mask' = mask
  <2>1. /\ end \in Int /\ cnt \in Int /\ cnt >= 0 /\ age \in Int /\ age' \in Int
        /\ MaxAge \in Int /\ end < MaxAge /\ age <= MaxAge
        /\ Never = MaxAge + 1
    BY WindowEnd, StampedNext DEF Stamped
  <2>2. age' = IF age < MaxAge THEN age + 1 ELSE MaxAge
    BY <1>1, <1>4, StampedNext DEF Live, Older
  <2>. HIDE DEF end
  \* Time does not run backwards over the end of the window.
  <2>3. age > end => age' > end
    BY ONLY <2>1, <2>2
  <2>4. CASE state_reg = "idle"
    <3>1. age = 0 /\ state_reg' = "wait_datasets" /\ cnt' = cfg.timeout /\ timeout_reg' = {}
      BY <1>4, <2>4
         DEF Clocked, Live, FsmStep, ConfigMissing, AcceptConfig, AwaitDatasets, StartVote,
             Expire, ComparePairs, FinishVote, HoldResult, Acknowledge, ready, fsmVars
    <3>2. age' + cnt' = end
      <4>1. age' = 1
        BY <2>1, <2>2, <3>1, WindowEnd DEF end
      <4>. QED  BY <3>1, <4>1, WindowEnd DEF end
    <3>. QED  BY <1>4, <3>1, <3>2 DEF Clocked, NoFalseTimeout, end
  <2>5. CASE state_reg = "wait_datasets" /\ ~counter_expired
    <3>1. /\ state_reg' \in {"wait_datasets", "voting"}
          /\ cnt' = cnt - 1 /\ timeout_reg' = {} /\ age + cnt = end
      BY <1>4, <2>5
         DEF Clocked, FsmStep, ConfigMissing, AcceptConfig, AwaitDatasets, StartVote,
             Expire, ComparePairs, FinishVote, HoldResult, Acknowledge, ready, fsmVars, end
    <3>2. age' + cnt' = end
      BY <2>1, <2>2, <3>1
    <3>. QED  BY <1>4, <3>1, <3>2 DEF Clocked, NoFalseTimeout, end
  <2>6. CASE state_reg = "wait_datasets" /\ counter_expired
    <3>1. /\ state_reg' \in {"voting", "timeout"}
          /\ timeout_reg' = mask \ valid /\ age + cnt = end /\ cnt = 0
      BY <1>4, <2>6
         DEF Clocked, FsmStep, ConfigMissing, AcceptConfig, AwaitDatasets, StartVote,
             Expire, ComparePairs, FinishVote, HoldResult, Acknowledge, ready, fsmVars, end,
             counter_expired
    <3>2. age' > end
      BY <2>1, <2>2, <3>1
    <3>3. \A k \in timeout_reg' : arrival'[k] > end
      <4>. SUFFICES ASSUME NEW k \in timeout_reg' PROVE arrival'[k] > end
        OBVIOUS
      <4>1. k \in Lane /\ k \notin valid
        BY <3>1 DEF mask
      <4>2. arrival'[k] = Never \/ arrival'[k] = age'
        BY <1>2, <4>1, StampedNext DEF Stamped
      <4>. QED  BY <2>1, <3>2, <4>2
    <3>. QED  BY <1>4, <3>1, <3>2, <3>3 DEF Clocked, NoFalseTimeout, end
  <2>7. CASE state_reg \in {"voting", "timeout", "result"}
    <3>1. state_reg' \in {"voting", "timeout", "result"} /\ timeout_reg' = timeout_reg
      BY <1>4, <2>7
         DEF Live, config_ok, FsmStep, ConfigMissing, AcceptConfig, AwaitDatasets, StartVote,
             Expire, ComparePairs, FinishVote, HoldResult, Acknowledge, ready, fsmVars
    <3>2. timeout_reg' # {} => age' > end
      BY <1>4, <2>3, <3>1 DEF Clocked, end
    <3>3. \A k \in timeout_reg' : arrival'[k] > end
      <4>. SUFFICES ASSUME NEW k \in timeout_reg' PROVE arrival'[k] > end
        OBVIOUS
      <4>1. k \in Lane /\ arrival[k] > end /\ age' > end
        BY <1>4, <3>1, <3>2 DEF TypeOK, FsmTypeOK, NoFalseTimeout, end
      <4>2. arrival'[k] = Never \/ arrival'[k] = age' \/ arrival'[k] = arrival[k]
        BY <1>2, <4>1, StampedNext DEF Stamped
      <4>. QED  BY <2>1, <4>1, <4>2
    <3>. QED  BY <1>4, <3>1, <3>2, <3>3 DEF Clocked, NoFalseTimeout, end
  <2>. QED  BY <2>4, <2>5, <2>6, <2>7 DEF TypeOK, FsmTypeOK, States
<1>. QED  BY <1>3, <1>4, WindowStep

LEMMA AccountedNext ==
  ASSUME WindowInv, WindowNext
  PROVE  EachAccounted'
<1>. USE DEF WindowInv
<1>. DEFINE end == cfg.timeout + 1
<1>. SUFFICES ASSUME Decided', (valid \subseteq mask)', NEW k \in mask'
     PROVE  k \in timeout_reg' \/ (k \in valid' /\ arrival'[k] <= cfg'.timeout + 1)
  BY DEF EachAccounted
<1>1. Live' /\ state_reg' \in {"voting", "timeout", "result"}
  BY DEF Decided
<1>2. /\ Live /\ cfg' = cfg /\ FsmStep
      /\ valid \subseteq valid' /\ mask' = mask
  BY <1>1, WindowStep
<1>3. valid \subseteq mask /\ k \in mask /\ k \in Lane
  BY <1>2 DEF mask
\* A dataset that was there before the step keeps its stamp.
<1>4. ASSUME k \in valid, arrival[k] <= end
      PROVE  k \in valid' /\ arrival'[k] <= cfg'.timeout + 1
  BY <1>2, <1>4, StampedNext
<1>5. CASE state_reg \in {"voting", "timeout", "result"}
  <2>1. timeout_reg' = timeout_reg
    BY <1>2, <1>5
       DEF FsmStep, ConfigMissing, AcceptConfig, AwaitDatasets, StartVote,
           Expire, ComparePairs, FinishVote, HoldResult, Acknowledge, ready, fsmVars
  <2>2. k \in timeout_reg \/ (k \in valid /\ arrival[k] <= end)
    BY <1>2, <1>3, <1>5 DEF EachAccounted, Decided
  <2>. QED  BY <1>4, <2>1, <2>2
\* The collection ends at this edge.
<1>6. CASE state_reg = "wait_datasets"
  <2>1. age + cnt = end /\ end \in Int /\ cnt \in Int /\ cnt >= 0 /\ age \in Int
    BY <1>2, <1>6, WindowEnd, StampedNext DEF Clocked
  <2>2. ASSUME k \in valid PROVE arrival[k] <= end
    <3>1. arrival[k] <= age /\ arrival[k] \in Int
      BY <1>3, <2>2, WindowEnd DEF Stamped
    <3>. HIDE DEF end
    <3>. QED  BY <2>1, <3>1
  <2>3. CASE Expire
    <3>1. k \in timeout_reg' \/ k \in valid
      BY <1>3, <2>3 DEF Expire
    <3>. QED  BY <1>4, <2>2, <3>1
  <2>4. CASE StartVote
    \* As many flags as the mode has datasets are up, and none of another.
    <3>1. valid = mask
      BY <1>2, <1>3, <2>4, MaskCounted
         DEF LoadsInMode, StartVote, all_datasets_loaded, used_datasets
    <3>. QED  BY <1>3, <1>4, <2>2, <3>1
  <2>5. StartVote \/ Expire
    BY <1>1, <1>2, <1>6
       DEF FsmStep, ConfigMissing, AcceptConfig, AwaitDatasets, ComparePairs, FinishVote,
           HoldResult, Acknowledge, ready
  <2>. QED  BY <2>3, <2>4, <2>5
<1>7. CASE state_reg = "idle"
  BY <1>1, <1>2, <1>7
     DEF Live, FsmStep, ConfigMissing, AcceptConfig, AwaitDatasets, StartVote, Expire,
         ComparePairs, FinishVote, HoldResult, Acknowledge, ready
<1>. QED  BY <1>5, <1>6, <1>7 DEF TypeOK, FsmTypeOK, States

LEMMA WindowStutter ==
  WindowInv /\ UNCHANGED <<vars, windowVars>> => WindowInv'
BY DEF WindowInv, TypeOK, CompareTypeOK, PortTypeOK, FsmTypeOK, ModeAccepted, ModeChecked,
       Stamped, Clocked, NoFalseTimeout, EachAccounted, Decided, Live, config_ok, mask,
       used_datasets, datasets_min, vars, windowVars

\* The watchdog, the flags and the age of a round stay in step, whenever the
\* datasets come (Counter.sv:20-39, RVCell.sv:184-199).
THEOREM WindowInvariant == WindowSpec => []WindowInv
<1>1. WindowInv /\ [WindowNext]_<<vars, windowVars>> => WindowInv'
  <2>1. ASSUME WindowInv, WindowNext PROVE WindowInv'
    <3>1. TypeOK' /\ ModeAccepted' /\ Stamped'
      BY <2>1, WindowIsWritten, WrittenTyped, ModeAcceptedNext, StampedNext DEF WindowInv
    <3>2. Clocked' /\ NoFalseTimeout' /\ EachAccounted'
      BY <2>1, ClockedNext, AccountedNext
    <3>. QED  BY <3>1, <3>2 DEF WindowInv
  <2>. QED  BY <2>1, WindowStutter
<1>. QED  BY <1>1, WindowStart, PTL DEF WindowSpec

\* A dataset that came in its window is never reported as timed out, for every
\* window, number of datasets and mode (rootvoter.sv:50-51).
THEOREM NeverFalseTimeout == WindowSpec => []NoFalseTimeout
<1>1. WindowInv => NoFalseTimeout
  BY DEF WindowInv
<1>. QED  BY <1>1, WindowInvariant, PTL

\* A round waits out its window for a missing dataset, unless datasets that are
\* not of its mode were written (RVCell.sv:184-199).
THEOREM WindowAlwaysGranted == WindowSpec => []FullWindowGranted
<1>1. ASSUME WindowInv PROVE FullWindowGranted
  <2>. SUFFICES ASSUME Live, valid \subseteq mask, age <= cfg.timeout + 1,
                       state_reg \notin {"idle", "wait_datasets"},
                       NEW k \in mask
       PROVE  k \in valid
    BY <1>1 DEF FullWindowGranted, WindowInv, TypeOK, FsmTypeOK, States
  <2>1. Decided
    BY <1>1 DEF Decided, WindowInv, TypeOK, FsmTypeOK, States
  <2>2. timeout_reg = {}
    <3>1. age \in Int /\ cfg.timeout \in Int
      BY <1>1, WindowEnd DEF WindowInv, Stamped
    <3>. QED  BY <1>1, <3>1 DEF WindowInv, Clocked
  <2>. QED  BY <1>1, <2>1, <2>2 DEF WindowInv, EachAccounted
<1>. QED  BY <1>1, WindowInvariant, PTL

\* A dataset that came after the window, or never, is reported, as long as all
\* that came were of the mode (RVCell.sv:194).
THEOREM LateAlwaysReported == WindowSpec => []LateIsReported
<1>1. ASSUME WindowInv PROVE LateIsReported
  <2>. USE DEF WindowInv
  <2>. SUFFICES ASSUME Decided, \A k \in Lane \ mask : arrival[k] = Never,
                       NEW k \in mask, arrival[k] > cfg.timeout + 1
       PROVE  k \in timeout_reg
    BY DEF LateIsReported
  <2>1. MaxAge \in Int /\ Never = MaxAge + 1 /\ age \in Int /\ age <= MaxAge
    BY <1>1, WindowEnd DEF Stamped
  <2>2. valid \subseteq mask
    <3>. SUFFICES ASSUME NEW l \in valid, l \notin mask PROVE FALSE
      OBVIOUS
    <3>1. l \in Lane
      BY <1>1 DEF TypeOK, PortTypeOK
    <3>2. arrival[l] = Never /\ arrival[l] <= age
      BY <1>1, <3>1 DEF Stamped
    <3>. QED  BY <2>1, <3>2
  <2>3. k \in Lane /\ arrival[k] \in Int /\ cfg.timeout + 1 \in Int
    BY <1>1, WindowEnd DEF mask, Stamped
  <2>4. k \in timeout_reg \/ arrival[k] <= cfg.timeout + 1
    BY <1>1, <2>2 DEF EachAccounted
  <2>. QED  BY <2>3, <2>4
<1>. QED  BY <1>1, WindowInvariant, PTL

\* The flags of a round are final once the collection is over, whatever is
\* written then (RVCell.sv:168,194).
THEOREM FlagsStayFinal == WindowSpec => TimeoutFlagsFinal
<1>1. ASSUME WindowInv, [WindowNext]_<<vars, windowVars>>, Decided, Live'
      PROVE  timeout_reg' = timeout_reg
  <2>1. CASE UNCHANGED <<vars, windowVars>>
    BY <2>1 DEF vars
  <2>2. CASE WindowNext
    <3>1. Live /\ FsmStep
      BY <1>1, <2>2, WindowStep DEF WindowInv, Decided, Live
    <3>. QED
      BY <1>1, <3>1
         DEF Decided, FsmStep, ConfigMissing, AcceptConfig, AwaitDatasets, StartVote,
             Expire, ComparePairs, FinishVote, HoldResult, Acknowledge, ready, fsmVars
  <2>. QED  BY <1>1, <2>1, <2>2
<1>. QED  BY <1>1, WindowInvariant, PTL DEF WindowSpec, TimeoutFlagsFinal

-----------------------------------------------------------------------------
(***************************************************************************)
(* A cell is the abstract vote, step by step.  Beyond the invariant of a   *)
(* round, a dataset that was not written still has the word its register   *)
(* was cleared to: it takes part in the vote with that word.               *)
(***************************************************************************)
Unloaded == \A k \in Lane \ valid : sets[k] = Zero

LEMMA UnloadedNext == TypeOK /\ Unloaded /\ [RoundNext]_vars => Unloaded'
<1>1. ASSUME TypeOK, Unloaded, RoundNext PROVE Unloaded'
  BY <1>1
     DEF TypeOK, PortTypeOK, Unloaded, RoundNext, NoWrite, portVars, Command, HardReset,
         StartRound, Release, LoadInWindow, WriteConfig, WriteSet
<1>2. ASSUME Unloaded, UNCHANGED vars PROVE Unloaded'
  BY <1>2 DEF Unloaded, vars
<1>. QED  BY <1>1, <1>2

\* The parts of the refinement mapping, for a live round.
TheMode    == [M |-> cfg.M, N |-> cfg.N]
TheBallots == [k \in valid |-> sets[k]]
TheVerdict == [timeout |-> timeout_reg, failvec |-> failvec_res]

VoteInv == RoundInv /\ Unloaded

\* The instance counts like the module it is in.
LEMMA VoteCounts == \A S : Vote!Cardinality(S) = Cardinality(S)
BY DEF Vote!Cardinality, Cardinality

\* What can be read when the cell is ready is the decision on the ballots.
LEMMA VerdictIsDecision ==
  ASSUME LIST_FAILURES
  PROVE  VoteInv /\ Live /\ ready => TheVerdict = Vote!Decision(TheMode, TheBallots)
<1>. SUFFICES ASSUME VoteInv, Live, ready
     PROVE  TheVerdict = Vote!Decision(TheMode, TheBallots)
  OBVIOUS
<1>. USE DEF VoteInv
<1>1. Vote!Used(TheMode) = mask
  BY DEF Vote!Used, TheMode, mask, used_datasets
<1>2. DOMAIN TheBallots = valid
  BY DEF TheBallots
<1>3. timeout_reg = mask \ valid
  BY DEF RoundInv, CollectInv, MissingIsFlagged, Decided, ready
<1>4. \A k \in mask : Vote!Ballot(TheBallots, k) = sets[k]
  BY DEF Vote!Ballot, TheBallots, Unloaded, mask
<1>5. \A k \in mask : Vote!Supporters(TheMode, TheBallots, k) = Equals(k)
  BY <1>1, <1>4 DEF Vote!Supporters, Equals
<1>6. VerdictExact
  BY VerdictFollows, LIST_FAILURES
<1>7. failvec_res = IF Cardinality(valid) < TheMode.M
        THEN mask
        ELSE {k \in mask : Cardinality(Vote!Supporters(TheMode, TheBallots, k)) < TheMode.M}
  BY <1>5, <1>6 DEF VerdictExact, datasets_min, TheMode
<1>. QED
  BY <1>1, <1>2, <1>3, <1>7, VoteCounts DEF Vote!Decision, TheVerdict

\* The edge that opens a round, the edges of a round, and those that end it.
LEMMA VoteStep ==
  ASSUME LIST_FAILURES, VoteInv, VoteInv', RoundNext
  PROVE  [Vote!VotingNext]_(Vote!votingVars)
<1>. USE DEF VoteInv, RoundInv, CollectInv
<1>1. CASE ~Live /\ ~Live'
  BY <1>1 DEF Vote!votingVars, Phase
<1>2. CASE ~Live /\ Live'
  <2>1. cfg' \in Configs /\ ModeChecked(cfg') /\ valid' = {} /\ state_reg' = "idle"
    BY <1>2, RoundStep
  <2>2. ~ready'
    BY <2>1 DEF ready
  <2>. QED  BY <1>2, <2>1, <2>2 DEF Vote!VotingNext, Vote!Open, Phase
<1>3. CASE Live /\ ~Live'
  BY <1>3 DEF Vote!VotingNext, Vote!Close, Vote!NoMode, Vote!NoVerdict, Phase
<1>4. CASE Live /\ Live'
  <2>1. /\ cfg' = cfg /\ FsmStep
        /\ CompareEdge(compare_reset, compare_en, sets, used_datasets)
        /\ \/ valid' = valid /\ sets' = sets
           \/ /\ WindowOpen
              /\ \E k \in mask, w \in Word :
                   valid' = valid \cup {k} /\ sets' = [sets EXCEPT ![k] = w]
    BY <1>4, RoundStep DEF Live
  <2>2. TheMode' = TheMode
    BY <2>1 DEF TheMode
  <2>3. CASE ready
    <3>1. ready' /\ valid' = valid /\ sets' = sets
      BY <1>4, <2>1, <2>3
         DEF ready, WindowOpen, Live, config_ok, FsmStep, ConfigMissing, AcceptConfig,
             AwaitDatasets, StartVote, Expire, ComparePairs, FinishVote, HoldResult,
             Acknowledge, fsmVars
    <3>2. timeout_reg' = timeout_reg /\ failvec_res' = failvec_res
      BY <2>1, <2>3, <3>1, RoundIsEdge, StableEdge
    <3>. QED  BY <1>4, <2>1, <2>3, <3>1, <3>2 DEF Vote!votingVars, Phase
  <2>4. CASE ~ready /\ ~ready' /\ valid' = valid /\ sets' = sets
    BY <1>4, <2>1, <2>4 DEF Vote!votingVars, Phase
  <2>5. CASE ~ready /\ ~ready' /\ ~(valid' = valid /\ sets' = sets)
    <3>1. PICK k \in mask, w \in Word :
            valid' = valid \cup {k} /\ sets' = [sets EXCEPT ![k] = w]
      BY <2>1, <2>5
    <3>2. TheBallots' =
            [l \in DOMAIN TheBallots \cup {k} |-> IF l = k THEN w ELSE TheBallots[l]]
      BY <3>1 DEF TheBallots, TypeOK, PortTypeOK, mask
    <3>3. k \in Vote!Used(TheMode)
      BY DEF Vote!Used, TheMode, mask, used_datasets
    <3>. QED
      BY <1>4, <2>2, <2>5, <3>2, <3>3
         DEF Vote!VotingNext, Vote!HandIn, Phase, TheMode, TheBallots
  <2>6. CASE ~ready /\ ready'
    <3>1. valid' = valid /\ sets' = sets
      BY <2>1, <2>6
         DEF ready, WindowOpen, Live, counter_expired, FsmStep, ConfigMissing, AcceptConfig,
             AwaitDatasets, StartVote, Expire, ComparePairs, FinishVote, HoldResult,
             Acknowledge, fsmVars
    <3>2. TheBallots' = TheBallots
      BY <3>1 DEF TheBallots
    <3>3. (VoteInv /\ Live /\ ready => TheVerdict = Vote!Decision(TheMode, TheBallots))'
      BY VerdictIsDecision, LIST_FAILURES, PTL
    <3>4. TheVerdict' = Vote!Decision(TheMode, TheBallots)
      BY <1>4, <2>2, <2>6, <3>2, <3>3
    <3>. QED
      BY <1>4, <2>2, <2>6, <3>2, <3>4
         DEF Vote!VotingNext, Vote!Decide, Phase, TheMode, TheBallots, TheVerdict
  <2>. QED  BY <2>3, <2>4, <2>5, <2>6
<1>. QED  BY <1>1, <1>2, <1>3, <1>4

LEMMA VoteAlways ==
  ASSUME COUNT_MATCHES
  PROVE  RoundSpec => []VoteInv
<1>1. Init => Unloaded
  BY DEF Init, RegistersCleared, Unloaded
<1>2. RoundInv => TypeOK
  BY DEF RoundInv, CollectInv
<1>. QED
  BY <1>1, <1>2, WalkAlways, UnloadedNext, COUNT_MATCHES, PTL DEF RoundSpec, VoteInv

\* A cell opens, collects, decides and closes as Voting says: at once, from
\* what was handed in, in one of the accepted modes, and never twice.
THEOREM CellIsVote ==
  ASSUME COUNT_MATCHES, LIST_FAILURES
  PROVE  RoundSpec => Vote!VotingInit /\ [][Vote!VotingNext]_(Vote!votingVars)
<1>1. Init => Vote!VotingInit
  BY DEF Init, NoConfig, Live, config_ok, used_datasets, Phase, Vote!VotingInit,
         Vote!NoMode, Vote!NoVerdict
<1>2. VoteInv /\ VoteInv' /\ [RoundNext]_vars => [Vote!VotingNext]_(Vote!votingVars)
  <2>1. ASSUME UNCHANGED vars PROVE UNCHANGED Vote!votingVars
    BY <2>1
       DEF vars, Vote!votingVars, Phase, Live, config_ok, used_datasets, datasets_min,
           ready, failvec_res, failvec, mask
  <2>. QED  BY <2>1, VoteStep, LIST_FAILURES
<1>. QED  BY <1>1, <1>2, VoteAlways, COUNT_MATCHES, PTL DEF RoundSpec

-----------------------------------------------------------------------------
(***************************************************************************)
(* The driver: what RVC_reset and RVC_vote return, for any number of       *)
(* registers and workers, any modes and windows, and any number of rounds. *)
(* The first part is about every caller; the second about callers that     *)
(* wait for their workers, whose rounds are those of RootVoterRound until  *)
(* the window closes.                                                      *)
(***************************************************************************)

(* The supervisor and the unit it talks to.                                *)
Features == [max_sets |-> MAX_DATASETS % 32, list_failures |-> LIST_FAILURES,
             count_matches |-> COUNT_MATCHES]

Arguments == [M : Nibble, N : Nibble, wait : Nat]
VoteResult == [failvec : SUBSET Lane, timeout : SUBSET Lane,
               match_cnt : [Lane -> Nibble], agreement : BOOLEAN]

DriverTyped ==
  /\ TypeOK
  /\ caller \in Callers
  /\ inf = IF pc = "sync" THEN NoInfo ELSE Features
  /\ args \in Arguments
  /\ rvc \in [M : Nibble, N : Nibble, timeout : Nat]
  /\ res \in VoteResult
  /\ wpc \in [Workers -> {"stalled", "running"}]
  /\ wval \in [Workers -> Word]

\* The unit has the configuration of the round.
Configured ==
  /\ ~cfg.reset /\ ModeChecked(cfg)
  /\ cfg.M = rvc.M /\ cfg.N = rvc.N
  /\ args.M = rvc.M /\ args.N = rvc.N

Resetting == {"reset_resp", "reset_read", "reset_cfg", "reset_failed"}
Polling   == {"start", "vote_poll", "vote_cnt", "voted"}

\* After a reset that failed and was ignored the unit stays in reset.
Phases ==
  /\ pc \in {"sync", "call_reset"} \cup Resetting \cup Polling
  /\ pc \in Resetting => cfg.reset
  /\ pc \in Resetting \ {"reset_resp"} => state_reg = "idle"
  /\ pc = "reset_cfg" => ModeChecked(rvc) /\ args.M = rvc.M /\ args.N = rvc.N
  /\ pc \in Polling => Configured \/ (pc = "vote_poll" /\ cfg.reset /\ state_reg = "idle")

\* What has been read is what can still be read.
ReadOut ==
  /\ pc \in {"vote_cnt", "voted"} =>
       /\ ready
       /\ res.timeout = timeout_reg
       /\ res.failvec = IF LIST_FAILURES THEN failvec_res ELSE {}
  /\ pc = "voted" =>
       /\ COUNT_MATCHES => res.match_cnt = match_cnt
       /\ res.agreement = Agreement(res.failvec, res.match_cnt)

DriverInv == DriverTyped /\ ComparatorClean /\ Phases /\ ReadOut

-----------------------------------------------------------------------------
LEMMA DriverStart == DriverInit => DriverInv
<1>. SUFFICES ASSUME DriverInit PROVE DriverInv
  OBVIOUS
<1>1. TypeOK /\ ComparatorClean
  BY TypeInit DEF DriverInit, Init, FsmCleared, ComparatorClean
<1>2. args \in Arguments
  BY DEF DriverInit, Arguments, Nibble
<1>3. rvc \in [M : Nibble, N : Nibble, timeout : Nat]
  BY DEF DriverInit, Nibble
<1>4. res \in VoteResult
  BY DEF DriverInit, VoteResult, NoResult, Nibble
<1>5. /\ wpc \in [Workers -> {"stalled", "running"}]
      /\ wval \in [Workers -> Word]
  BY ZeroAssumption DEF DriverInit
<1>6. DriverTyped
  BY <1>1, <1>2, <1>3, <1>4, <1>5 DEF DriverInit, DriverTyped
<1>. QED  BY <1>1, <1>6 DEF DriverInit, DriverInv, Phases, ReadOut, Resetting, Polling

\* Whatever the cores do, a step is a clock edge.
LEMMA DriverIsEdge ==
  ASSUME DriverNext
  PROVE  CellEdge(cfg.reset)
BY DEF DriverNext, Supervisor, Tick, WorkerLoad, RVC_sync, ResetCommand, ResetResponse,
       ResetCheck, ResetConfigure, RetryReset, StartWorkers, PollBusy, PollReady,
       ReadCounters, NextRound, NoWrite, Command, WriteConfig, WriteSet

LEMMA ConfigTyped ==
  ASSUME DriverTyped
  PROVE  [reset |-> FALSE, timeout |-> rvc.timeout % TimeoutSpan,
          M |-> rvc.M, N |-> rvc.N] \in CfgWord
<1>1. rvc.M \in Nibble /\ rvc.N \in Nibble /\ rvc.timeout \in Nat
  BY DEF DriverTyped
<1>2. rvc.timeout % TimeoutSpan \in 0 .. TimeoutSpan - 1
  BY <1>1, DriverAssumption
<1>3. rvc.timeout % TimeoutSpan \in Timeout \cup {0}
  BY <1>2, DriverAssumption
<1>. QED  BY <1>1, <1>3 DEF CfgWord

LEMMA RegistersTyped ==
  ASSUME DriverTyped, DriverNext
  PROVE  TypeOK'
<1>. USE DEF DriverTyped
<1>1. CompareTypeOK' /\ FsmTypeOK'
  BY DriverIsEdge, CellEdgeTyped
<1>2. CASE NoWrite
  BY <1>1, <1>2 DEF NoWrite, portVars, TypeOK, PortTypeOK
<1>3. CASE Command
  BY <1>1, <1>3, ConfigsTyped, ZeroAssumption DEF Command, TypeOK, PortTypeOK
<1>4. CASE ResetConfigure
  BY <1>1, <1>4, ConfigTyped DEF ResetConfigure, WriteConfig, TypeOK, PortTypeOK
<1>5. CASE \E k \in Workers : WriteSet(k, wval[k])
  <2>1. PICK k \in Workers : WriteSet(k, wval[k])
    BY <1>5
  <2>2. wval[k] \in Word
    OBVIOUS
  <2>3. sets' \in [Lane -> Word] /\ valid' \in SUBSET Lane /\ cfg' = cfg
    BY <2>1, <2>2 DEF WriteSet, TypeOK, PortTypeOK
  <2>. QED  BY <1>1, <2>3 DEF TypeOK, PortTypeOK
<1>. QED
  BY <1>2, <1>3, <1>4, <1>5
     DEF DriverNext, Supervisor, Tick, WorkerLoad, RVC_sync, ResetCommand, ResetResponse,
         ResetCheck, RetryReset, StartWorkers, PollBusy, PollReady, ReadCounters, NextRound

LEMMA DriverTypedNext ==
  ASSUME DriverTyped, DriverNext
  PROVE  DriverTyped'
<1>1. TypeOK'
  BY RegistersTyped
<1>2. caller' = caller /\ caller \in Callers
  BY DEF DriverTyped, DriverNext, Supervisor, Tick, WorkerLoad, RVC_sync, ResetCommand,
         ResetResponse, ResetCheck, ResetConfigure, RetryReset, StartWorkers, PollBusy,
         PollReady, ReadCounters, NextRound, driverVars
<1>3. inf' = IF pc' = "sync" THEN NoInfo ELSE Features
  BY DEF DriverTyped, DriverNext, Supervisor, Tick, WorkerLoad, RVC_sync, ResetCommand,
         ResetResponse, ResetCheck, ResetConfigure, RetryReset, StartWorkers, PollBusy,
         PollReady, ReadCounters, NextRound, driverVars, Features
<1>4. args' \in Arguments
  <2>1. CASE ResetCommand
    <3>1. PICK m \in caller.modes, w \in caller.waits :
            args' = [M |-> m[1], N |-> m[2], wait |-> w]
      BY <2>1 DEF ResetCommand
    <3>2. m \in Nibble \X Nibble /\ w \in Nat
      BY <1>2, DriverAssumption
    <3>. QED  BY <3>1, <3>2 DEF Arguments
  <2>2. CASE ~ResetCommand
    <3>1. args' = args
      BY <2>2 DEF DriverNext, Supervisor, Tick, WorkerLoad, RVC_sync,
           ResetResponse, ResetCheck, ResetConfigure, RetryReset, StartWorkers, PollBusy,
           PollReady, ReadCounters, NextRound, driverVars
    <3>. QED  BY <3>1 DEF DriverTyped
  <2>. QED  BY <2>1, <2>2
<1>5. rvc' \in [M : Nibble, N : Nibble, timeout : Nat]
  <2>1. rvc' = rvc \/ rvc' = [M |-> args.M, N |-> args.N, timeout |-> args.wait]
    BY DEF DriverNext, Supervisor, Tick, WorkerLoad, RVC_sync, ResetCommand,
         ResetResponse, ResetCheck, ResetConfigure, RetryReset, StartWorkers, PollBusy,
         PollReady, ReadCounters, NextRound, driverVars
  <2>. QED  BY <2>1 DEF DriverTyped, Arguments
<1>6. res' \in VoteResult
  <2>. USE DEF DriverTyped
  <2>1. CASE PollReady
    <3>1. timeout_reg \in SUBSET Lane /\ failvec_res \in SUBSET Lane
      BY DEF TypeOK, FsmTypeOK, failvec_res, failvec
    <3>. QED  BY <2>1, <3>1 DEF PollReady, TimeoutField, VoteResult
  <2>2. CASE ReadCounters
    <3>1. match_cnt \in [Lane -> Nibble]
      BY DEF TypeOK, CompareTypeOK
    <3>2. \A f, c : Agreement(f, c) \in BOOLEAN
      BY DEF Agreement
    <3>. QED  BY <2>2, <3>1, <3>2 DEF ReadCounters, VoteResult
  <2>3. CASE StartWorkers
    BY <2>3 DEF StartWorkers, NoResult, VoteResult, Nibble
  <2>4. CASE res' = res
    BY <2>4
  <2>. QED
    BY <2>1, <2>2, <2>3, <2>4
       DEF DriverNext, Supervisor, Tick, WorkerLoad, RVC_sync, ResetCommand,
         ResetResponse, ResetCheck, ResetConfigure, RetryReset, PollBusy, NextRound, driverVars
<1>7. /\ wpc' \in [Workers -> {"stalled", "running"}]
      /\ wval' \in [Workers -> Word]
  <2>. USE DEF DriverTyped
  <2>1. CASE StartWorkers
    <3>1. wpc' = [k \in Workers |-> IF k < args.N THEN "running" ELSE wpc[k]]
      BY <2>1 DEF StartWorkers
    <3>2. PICK f \in [Workers -> Word] :
            wval' = [k \in Workers |-> IF wpc[k] = "running" THEN wval[k] ELSE f[k]]
      BY <2>1 DEF StartWorkers
    <3>. QED  BY <3>1, <3>2
  <2>2. CASE \E k \in Workers : WorkerLoad(k)
    BY <2>2 DEF WorkerLoad
  <2>3. CASE wpc' = wpc /\ wval' = wval
    BY <2>3
  <2>. QED
    BY <2>1, <2>2, <2>3
       DEF DriverNext, Supervisor, Tick, RVC_sync, ResetCommand, PollReady, ReadCounters,
         ResetResponse, ResetCheck, ResetConfigure, RetryReset, PollBusy, NextRound, driverVars
<1>. QED  BY <1>1, <1>2, <1>3, <1>4, <1>5, <1>6, <1>7 DEF DriverTyped

-----------------------------------------------------------------------------
\* A unit that is held in reset is idle from the next edge on.
LEMMA ResetIdles ==
  ASSUME CellEdge(cfg.reset), cfg.reset
  PROVE  state_reg' = "idle"
BY DEF CellEdge, FsmReset

\* A verdict stays until the mode is cleared.
LEMMA ReadyStays ==
  ASSUME Configured, ready, CellEdge(cfg.reset)
  PROVE  ready'
<1>1. FsmStep /\ cfg.M # 0
  BY DEF Configured, ModeChecked, CellEdge
<1>. QED
  BY <1>1 DEF FsmStep, ConfigMissing, AcceptConfig, AwaitDatasets, StartVote, Expire,
              ComparePairs, FinishVote, HoldResult, Acknowledge, ready, fsmVars, datasets_min

LEMMA MaxSets == MAX_DATASETS % 32 = MAX_DATASETS
BY MaxDatasetsAssumption

LEMMA PhasesNext ==
  ASSUME DriverTyped, Phases, DriverNext
  PROVE  Phases'
<1>0. CellEdge(cfg.reset)
  BY DriverIsEdge
<1>1. pc' \in {"sync", "call_reset"} \cup Resetting \cup Polling
  BY DEF Phases, Resetting, Polling, DriverNext, Supervisor, Tick, WorkerLoad, RVC_sync,
         ResetCommand, ResetResponse, ResetCheck, ResetConfigure, RetryReset, StartWorkers,
         PollBusy, PollReady, ReadCounters, NextRound, driverVars
<1>. DEFINE Rest ==
       /\ pc' \in Resetting => cfg'.reset
       /\ pc' \in Resetting \ {"reset_resp"} => state_reg' = "idle"
       /\ pc' = "reset_cfg" => ModeChecked(rvc') /\ args'.M = rvc'.M /\ args'.N = rvc'.N
       /\ pc' \in Polling =>
            Configured' \/ (pc' = "vote_poll" /\ cfg'.reset /\ state_reg' = "idle")
<1>. SUFFICES Rest
  BY <1>1 DEF Phases, ModeChecked
<1>2. CASE ResetCommand
  BY <1>2 DEF ResetCommand, Command, ResetConfig, NoConfig, Resetting, Polling
<1>3. CASE ResetResponse
  <2>1. cfg.reset /\ cfg' = cfg /\ pc' = "reset_read"
    BY <1>3 DEF ResetResponse, NoWrite, portVars, Phases, Resetting
  <2>. QED  BY <2>1, <1>0, ResetIdles DEF Resetting, Polling
<1>4. CASE ResetCheck
  <2>1. cfg.reset /\ cfg' = cfg /\ args' = args /\ pc' \in {"reset_cfg", "reset_failed"}
    BY <1>4 DEF ResetCheck, NoWrite, portVars, Phases, Resetting
  <2>2. state_reg' = "idle"
    BY <2>1, <1>0, ResetIdles
  <2>3. CASE pc' = "reset_cfg"
    <3>1. ArgsChecked /\ rvc' = [M |-> args.M, N |-> args.N, timeout |-> args.wait]
      BY <1>4, <2>3 DEF ResetCheck
    <3>2. inf.max_sets = MAX_DATASETS
      BY <1>4, MaxSets DEF ResetCheck, DriverTyped, Features
    <3>3. rvc'.M = args.M /\ rvc'.N = args.N
      BY <3>1
    <3>4. ModeChecked(rvc')
      BY <3>1, <3>2, <3>3 DEF ArgsChecked, ModeChecked
    <3>. QED  BY <2>1, <2>2, <2>3, <3>3, <3>4 DEF Polling
  <2>4. CASE pc' = "reset_failed"
    BY <2>1, <2>2, <2>4 DEF Polling
  <2>. QED  BY <2>1, <2>3, <2>4
<1>5. CASE ResetConfigure
  <2>1. /\ cfg' = [reset |-> FALSE, timeout |-> rvc.timeout % TimeoutSpan,
                   M |-> rvc.M, N |-> rvc.N]
        /\ rvc' = rvc /\ args' = args /\ pc' = "start"
        /\ ModeChecked(rvc) /\ args.M = rvc.M /\ args.N = rvc.N
    BY <1>5 DEF ResetConfigure, WriteConfig, Phases
  <2>2. Configured'
    BY <2>1 DEF Configured, ModeChecked
  <2>. QED  BY <2>1, <2>2 DEF Resetting
<1>6. CASE RetryReset
  BY <1>6 DEF RetryReset, Resetting, Polling
<1>7. CASE StartWorkers
  <2>1. cfg' = cfg /\ rvc' = rvc /\ args' = args /\ pc' = "vote_poll"
    BY <1>7 DEF StartWorkers, NoWrite, portVars
  <2>2. CASE pc = "start"
    <3>1. Configured'
      BY <2>1, <2>2 DEF Phases, Polling, Configured, ModeChecked
    <3>. QED  BY <2>1, <3>1 DEF Resetting
  <2>3. CASE pc = "reset_failed"
    <3>1. cfg.reset
      BY <2>3 DEF Phases, Resetting
    <3>. QED  BY <2>1, <3>1, <1>0, ResetIdles DEF Resetting
  <2>. QED  BY <1>7, <2>2, <2>3 DEF StartWorkers
<1>8. CASE RVC_sync \/ NextRound
  BY <1>8 DEF RVC_sync, NextRound, Resetting, Polling
<1>9. CASE PollReady \/ ReadCounters
  <2>1. /\ cfg' = cfg /\ rvc' = rvc /\ args' = args
        /\ pc \in Polling /\ pc' \in {"vote_cnt", "voted"}
        /\ pc = "vote_poll" => ready
    BY <1>9 DEF PollReady, ReadCounters, NoWrite, portVars, Polling
  <2>2. Configured
    BY <1>9, <2>1 DEF Phases, ready, PollReady, ReadCounters
  <2>3. Configured'
    BY <2>1, <2>2 DEF Configured, ModeChecked
  <2>. QED  BY <2>1, <2>3 DEF Resetting
<1>10. CASE Tick \/ PollBusy \/ \E k \in Workers : WorkerLoad(k)
  <2>1. cfg' = cfg /\ rvc' = rvc /\ args' = args /\ pc' = pc
    BY <1>10 DEF Tick, PollBusy, WorkerLoad, NoWrite, WriteSet, portVars, driverVars
  <2>2. cfg.reset => state_reg' = "idle"
    BY <1>0, ResetIdles
  <2>3. Configured => Configured'
    BY <2>1 DEF Configured, ModeChecked
  <2>. QED  BY <2>1, <2>2, <2>3 DEF Phases, Resetting
<1>. QED
  BY <1>2, <1>3, <1>4, <1>5, <1>6, <1>7, <1>8, <1>9, <1>10 DEF DriverNext, Supervisor

LEMMA ReadOutNext ==
  ASSUME DriverTyped, Phases, ReadOut, DriverNext
  PROVE  ReadOut'
<1>0. CellEdge(cfg.reset)
  BY DriverIsEdge
<1>1. CASE PollReady
  <2>1. /\ cfg' = cfg /\ inf = Features /\ pc' = "vote_cnt" /\ ready
        /\ res' = [res EXCEPT !.timeout = timeout_reg,
                              !.failvec = IF inf.list_failures THEN failvec_res ELSE {}]
    BY <1>1 DEF PollReady, NoWrite, portVars, TimeoutField, DriverTyped
  <2>2. Configured
    BY <1>1 DEF PollReady, Phases, Polling, ready
  <2>3. ready' /\ timeout_reg' = timeout_reg /\ failvec_res' = failvec_res
    BY <1>0, <2>1, <2>2, ReadyStays, StableEdge
  <2>4. res'.timeout = timeout_reg /\ res'.failvec = IF LIST_FAILURES THEN failvec_res ELSE {}
    BY <2>1 DEF DriverTyped, VoteResult, Features
  <2>. QED  BY <2>1, <2>3, <2>4 DEF ReadOut
<1>2. CASE pc \in {"vote_cnt", "voted"} /\ cfg' = cfg
  <2>1. Configured /\ ready
    BY <1>2 DEF Phases, Polling, ReadOut
  <2>2. /\ ready' /\ timeout_reg' = timeout_reg /\ failvec_res' = failvec_res
        /\ match_cnt' = match_cnt
    BY <1>0, <1>2, <2>1, ReadyStays, StableEdge
  <2>3. CASE ReadCounters
    <3>1. /\ pc' = "voted" /\ inf = Features /\ rvc' = rvc /\ inf' = inf
          /\ res' = [res EXCEPT
               !.match_cnt = IF inf.count_matches THEN match_cnt ELSE res.match_cnt,
               !.agreement = Agreement(res.failvec, IF inf.count_matches THEN match_cnt
                                                    ELSE res.match_cnt)]
      BY <2>3 DEF ReadCounters, DriverTyped
    <3>2. /\ res'.timeout = res.timeout /\ res'.failvec = res.failvec
          /\ res'.agreement = Agreement(res.failvec, res'.match_cnt)
          /\ COUNT_MATCHES => res'.match_cnt = match_cnt
      BY <3>1 DEF DriverTyped, VoteResult, Features
    <3>3. (res.agreement = Agreement(res.failvec, res.match_cnt))'
      BY <3>1, <3>2 DEF Agreement
    <3>. QED  BY <1>2, <2>2, <3>1, <3>2, <3>3 DEF ReadOut
  <2>4. CASE pc' = pc /\ res' = res /\ rvc' = rvc /\ inf' = inf
    BY <1>2, <2>2, <2>4 DEF ReadOut, Agreement
  <2>5. CASE pc' \notin {"vote_cnt", "voted"}
    BY <2>5 DEF ReadOut
  <2>. QED
    BY <1>2, <2>3, <2>4, <2>5
       DEF DriverNext, Supervisor, Tick, WorkerLoad, RVC_sync, ResetCommand,
         ResetResponse, ResetCheck, ResetConfigure, RetryReset, StartWorkers, PollBusy,
         PollReady, NextRound, driverVars
<1>3. CASE pc' \notin {"vote_cnt", "voted"}
  BY <1>3 DEF ReadOut
<1>. QED
  BY <1>1, <1>2, <1>3
     DEF DriverNext, Supervisor, Tick, WorkerLoad, RVC_sync, ResetCommand,
         ResetResponse, ResetCheck, ResetConfigure, RetryReset, StartWorkers, PollBusy,
         NextRound, driverVars, ReadCounters, NoWrite, WriteSet, portVars

LEMMA DriverStutter ==
  ASSUME DriverInv, UNCHANGED allVars
  PROVE  DriverInv'
<1>. USE DEF DriverInv, allVars, vars, driverVars
<1>1. TypeOK' /\ ComparatorClean'
  BY DEF DriverTyped, TypeOK, CompareTypeOK, PortTypeOK, FsmTypeOK, ComparatorClean,
         CompareCleared
<1>2. DriverTyped'
  BY <1>1 DEF DriverTyped
<1>3. Phases'
  BY DEF Phases, Configured, ModeChecked
<1>4. ReadOut'
  BY DEF ReadOut, Agreement, ready, failvec_res, failvec, mask, used_datasets, datasets_min
<1>. QED  BY <1>1, <1>2, <1>3, <1>4

LEMMA DriverStep ==
  ASSUME DriverInv, DriverNext
  PROVE  DriverInv'
<1>1. ComparatorClean'
  BY DriverIsEdge, CleanEdge DEF DriverInv
<1>. QED  BY <1>1, DriverTypedNext, PhasesNext, ReadOutNext DEF DriverInv

\* What is inductive about the supervisor and the unit, whoever calls it.
THEOREM DriverInvariant == DriverSpec => []DriverInv
<1>1. DriverInv /\ [DriverNext]_allVars => DriverInv'
  BY DriverStutter, DriverStep
<1>. QED  BY <1>1, DriverStart, PTL DEF DriverSpec

\* RVC_reset never finds the FSM outside its idle state, whatever state the
\* command met it in and whoever loads datasets meanwhile (RootVoter.c:48-55).
THEOREM ResetAlwaysFindsIdle == DriverSpec => []ResetFindsIdle
<1>1. DriverInv => ResetFindsIdle
  BY DEF DriverInv, Phases, Resetting, ResetFindsIdle
<1>. QED  BY <1>1, DriverInvariant, PTL

\* The failure flags and the match counters that RVC_vote reads at different
\* clocks are of one vote (RootVoter.c:112-129), in a cell with counters.
THEOREM ResultsConsistent ==
  ASSUME COUNT_MATCHES
  PROVE  DriverSpec => []ResultConsistent
<1>1. ASSUME DriverInv, VoteDone, inf.list_failures, NEW k \in UsedLanes
      PROVE  k \in res.failvec <=> res.match_cnt[k] + 1 < rvc.M
  <2>1. Configured /\ ready /\ res.match_cnt = match_cnt /\ LIST_FAILURES
        /\ res.failvec = failvec_res
    BY <1>1, COUNT_MATCHES
       DEF DriverInv, DriverTyped, Phases, ReadOut, VoteDone, Polling, Features
  <2>2. k \in Lane /\ k < cfg.N /\ cfg.M = rvc.M
    BY <2>1 DEF UsedLanes, Configured
  <2>. QED
    BY <2>1, <2>2 DEF failvec_res, failvec, mask, used_datasets, datasets_min
<1>2. DriverInv => ResultConsistent
  BY <1>1 DEF ResultConsistent
<1>. QED  BY <1>2, DriverInvariant, PTL

\* A caller that ignores what RVC_reset returned polls for a round whose mode
\* was refused.
Abandoned == pc = "vote_poll" /\ ~ArgsChecked

AbandonedForGood == [][Abandoned => Abandoned']_allVars

LEMMA AbandonedIsIdle ==
  ASSUME DriverInv, Abandoned
  PROVE  cfg.reset /\ state_reg = "idle" /\ ~ready
<1>1. inf.max_sets = MAX_DATASETS
  BY MaxDatasetsAssumption DEF DriverInv, DriverTyped, Features, Abandoned
<1>2. ~Configured
  BY <1>1 DEF Configured, ModeChecked, Abandoned, ArgsChecked
<1>. QED  BY <1>2 DEF DriverInv, Phases, Polling, Abandoned, ready

\* RVC_reset leaves the cell in reset when it refuses a mode (RootVoter.c:57-66);
\* RVC_vote, called all the same (test_multicore.c:62-66), then polls for ever,
\* whatever the workers load.
THEOREM RefusedPollsForEver == DriverSpec => AbandonedForGood
<1>1. DriverInv /\ [DriverNext]_allVars => [Abandoned => Abandoned']_allVars
  <2>1. SUFFICES ASSUME DriverInv, DriverNext, Abandoned
                 PROVE  Abandoned'
    OBVIOUS
  <2>2. ~ready
    BY <2>1, AbandonedIsIdle
  <2>3. pc' = pc /\ inf' = inf /\ args' = args
    BY <2>1, <2>2
       DEF Abandoned, DriverNext, Supervisor, Tick, WorkerLoad, RVC_sync, ResetCommand,
           ResetResponse, ResetCheck, ResetConfigure, RetryReset, StartWorkers, PollBusy,
           PollReady, ReadCounters, NextRound, driverVars
  <2>. QED  BY <2>1, <2>3 DEF Abandoned, ArgsChecked
<1>. QED  BY <1>1, DriverInvariant, PTL DEF DriverSpec, AbandonedForGood

\* What RVC_vote returns is a verdict in the mode of the last RVC_reset, which
\* RVC_reset accepted (RootVoter.c:57-66), for callers that look at what it
\* returned and for those that do not.
THEOREM ResultsOfAcceptedMode == DriverSpec => []ResultOfAcceptedMode
<1>1. DriverInv => ResultOfAcceptedMode
  BY DEF DriverInv, Phases, Polling, Configured, ModeChecked, VoteDone, ResultOfAcceptedMode
<1>. QED  BY <1>1, DriverInvariant, PTL

-----------------------------------------------------------------------------
(* Callers that wait for their workers.                                    *)

\* A worker on its way is one of the round and has not loaded yet.
Awaited == \A k \in Workers : wpc[k] = "running" => k < rvc.N /\ k \notin valid

\* What is loaded is of the round; from the end of the collection on, what is
\* not flagged is there, and a vote on everybody's dataset is the vote of
\* RootVoterRound.
Collected ==
  /\ LoadsInMode /\ FlagsDown
  /\ Decided => mask \ timeout_reg \subseteq valid
  /\ Decided /\ timeout_reg = {} => QuorumDecides /\ (COUNT_MATCHES => WalkExact)

Joined ==
  caller.joins =>
    /\ pc \notin {"vote_poll", "vote_cnt", "voted"} => \A k \in Workers : wpc[k] = "stalled"
    /\ pc \in Resetting \cup {"start"} => valid = {}
    /\ pc \in Polling /\ Configured => Awaited /\ Collected

JoinInv == DriverInv /\ Joined

\* As long as nobody is flagged the invariant of RootVoterRound holds.
LEMMA RoundHolds ==
  ASSUME TypeOK, ComparatorClean, Configured, Collected
  PROVE  /\ Live /\ Between
         /\ (Decided => timeout_reg = {}) => CollectInv /\ (COUNT_MATCHES => WalkExact)
<1>1. cfg.N \in Int /\ cfg.M \in Int
  <2>1. cfg \in CfgWord
    BY DEF TypeOK, PortTypeOK
  <2>. QED  BY <2>1 DEF CfgWord, Nibble
<1>2. Live /\ Between
  BY <1>1, MaxDatasetsAssumption
     DEF Configured, ModeChecked, Live, config_ok, used_datasets, datasets_min, Between, ModeAccepted
<1>3. ASSUME Decided => timeout_reg = {}
      PROVE  MissingIsFlagged /\ QuorumDecides /\ (COUNT_MATCHES => WalkExact)
  <2>1. CASE Decided
    BY <1>2, <1>3, <2>1 DEF Collected, MissingIsFlagged, LoadsInMode
  <2>2. CASE ~Decided
    BY <2>2 DEF Decided, MissingIsFlagged, QuorumDecides, WalkExact
  <2>. QED  BY <2>1, <2>2
<1>. QED  BY <1>2, <1>3 DEF CollectInv, Collected

LEMMA ModeKept ==
  ASSUME Configured, cfg' = cfg, rvc' = rvc, args' = args
  PROVE  Configured' /\ mask' = mask /\ (Live' <=> Live)
BY DEF Configured, ModeChecked, mask, Live, config_ok, used_datasets, datasets_min

\* A clock edge at which nothing is written.
LEMMA CollectedQuiet ==
  ASSUME TypeOK, ComparatorClean, Configured, Collected,
         NoWrite, rvc' = rvc, args' = args
  PROVE  Collected'
<1>1. /\ cfg' = cfg /\ valid' = valid /\ sets' = sets
      /\ Live /\ Between /\ Live' /\ mask' = mask
  BY RoundHolds, ModeKept DEF NoWrite, portVars
<1>2. CASE Decided => timeout_reg = {}
  <2>1. CollectInv /\ (COUNT_MATCHES => WalkExact)
    BY <1>2, RoundHolds
  <2>2. CollectInv' /\ (COUNT_MATCHES => WalkExact')
    BY <2>1, CollectNext, WalkNext DEF RoundNext
  <2>3. (Decided => mask \ timeout_reg \subseteq valid)'
    BY <2>2 DEF CollectInv, MissingIsFlagged
  <2>. QED  BY <2>2, <2>3 DEF CollectInv, Collected
<1>3. CASE Decided /\ timeout_reg # {}
  <2>1. timeout_reg' = timeout_reg /\ state_reg' \in {"voting", "timeout", "result"}
    <3>1. FsmStep /\ cfg.M # 0
      BY DEF NoWrite, CellEdge, Configured, ModeChecked
    <3>. QED
      BY <1>3, <3>1
         DEF FsmStep, ConfigMissing, AcceptConfig, AwaitDatasets, StartVote, Expire,
             ComparePairs, FinishVote, HoldResult, Acknowledge, ready, fsmVars,
             datasets_min, Decided
  <2>. QED  BY <1>1, <1>3, <2>1 DEF Collected, LoadsInMode, FlagsDown, Decided
<1>. QED  BY <1>2, <1>3

\* A clock edge at which a dataset of the round lands.
LEMMA CollectedLoad ==
  ASSUME TypeOK, ComparatorClean, Configured, Collected,
         NEW k \in mask, k \notin valid, NEW w, WriteSet(k, w), rvc' = rvc, args' = args
  PROVE  Collected'
<1>1. /\ cfg' = cfg /\ valid' = valid \cup {k}
      /\ Live /\ Between /\ Live' /\ mask' = mask
  <2>1. k \in Lane
    BY DEF mask
  <2>. QED  BY <2>1, RoundHolds, ModeKept DEF WriteSet
<1>2. LoadsInMode'
  BY <1>1 DEF LoadsInMode, Collected
<1>3. FsmStep /\ cfg.M # 0
  BY DEF WriteSet, CellEdge, Configured, ModeChecked
<1>4. CASE Decided
  <2>1. timeout_reg # {}
    BY <1>4 DEF Collected
  <2>2. timeout_reg' = timeout_reg /\ state_reg' \in {"voting", "timeout", "result"}
    BY <1>3, <1>4
       DEF FsmStep, ConfigMissing, AcceptConfig, AwaitDatasets, StartVote, Expire,
           ComparePairs, FinishVote, HoldResult, Acknowledge, ready, fsmVars,
           datasets_min, Decided
  <2>. QED  BY <1>1, <1>2, <1>4, <2>1, <2>2 DEF Collected, FlagsDown, Decided
<1>5. CASE ~Decided
  <2>1. dataset_cnt >= cfg.N => valid = mask
    BY <1>1, MaskCounted DEF Collected, Between
  <2>2. ~all_datasets_loaded
    BY <2>1 DEF all_datasets_loaded, used_datasets
  <2>3. AcceptConfig \/ AwaitDatasets \/ Expire
    BY <1>1, <1>3, <1>5, <2>2
       DEF FsmStep, ConfigMissing, StartVote, ComparePairs, FinishVote, HoldResult,
           Acknowledge, ready, Decided, Live
  <2>4. CASE AcceptConfig
    BY <1>1, <1>2, <2>4 DEF AcceptConfig, Collected, FlagsDown, Decided
  <2>5. CASE AwaitDatasets
    BY <1>1, <1>2, <2>5 DEF AwaitDatasets, Collected, FlagsDown, Decided
  <2>6. CASE Expire
    \* It came one clock too late and is flagged.
    <3>1. timeout_reg' = mask \ valid /\ state_reg' # "wait_datasets" /\ timeout_reg' # {}
      BY <2>6 DEF Expire
    <3>. QED  BY <1>1, <1>2, <3>1 DEF Collected, FlagsDown
  <2>. QED  BY <2>3, <2>4, <2>5, <2>6
<1>. QED  BY <1>4, <1>5

LEMMA JoinedNext ==
  ASSUME JoinInv, DriverNext
  PROVE  Joined'
<1>. USE DEF JoinInv
<1>. DEFINE Stalled == \A k \in Workers : wpc[k] = "stalled"
            Voted == {"vote_poll", "vote_cnt", "voted"}
<1>0. /\ CellEdge(cfg.reset) /\ TypeOK /\ ComparatorClean /\ Phases
      /\ wpc \in [Workers -> {"stalled", "running"}] /\ Phases'
  BY DriverIsEdge, DriverStep DEF DriverInv, DriverTyped
<1>. SUFFICES ASSUME caller.joins
     PROVE  /\ pc' \notin Voted => Stalled'
            /\ pc' \in Resetting \cup {"start"} => valid' = {}
            /\ pc' \in Polling /\ Configured' => Awaited' /\ Collected'
  <2>1. caller' = caller
    BY DEF DriverNext, Supervisor, Tick, WorkerLoad, RVC_sync, ResetCommand,
         ResetResponse, ResetCheck, ResetConfigure, RetryReset, StartWorkers, PollBusy,
         PollReady, ReadCounters, NextRound, driverVars
  <2>. QED  BY <2>1 DEF Joined
<1>1. CASE ResetCommand
  BY <1>1 DEF ResetCommand, Command, Joined, Polling
<1>2. CASE ResetResponse \/ ResetCheck
  BY <1>2 DEF ResetResponse, ResetCheck, NoWrite, portVars, Joined, Resetting, Polling
<1>3. CASE RVC_sync \/ RetryReset \/ NextRound
  BY <1>3 DEF RVC_sync, RetryReset, NextRound, Joined, Resetting, Polling
<1>4. CASE ResetConfigure
  <2>1. /\ cfg.reset /\ valid = {} /\ Stalled
        /\ pc' = "start" /\ valid' = valid /\ wpc' = wpc
    BY <1>0, <1>4 DEF ResetConfigure, WriteConfig, Joined, Phases, Resetting
  <2>2. state_reg' = "idle"
    BY <1>0, <2>1, ResetIdles
  <2>3. Awaited'
    BY <2>1 DEF Awaited
  <2>4. Collected'
    BY <2>1, <2>2 DEF Collected, LoadsInMode, FlagsDown, Decided
  <2>. QED  BY <2>1, <2>3, <2>4
<1>5. CASE StartWorkers
  <2>1. /\ NoWrite /\ cfg' = cfg /\ valid' = valid /\ rvc' = rvc /\ args' = args
        /\ pc' = "vote_poll"
        /\ wpc' = [k \in Workers |-> IF k < args.N THEN "running" ELSE wpc[k]]
    BY <1>5 DEF StartWorkers, NoWrite, portVars
  <2>2. CASE pc = "start"
    <3>1. Configured /\ Collected /\ valid = {} /\ Stalled
      BY <1>0, <2>2 DEF Phases, Polling, Joined
    <3>2. Collected'
      BY <1>0, <2>1, <3>1, CollectedQuiet
    <3>3. Awaited'
      BY <2>1, <3>1 DEF Awaited, Configured
    <3>. QED  BY <2>1, <3>2, <3>3 DEF Resetting
  <2>3. CASE pc = "reset_failed"
    <3>1. ~Configured'
      BY <1>0, <2>1, <2>3 DEF Phases, Resetting, Configured
    <3>. QED  BY <2>1, <3>1 DEF Resetting
  <2>. QED  BY <1>5, <2>2, <2>3 DEF StartWorkers
<1>6. CASE Tick \/ PollBusy \/ PollReady \/ ReadCounters
  <2>1. /\ NoWrite /\ cfg' = cfg /\ valid' = valid /\ rvc' = rvc /\ args' = args
        /\ wpc' = wpc
        /\ pc' \in Voted <=> pc \in Voted
        /\ pc' \notin Voted => pc' = pc
    BY <1>6 DEF Tick, PollBusy, PollReady, ReadCounters, NoWrite, portVars, driverVars
  <2>2. ASSUME pc' \in Polling, Configured' PROVE Awaited' /\ Collected'
    <3>1. pc \in Polling /\ Configured
      BY <2>1, <2>2 DEF Polling, Configured, ModeChecked
    <3>2. Awaited /\ Collected
      BY <3>1 DEF Joined
    <3>3. Collected'
      BY <1>0, <2>1, <3>1, <3>2, CollectedQuiet
    <3>. QED  BY <2>1, <3>2, <3>3 DEF Awaited
  <2>. QED  BY <2>1, <2>2 DEF Joined, Resetting
<1>7. CASE \E k \in Workers : WorkerLoad(k)
  <2>1. PICK k \in Workers : WorkerLoad(k)
    BY <1>7
  <2>2. /\ pc \in Voted /\ pc' = pc /\ cfg' = cfg /\ rvc' = rvc /\ args' = args
        /\ wpc[k] = "running" /\ wpc' = [wpc EXCEPT ![k] = "stalled"]
        /\ valid' \subseteq valid \cup {k}
        /\ NoWrite \/ WriteSet(k, wval[k])
    BY <2>1 DEF WorkerLoad, Joined, NoWrite, WriteSet, portVars
  <2>3. ASSUME Configured' PROVE Awaited' /\ Collected'
    <3>1. pc \in Polling /\ Configured
      BY <2>2, <2>3 DEF Polling, Configured, ModeChecked
    <3>2. Awaited /\ Collected
      BY <3>1 DEF Joined
    <3>3. Awaited'
      BY <1>0, <2>2, <3>2 DEF Awaited
    <3>4. k \in mask /\ k \notin valid
      <4>1. k < cfg.N /\ cfg.N <= MAX_DATASETS /\ k \notin valid
        BY <2>2, <3>1, <3>2 DEF Awaited, Configured, ModeChecked
      <4>2. k \in Nat /\ cfg.N \in Int
        BY <1>0, <3>1, <3>2, RoundHolds, LiveMode, DriverAssumption DEF Between
      <4>3. k \in Lane
        BY <4>1, <4>2, MaxDatasetsAssumption DEF Lane
      <4>. QED  BY <4>1, <4>3 DEF mask, used_datasets
    <3>5. Collected'
      BY <1>0, <2>2, <3>1, <3>2, <3>4, CollectedQuiet, CollectedLoad
    <3>. QED  BY <3>3, <3>5
  <2>. QED  BY <2>2, <2>3 DEF Resetting
<1>. QED
  BY <1>1, <1>2, <1>3, <1>4, <1>5, <1>6, <1>7 DEF DriverNext, Supervisor

\* What is inductive of a caller that waits for its workers.
THEOREM JoinInvariant == DriverSpec => []JoinInv
<1>1. DriverInit => JoinInv
  <2>1. DriverInit => Joined
    BY DEF DriverInit, Joined, Resetting, Polling
  <2>. QED  BY <2>1, DriverStart DEF JoinInv
<1>2. ASSUME JoinInv, UNCHANGED allVars PROVE JoinInv'
  <2>1. DriverInv'
    BY <1>2, DriverStutter DEF JoinInv
  <2>2. Collected' <=> Collected
    BY <1>2
       DEF allVars, vars, Collected, LoadsInMode, FlagsDown, Decided, Live, config_ok, mask,
           QuorumDecides, WalkExact, OnWalk, CountsAgree, RowAt, used_datasets, datasets_min
  <2>3. Configured' <=> Configured
    BY <1>2 DEF allVars, vars, driverVars, Configured, ModeChecked
  <2>4. Joined'
    BY <1>2, <2>2, <2>3 DEF allVars, vars, driverVars, JoinInv, Joined, Awaited
  <2>. QED  BY <2>1, <2>4 DEF JoinInv
<1>3. JoinInv /\ [DriverNext]_allVars => JoinInv'
  BY <1>2, JoinedNext, DriverStep DEF JoinInv
<1>. QED  BY <1>1, <1>3, PTL DEF DriverSpec

\* What the result does not show as timed out has been loaded, although the
\* cell counts datasets and does not look whose they are (RVCell.sv:120-127).
THEOREM ReportedAreLoaded == DriverSpec => []NotTimedOutLoaded
<1>1. ASSUME JoinInv, caller.joins, VoteDone
      PROVE  UsedLanes \ res.timeout \subseteq valid
  <2>1. Configured /\ Collected /\ ready /\ res.timeout = timeout_reg
    BY <1>1 DEF JoinInv, DriverInv, Phases, ReadOut, Joined, VoteDone, Polling
  <2>2. Live
    BY <1>1, <2>1, RoundHolds DEF JoinInv, DriverInv, DriverTyped
  <2>3. UsedLanes = mask
    BY <2>1 DEF UsedLanes, mask, used_datasets, Configured
  <2>. QED  BY <2>1, <2>2, <2>3 DEF Collected, Decided, ready
<1>2. JoinInv => NotTimedOutLoaded
  BY <1>1 DEF NotTimedOutLoaded
<1>. QED  BY <1>2, JoinInvariant, PTL

\* To a caller that waits for its workers a result without timeouts reports
\* agreement exactly when M workers loaded the same word (RootVoter.c:131-147),
\* in a cell with counters.
THEOREM AgreementIsMEqual ==
  ASSUME COUNT_MATCHES
  PROVE  DriverSpec => []AgreementMeansMEqual
<1>1. ASSUME JoinInv, caller.joins, VoteDone, res.timeout = {}
      PROVE  res.agreement <=>
               \E k \in UsedLanes :
                 Cardinality({l \in UsedLanes : sets[l] = sets[k]}) >= rvc.M
  <2>1. /\ Configured /\ Collected /\ ready /\ timeout_reg = {}
        /\ res.match_cnt = match_cnt /\ inf = Features
        /\ res.failvec = IF LIST_FAILURES THEN failvec_res ELSE {}
        /\ res.agreement = Agreement(res.failvec, res.match_cnt)
    BY <1>1, COUNT_MATCHES
       DEF JoinInv, DriverInv, DriverTyped, Phases, ReadOut, Joined, VoteDone, Polling
  <2>2. Live /\ Between /\ CollectInv /\ WalkExact
    BY <1>1, <2>1, RoundHolds, COUNT_MATCHES DEF JoinInv, DriverInv, DriverTyped
  <2>3. cfg.M \in Int /\ cfg.N \in Int /\ 2 <= cfg.M /\ cfg.M <= cfg.N /\ cfg.M = rvc.M
    BY <2>1, <2>2, LiveMode DEF CollectInv, Configured, Between
  <2>4. UsedLanes = mask /\ UsedLanes = {k \in Lane : k < rvc.N}
    BY <2>1 DEF UsedLanes, mask, used_datasets, Configured
  <2>5. state_reg = "result"
    \* Every dataset is in, so the vote was taken.
    <3>1. valid = mask
      BY <2>1, <2>2 DEF CollectInv, MissingIsFlagged, Decided, ready, LoadsInMode
    <3>2. Cardinality(valid) = cfg.N
      BY <2>2, <3>1, MaskCounted DEF CollectInv, Between
    <3>. QED
      BY <2>1, <2>2, <2>3, <3>2 DEF CollectInv, QuorumDecides, Decided, ready, datasets_min
  <2>6. ASSUME NEW k \in mask
        PROVE  /\ Cardinality({l \in UsedLanes : sets[l] = sets[k]}) = match_cnt[k] + 1
               /\ match_cnt[k] \in Nat
    BY <2>2, <2>4, <2>5, EqualsCounted DEF Equals
  <2>7. res.agreement <=> \E k \in mask : match_cnt[k] + 1 >= rvc.M
    <3>0. \A k \in mask : match_cnt[k] \in Int
      <4>1. \A k \in mask : match_cnt[k] \in Nat
        BY <2>6, Zenon
      <4>. QED  BY <4>1
    <3>1. inf.list_failures = LIST_FAILURES /\ inf.count_matches
      BY <2>1, COUNT_MATCHES DEF Features
    <3>2. CASE LIST_FAILURES
      <4>1. res.agreement <=> \E k \in mask : k \notin failvec_res
        BY <2>1, <2>4, <3>1, <3>2 DEF Agreement
      <4>2. \A k \in mask : k \in failvec_res <=> match_cnt[k] + 1 < cfg.M
        BY <2>1, <3>2 DEF failvec_res, failvec, mask, datasets_min
      <4>3. \A k \in mask : ~(match_cnt[k] + 1 < cfg.M) <=> match_cnt[k] + 1 >= rvc.M
        BY <2>3, <3>0
      <4>. QED  BY <4>1, <4>2, <4>3, Zenon
    <3>3. CASE ~LIST_FAILURES
      <4>1. res.agreement <=> \E k \in mask : match_cnt[k] >= rvc.M - 1
        BY <2>1, <2>4, <3>1, <3>3 DEF Agreement
      <4>2. \A k \in mask : match_cnt[k] >= rvc.M - 1 <=> match_cnt[k] + 1 >= rvc.M
        BY <2>3, <3>0
      <4>. QED  BY <4>1, <4>2, Zenon
    <3>. QED  BY <3>2, <3>3, CellAssumption
  <2>. QED  BY <2>4, <2>6, <2>7
<1>2. JoinInv => AgreementMeansMEqual
  BY <1>1 DEF AgreementMeansMEqual
<1>. QED  BY <1>2, JoinInvariant, PTL
=============================================================================
