------------------------------- MODULE RVCell -------------------------------
(***************************************************************************)
(* A RootVoter cell, src/safety/rootvoter_v2/hw/RVCell.sv: the FSM, the    *)
(* watchdog counter (Counter.sv) and the comparator it drives.             *)
(*                                                                         *)
(* An action is one rising clock edge.  The next value of every register   *)
(* is computed from the values before the edge, the input ports included;  *)
(* what the ports become is said by the module that owns the registers     *)
(* behind them.  Bit vectors over the datasets are subsets of Lane.        *)
(***************************************************************************)
EXTENDS CompareUnit

CONSTANTS
  LIST_FAILURES,   \* generate the failure flags?
  Timeout          \* the values of the 32-bit timeout field in use

ASSUME CellAssumption == LIST_FAILURES \in BOOLEAN /\ Timeout \subseteq Nat

VARIABLES
  cfg,             \* port: the configuration word, by fields
  sets,            \* port: the dataset words
  valid,           \* port: the datasets that are completely written
  state_reg, timeout_reg,
  cnt              \* the down counter of Counter.sv

fsmVars  == <<state_reg, timeout_reg, cnt>>
portVars == <<cfg, sets, valid>>

CfgWord == [reset : BOOLEAN, timeout : Timeout \cup {0}, M : Nibble, N : Nibble]

States == {"idle", "wait_datasets", "voting", "timeout", "result"}

PortTypeOK ==
  /\ cfg \in CfgWord
  /\ sets \in [Lane -> Word]
  /\ valid \in SUBSET Lane

FsmTypeOK ==
  /\ state_reg \in States
  /\ timeout_reg \in SUBSET Lane
  /\ cnt \in Nat

FsmCleared == state_reg = "idle" /\ timeout_reg = {} /\ cnt = 0

-----------------------------------------------------------------------------
(* Combinational logic.                                                    *)
datasets_min  == cfg.M
used_datasets == cfg.N

dataset_cnt == Cardinality(valid) % 16            \* a 4-bit population count

\* Mutant: enough datasets for a vote are taken for all of them.
AllLoadedMajority == dataset_cnt >= datasets_min
all_datasets_loaded == dataset_cnt >= used_datasets

config_ok ==
  /\ used_datasets >= 2
  /\ used_datasets <= MAX_DATASETS
  /\ datasets_min <= used_datasets

\* Mutant: the last dataset in use is masked out.
MaskShort == {k \in Lane : k + 1 < used_datasets}
mask == {k \in Lane : k < used_datasets}

\* Mutant: off by one in the comparison with M.
FailvecStrict == {k \in Lane : LIST_FAILURES /\ match_cnt[k] + 1 <= datasets_min}
failvec == {k \in Lane : LIST_FAILURES /\ match_cnt[k] + 1 < datasets_min}

\* Mutants: expired one clock too early, or one too late.
ExpiredEarly == cnt <= 1
ExpiredLate == cnt = 1
counter_expired == cnt = 0

\* Mutant: the comparator is not cleared in idle.
ResetInWait == state_reg = "wait_datasets"
compare_reset == state_reg \in {"idle", "wait_datasets"}

\* Mutant: the comparator runs outside the voting state.
EnabledAlways == ~done
compare_en    == state_reg = "voting" /\ ~done
ready         == state_reg \in {"timeout", "result"}

failvec_res   == IF ready THEN failvec \cap mask ELSE {}

\* The status word, read at register 20.
status == [ready |-> ready, timeout |-> timeout_reg, failvec |-> failvec_res]

-----------------------------------------------------------------------------
(* The FSM.  Each action is a state and a condition of the case statement, *)
(* with the registers the FSM and the watchdog load at the edge.           *)
ConfigMissing ==
  /\ state_reg = "idle" /\ ~config_ok
  /\ UNCHANGED fsmVars

\* Mutant: the counter is loaded with one clock too many.
AcceptConfigLonger ==
  /\ state_reg = "idle" /\ config_ok
  /\ state_reg' = "wait_datasets"
  /\ timeout_reg' = {}
  /\ cnt' = cfg.timeout + 1

AcceptConfig ==
  /\ state_reg = "idle" /\ config_ok
  /\ state_reg' = "wait_datasets"
  /\ timeout_reg' = {}
  /\ cnt' = cfg.timeout

\* Mutant: the counter is not enabled while datasets are awaited.
AwaitWithoutCounting ==
  /\ state_reg = "wait_datasets" /\ ~counter_expired /\ ~all_datasets_loaded
  /\ UNCHANGED fsmVars

AwaitDatasets ==
  /\ state_reg = "wait_datasets" /\ ~counter_expired /\ ~all_datasets_loaded
  /\ cnt' = cnt - 1
  /\ UNCHANGED <<state_reg, timeout_reg>>

StartVote ==
  /\ state_reg = "wait_datasets" /\ ~counter_expired /\ all_datasets_loaded
  /\ state_reg' = "voting"
  /\ cnt' = cnt - 1
  /\ UNCHANGED timeout_reg

\* Mutant: exactly M datasets are not enough.
ExpireStrict ==
  /\ state_reg = "wait_datasets" /\ counter_expired
  /\ timeout_reg' = mask \ valid
  /\ state_reg' = IF dataset_cnt > datasets_min THEN "voting" ELSE "timeout"
  /\ UNCHANGED cnt

\* The window is over: the missing datasets are flagged, and the vote is
\* taken without them if at least M datasets are there.
Expire ==
  /\ state_reg = "wait_datasets" /\ counter_expired
  /\ timeout_reg' = mask \ valid
  /\ state_reg' = IF dataset_cnt >= datasets_min THEN "voting" ELSE "timeout"
  /\ UNCHANGED cnt

ComparePairs ==
  /\ state_reg = "voting" /\ ~done
  /\ UNCHANGED fsmVars

FinishVote ==
  /\ state_reg = "voting" /\ done
  /\ state_reg' = "result"
  /\ UNCHANGED <<timeout_reg, cnt>>

\* Mutant: the flags follow the valid bits while the result is held.
HoldResultRefreshing ==
  /\ ready /\ ~(datasets_min = 0 /\ used_datasets = 0)
  /\ timeout_reg' = mask \ valid
  /\ UNCHANGED <<state_reg, cnt>>

\* The result is held until the mode field is cleared.
HoldResult ==
  /\ ready /\ ~(datasets_min = 0 /\ used_datasets = 0)
  /\ UNCHANGED fsmVars

Acknowledge ==
  /\ ready /\ datasets_min = 0 /\ used_datasets = 0
  /\ state_reg' = "idle"
  /\ UNCHANGED <<timeout_reg, cnt>>

FsmStep ==
  \/ ConfigMissing \/ AcceptConfig
  \/ AwaitDatasets \/ StartVote \/ Expire
  \/ ComparePairs \/ FinishVote
  \/ HoldResult \/ Acknowledge

FsmReset ==
  /\ state_reg' = "idle"
  /\ timeout_reg' = {}
  /\ cnt' = 0

\* The comparator has no reset of its own: it is cleared by the FSM, so on a
\* reset edge it still does what the state before the edge asks for.
CellEdge(reset) ==
  /\ CompareEdge(compare_reset, compare_en, sets, used_datasets)
  /\ IF reset THEN FsmReset ELSE FsmStep
=============================================================================
