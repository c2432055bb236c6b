----------------------------- MODULE RootVoter ------------------------------
(***************************************************************************)
(* The register file of src/safety/rootvoter_v2/hw/rootvoter.sv with the   *)
(* cell behind it, at the granularity of whole-register writes.            *)
(*                                                                         *)
(* A step is one clock edge of the cell, with at most one register write   *)
(* landing at the same edge: the cell still works on the old values.       *)
(* Nothing restrains the software here: any register may be written with   *)
(* any of the Configs or Words at any edge.                                *)
(***************************************************************************)
EXTENDS RVCell

CONSTANTS
  Configs,         \* the configuration words the software writes
  SetRegister      \* the set registers it writes, numbered like the lanes

ASSUME RegisterAssumption ==
  /\ Configs \subseteq CfgWord
  /\ SetRegister \subseteq 0..15          \* slv_reg[1] to slv_reg[16]

vars == <<i, j, match_vector, match_cnt, done,
          state_reg, timeout_reg, cnt, cfg, sets, valid>>

NoConfig    == [reset |-> FALSE, timeout |-> 0, M |-> 0, N |-> 0]
ResetConfig == [NoConfig EXCEPT !.reset = TRUE]    \* bit 63 of slv_reg[0]

RegistersCleared ==
  /\ sets = [k \in Lane |-> Zero]
  /\ valid = {}

TypeOK == CompareTypeOK /\ PortTypeOK /\ FsmTypeOK

Init ==
  /\ CompareCleared /\ FsmCleared /\ RegistersCleared
  /\ cfg = NoConfig

-----------------------------------------------------------------------------
NoWrite ==
  /\ CellEdge(cfg.reset)
  /\ UNCHANGED portVars

\* Mutant: the command resets the cell and forgets the datasets.
CommandKeepsDatasets ==
  /\ CellEdge(cfg.reset)
  /\ cfg' = ResetConfig
  /\ UNCHANGED <<sets, valid>>

\* Mutant: the command clears the datasets and leaves the configuration word.
CommandWithoutReset ==
  /\ CellEdge(cfg.reset)
  /\ sets' = [k \in Lane |-> Zero]
  /\ valid' = {}
  /\ UNCHANGED cfg

\* 0xF at the command address: every set register and its valid flags are
\* cleared, and the configuration word holds the cell in reset from the next
\* edge on, until it is written again.
Command ==
  /\ CellEdge(cfg.reset)
  /\ sets' = [k \in Lane |-> Zero]
  /\ valid' = {}
  /\ cfg' = ResetConfig

WriteConfig(c) ==
  /\ CellEdge(cfg.reset)
  /\ cfg' = c
  /\ UNCHANGED <<sets, valid>>

\* All sixteen set registers take a write; the cell is wired to the first
\* MAX_DATASETS of them.
WriteSet(k, w) ==
  /\ CellEdge(cfg.reset)
  /\ sets' = IF k \in Lane THEN [sets EXCEPT ![k] = w] ELSE sets
  /\ valid' = valid \cup ({k} \cap Lane)
  /\ UNCHANGED cfg

\* An edge with S_AXI_ARESETN_i low.
HardReset ==
  /\ CellEdge(TRUE)
  /\ sets' = [k \in Lane |-> Zero]
  /\ valid' = {}
  /\ cfg' = NoConfig

Next ==
  \/ NoWrite
  \/ Command
  \/ HardReset
  \/ \E c \in Configs : WriteConfig(c)
  \/ \E k \in SetRegister, w \in Word : WriteSet(k, w)

Spec == Init /\ [][Next]_vars

-----------------------------------------------------------------------------
(* Properties that hold whatever the software does.                        *)

\* A vote never starts from the leftovers of an earlier one: while datasets
\* are awaited, and when the cell gives up without voting, the comparator is
\* clear, although a reset does not reach it and may strike in mid-vote
\* (RVCell.sv:174,184 against CompareUnit.sv:46).
ComparatorClean == state_reg \in {"wait_datasets", "timeout"} => CompareCleared

\* A verdict that can be read does not change under the reader: neither late
\* datasets nor the running clock alter the status word or the match counters
\* until the configuration is written or the unit is reset.
VerdictIsStable ==
  [][ready /\ ready' /\ cfg' = cfg => status' = status /\ match_cnt' = match_cnt]_vars
=============================================================================
