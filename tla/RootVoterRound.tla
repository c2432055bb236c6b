--------------------------- MODULE RootVoterRound ---------------------------
(***************************************************************************)
(* The register file under the protocol of RootVoter.c and the register    *)
(* map: a round begins with the reset command and one write of a mode that *)
(* RVC_reset accepts; the datasets of that mode are written inside the     *)
(* window; afterwards the registers are left alone until the result is     *)
(* acknowledged or the unit is reset.  Resets may strike at any edge.      *)
(***************************************************************************)
EXTENDS RootVoter

\* The mode check of RVC_reset.
ModeChecked(c) == c.N <= MAX_DATASETS /\ c.M <= c.N /\ c.M >= 2

\* The cell is in a round: it has a configuration it accepts.
Live == ~cfg.reset /\ config_ok

\* A dataset landing now is seen before the window is found to be over.
WindowOpen ==
  /\ Live
  /\ state_reg = "idle" \/ (state_reg = "wait_datasets" /\ ~counter_expired)

StartRound ==
  \E c \in Configs : cfg.reset /\ ~c.reset /\ ModeChecked(c) /\ WriteConfig(c)

Release == ready /\ WriteConfig(NoConfig)

LoadInWindow ==
  \E k \in SetRegister, w \in Word :
    WindowOpen /\ k < used_datasets /\ WriteSet(k, w)

RoundNext ==
  \/ NoWrite \/ Command \/ HardReset
  \/ StartRound \/ Release \/ LoadInWindow

RoundSpec == Init /\ [][RoundNext]_vars /\ WF_vars(RoundNext)

-----------------------------------------------------------------------------
Decided == Live /\ state_reg \in {"voting", "timeout", "result"}

\* From the end of the collection on, the timeout flags name exactly the
\* datasets of the mode that are not there: none is missed although the cell
\* counts valid flags without looking whose they are (RVCell.sv:120-127,194).
MissingIsFlagged == Decided => timeout_reg = mask \ valid

\* The failure flags name exactly the datasets with fewer than M equals,
\* themselves included, and all of them if fewer than M arrived: the pairwise
\* walk, spread over many clocks, equals a vote taken at once.
Equals(k) == {l \in mask : sets[l] = sets[k]}

VerdictExact ==
  Live /\ ready =>
    failvec_res = IF Cardinality(valid) < datasets_min
                    THEN mask
                    ELSE {k \in mask : Cardinality(Equals(k)) < datasets_min}

\* Giving up and voting exclude each other: the cell gives up only with fewer
\* than M datasets, and votes only with at least M.
QuorumDecides ==
  Decided => (state_reg = "timeout" <=> Cardinality(valid) < datasets_min)

\* A round that is begun ends: the window runs out or fills, and the walk over
\* the pairs terminates, unless the unit is reset first.
RoundEnds == Live ~> (ready \/ ~Live)

-----------------------------------------------------------------------------
(* The cell implements the abstract vote.                                  *)
Phase == IF ~Live THEN "closed" ELSE IF ready THEN "decided" ELSE "open"

Vote == INSTANCE Voting WITH
  Lanes    <- Lane,
  Words    <- Word,
  ZeroWord <- Zero,
  Modes    <- {[M |-> c.M, N |-> c.N] : c \in {d \in Configs : ModeChecked(d)}},
  phase    <- Phase,
  mode     <- IF Live THEN [M |-> cfg.M, N |-> cfg.N] ELSE [M |-> 0, N |-> 0],
  loaded   <- [k \in (IF Live THEN valid ELSE {}) |-> sets[k]],
  verdict  <- [timeout |-> IF Live /\ ready THEN timeout_reg ELSE {},
               failvec |-> IF Live /\ ready THEN failvec_res ELSE {}]

\* Through the refinement mapping a round is decided in one step, from the
\* datasets handed in, and is eventually decided if it is not cut short.
ImplementsVoting == Vote!VotingSpec

=============================================================================
