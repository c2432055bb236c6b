-------------------------- MODULE RootVoterWindow ---------------------------
(***************************************************************************)
(* The collection window of a round against the clock.  The configuration  *)
(* is written once after the reset command; datasets may be written at any *)
(* edge, too early, in time or too late, the way cores that know nothing   *)
(* of the window write them.  Two history variables remember when.         *)
(***************************************************************************)
EXTENDS RootVoterRound

CONSTANT MaxAge    \* bound: ages are told apart up to here

\* Past the end of every window: on the edge that closes one, the age is its
\* length and one.
ASSUME MaxAgeAssumption ==
  MaxAge \in Nat /\ \A t \in Timeout \cup {0} : t + 1 < MaxAge

VARIABLES
  age,       \* edges since the configuration landed
  arrival    \* for each dataset, the age at which it was first there

windowVars == <<age, arrival>>

Never == MaxAge + 1

WindowInit ==
  /\ Init
  /\ age = 0
  /\ arrival = [k \in Lane |-> Never]

Older == IF age < MaxAge THEN age + 1 ELSE MaxAge

\* Any edge of a round: the age advances, datasets are stamped.
Stamp ==
  /\ age' = IF cfg'.reset \/ cfg.reset THEN 0 ELSE Older
  /\ arrival' = [k \in Lane |->
       IF k \notin valid' THEN Never
       ELSE IF k \in valid THEN arrival[k]
       ELSE age']

WindowNext ==
  /\ \/ NoWrite \/ Command \/ StartRound \/ Release
     \/ \E k \in SetRegister, w \in Word : WriteSet(k, w)
  /\ Stamp

WindowSpec == WindowInit /\ [][WindowNext]_<<vars, windowVars>>

-----------------------------------------------------------------------------
\* "The datasets should be loaded during timeout clock cycles after setting
\* the config register" (rootvoter.sv:50-51): a dataset that was there within
\* that many clocks, and one more, is never reported as timed out, even when
\* its write meets the edge at which the window closes.
NoFalseTimeout ==
  Live => \A k \in timeout_reg : arrival[k] > cfg.timeout + 1

\* A round does not give up or vote short of datasets before its time: with a
\* dataset of the mode missing, the cell is still collecting for the whole
\* window, provided no dataset beyond the mode was written.
FullWindowGranted ==
  Live /\ valid \subseteq mask /\ age <= cfg.timeout + 1 /\ ~(mask \subseteq valid) =>
    state_reg \in {"idle", "wait_datasets"}

\* A dataset that came too late is reported, and one that never came too.
LateIsReported ==
  Decided /\ (\A k \in Lane \ mask : arrival[k] = Never) =>
    \A k \in mask : arrival[k] > cfg.timeout + 1 => k \in timeout_reg

\* The flags are final once the collection is over: what is written later
\* neither clears nor raises one (RVCell.sv:194 against 168).
TimeoutFlagsFinal ==
  [][Decided /\ Live' => timeout_reg' = timeout_reg]_<<vars, windowVars>>
=============================================================================
