-------------------------- MODULE RootVoterDriver ---------------------------
(***************************************************************************)
(* The software side: RootVoter.c called by a supervising core, and by the *)
(* worker cores of test_multicore.c that each load one dataset.            *)
(*                                                                         *)
(* A step is a clock edge of the cell at which at most one core has a bus  *)
(* access land (a write) or be sampled (a read); a core may take any       *)
(* number of edges between two accesses, and a worker may never get there. *)
(* The supervisor runs one voting round after the other.  Programs differ  *)
(* in whether they look at what RVC_reset returned and whether they wait   *)
(* for timed-out workers before the next round: a caller is such a         *)
(* program, with the arguments it passes.                                  *)
(***************************************************************************)
EXTENDS RootVoter

CONSTANTS
  Workers,           \* dataset ids the worker cores were given
  Callers,           \* the programs
  TimeoutSpan        \* stands for 2^32, the span of the timeout field

\* In a caller, joins: a new round waits for the workers of the last one;
\* ignores: as in the tests, it votes although RVC_reset returned 1; modes and
\* waits: the <<M, N>> and max_wait_time arguments it passes to RVC_reset.
ASSUME DriverAssumption ==
  /\ Workers \subseteq Nat
  /\ \A c \in Callers :
       /\ DOMAIN c = {"joins", "ignores", "modes", "waits"}
       /\ c.joins \in BOOLEAN /\ c.ignores \in BOOLEAN
       /\ c.modes \subseteq Nibble \X Nibble
       /\ c.waits \subseteq Nat
  /\ TimeoutSpan \in Nat \ {0}
  /\ 0 .. TimeoutSpan - 1 \subseteq Timeout    \* the field holds any of them

VARIABLES
  caller,    \* the program that runs, chosen once
  pc,        \* where the supervisor is
  inf,       \* RVC->inf, the features read back from the cell
  args,      \* the arguments of the current RVC_reset
  rvc,       \* RVC->mode and RVC->timeout
  res,       \* the VoteResult being built or last returned
  wpc,       \* worker: stalled, or on its way to RVC_load_dataset
  wval       \* worker: the dataset it computed

driverVars == <<caller, pc, inf, args, rvc, res, wpc, wval>>
allVars == <<vars, driverVars>>

NoResult == [failvec |-> {}, timeout |-> {},
             match_cnt |-> [k \in Lane |-> 0], agreement |-> FALSE]
NoInfo == [max_sets |-> 0, list_failures |-> FALSE, count_matches |-> FALSE]

DriverInit ==
  /\ Init
  /\ caller \in Callers
  /\ pc = "sync" /\ inf = NoInfo
  /\ args = [M |-> 0, N |-> 0, wait |-> 0]
  /\ rvc = [M |-> 0, N |-> 0, timeout |-> 0]
  /\ res = NoResult
  /\ wpc = [k \in Workers |-> "stalled"]
  /\ wval = [k \in Workers |-> Zero]

-----------------------------------------------------------------------------
(* RVC_sync: one read of the state register.  It fails only on a wrong     *)
(* sync word, and a unit always answers with the right one                 *)
(* (rootvoter.sv:629), so there is no step for that.                       *)
RVC_sync ==
  /\ pc = "sync" /\ NoWrite
  /\ inf' = [max_sets |-> MAX_DATASETS % 32,
             list_failures |-> LIST_FAILURES,
             count_matches |-> COUNT_MATCHES]
  /\ pc' = "call_reset"
  /\ UNCHANGED <<caller, args, rvc, res, wpc, wval>>

(* RVC_reset: the command, the check of the FSM state, the check of the    *)
(* mode, and the configuration.                                            *)
\* Mutant: a mode that is not supported is refused before the command.
ResetCommandIfValid ==
  /\ pc = "call_reset"
  /\ \E m \in caller.modes, w \in caller.waits :
       /\ args' = [M |-> m[1], N |-> m[2], wait |-> w]
       /\ IF m[2] <= inf.max_sets /\ m[1] <= m[2] /\ m[1] >= 2 THEN Command ELSE NoWrite
  /\ pc' = "reset_resp"
  /\ UNCHANGED <<caller, inf, rvc, res, wpc, wval>>

ResetCommand ==
  /\ pc = "call_reset" /\ Command
  /\ \E m \in caller.modes, w \in caller.waits :
       args' = [M |-> m[1], N |-> m[2], wait |-> w]
  /\ pc' = "reset_resp"
  /\ UNCHANGED <<caller, inf, rvc, res, wpc, wval>>

\* The read is issued after the write response: at least one edge later.
ResetResponse ==
  /\ pc = "reset_resp" /\ NoWrite
  /\ pc' = "reset_read"
  /\ UNCHANGED <<caller, inf, args, rvc, res, wpc, wval>>

ArgsChecked == args.N <= inf.max_sets /\ args.M <= args.N /\ args.M >= 2

ResetCheck ==
  /\ pc = "reset_read" /\ NoWrite
  /\ IF state_reg = "idle" /\ ArgsChecked
       THEN /\ pc' = "reset_cfg"
            /\ rvc' = [M |-> args.M, N |-> args.N, timeout |-> args.wait]
       ELSE /\ pc' = "reset_failed"
            /\ UNCHANGED rvc
  /\ UNCHANGED <<caller, inf, args, res, wpc, wval>>

\* (timeout << 8) & 0xFFFFFFFF00 keeps 32 bits of the 64-bit argument.
ResetConfigure ==
  /\ pc = "reset_cfg"
  /\ WriteConfig([reset |-> FALSE, timeout |-> rvc.timeout % TimeoutSpan,
                  M |-> rvc.M, N |-> rvc.N])
  /\ pc' = "start"
  /\ UNCHANGED <<caller, inf, args, rvc, res, wpc, wval>>

RetryReset ==
  /\ pc = "reset_failed" /\ ~caller.ignores /\ NoWrite
  /\ pc' = "call_reset"
  /\ UNCHANGED <<caller, inf, args, rvc, res, wpc, wval>>

(* The supervisor starts the workers that are not still busy, whatever     *)
(* RVC_reset returned if the caller ignores it, and calls RVC_vote.        *)
StartWorkers ==
  /\ pc = "start" \/ (pc = "reset_failed" /\ caller.ignores)
  /\ NoWrite
  /\ wpc' = [k \in Workers |-> IF k < args.N THEN "running" ELSE wpc[k]]
  /\ \E f \in [Workers -> Word] :
       wval' = [k \in Workers |-> IF wpc[k] = "running" THEN wval[k] ELSE f[k]]
  /\ pc' = "vote_poll"
  /\ res' = NoResult
  /\ UNCHANGED <<caller, inf, args, rvc>>

-----------------------------------------------------------------------------
(* RVC_load_dataset, called by a worker.                                   *)
LoadChecked(k) == k <= inf.max_sets

WorkerLoad(k) ==
  /\ wpc[k] = "running"
  /\ IF LoadChecked(k) THEN WriteSet(k, wval[k]) ELSE NoWrite
  /\ wpc' = [wpc EXCEPT ![k] = "stalled"]
  /\ UNCHANGED <<caller, pc, inf, args, rvc, res, wval>>

-----------------------------------------------------------------------------
(* RVC_vote: poll the status word, then read the match counters.           *)
PollBusy ==
  /\ pc = "vote_poll" /\ ~ready /\ NoWrite
  /\ UNCHANGED driverVars

TimeoutField == timeout_reg

PollReady ==
  /\ pc = "vote_poll" /\ ready /\ NoWrite
  /\ res' = [res EXCEPT !.timeout = TimeoutField,
                        !.failvec = IF inf.list_failures THEN failvec_res ELSE {}]
  /\ pc' = "vote_cnt"
  /\ UNCHANGED <<caller, inf, args, rvc, wpc, wval>>

\* Mutant: only the first dataset is looked at.
AgreementOfFirst(failed, cnts) == 0 < rvc.N /\ 0 \notin failed

\* agreement: some dataset of the mode is not flagged as failed, or, without
\* failure flags in the hardware, has M-1 matches.
Agreement(failed, cnts) ==
  \E k \in Lane :
    /\ k < rvc.N
    /\ IF inf.list_failures
         THEN k \notin failed
         ELSE inf.count_matches /\ cnts[k] >= rvc.M - 1

ReadCounters ==
  /\ pc = "vote_cnt" /\ NoWrite
  /\ LET cnts == IF inf.count_matches THEN match_cnt ELSE res.match_cnt IN
       res' = [res EXCEPT !.match_cnt = cnts,
                          !.agreement = Agreement(res.failvec, cnts)]
  /\ pc' = "voted"
  /\ UNCHANGED <<caller, inf, args, rvc, wpc, wval>>

NextRound ==
  /\ pc = "voted" /\ NoWrite
  /\ caller.joins => \A k \in Workers : wpc[k] = "stalled"
  /\ pc' = "call_reset"
  /\ UNCHANGED <<caller, inf, args, rvc, res, wpc, wval>>

-----------------------------------------------------------------------------
Supervisor ==
  \/ RVC_sync
  \/ ResetCommand \/ ResetResponse \/ ResetCheck \/ ResetConfigure \/ RetryReset
  \/ StartWorkers
  \/ PollBusy \/ PollReady \/ ReadCounters \/ NextRound

\* An edge at which no core has an access.
Tick == NoWrite /\ UNCHANGED driverVars

DriverNext == Supervisor \/ Tick \/ \E k \in Workers : WorkerLoad(k)

\* The clock runs and the supervisor's accesses are served; a worker may hang.
DriverSpec ==
  /\ DriverInit /\ [][DriverNext]_allVars
  /\ WF_allVars(Tick) /\ WF_allVars(Supervisor)

-----------------------------------------------------------------------------
VoteDone == pc = "voted"
UsedLanes == {k \in Lane : k < rvc.N}

\* RVC_reset never reports an FSM failure: when its read of the state register
\* is sampled, two edges after the command at the earliest, the cell has left
\* the verdict of the last round, although late workers may have written
\* datasets since the command (RootVoter.c:48-55).
ResetFindsIdle == pc = "reset_read" => state_reg = "idle"

\* The two reads of RVC_vote belong together: the failure flags, sampled with
\* the ready bit, are the ones the counters sampled later imply, although
\* workers may load in between (RootVoter.c:112-129).
ResultConsistent ==
  VoteDone /\ inf.list_failures =>
    \A k \in UsedLanes :
      k \in res.failvec <=> res.match_cnt[k] + 1 < rvc.M

\* What RVC_vote returns is a verdict in the mode that the last RVC_reset was
\* asked for, and a mode that the cell can vote in: never that of an earlier
\* round, and never one with M below 2, which config_ok lets pass and in which
\* every dataset agrees with itself, although callers do not look at what
\* RVC_reset returned (RootVoter.c:57-66, RVCell.sv:128, test_multicore.c:62).
ResultOfAcceptedMode ==
  VoteDone =>
    /\ cfg.M = args.M /\ cfg.N = args.N
    /\ 2 <= cfg.M /\ cfg.M <= cfg.N /\ cfg.N <= MAX_DATASETS

\* To a caller that joins its workers, a result without timeouts is about the
\* datasets of the workers: agreement is reported exactly when at least M of
\* them loaded the same word.
AgreementMeansMEqual ==
  caller.joins /\ VoteDone /\ res.timeout = {} =>
    (res.agreement <=>
       \E k \in UsedLanes :
         Cardinality({l \in UsedLanes : sets[l] = sets[k]}) >= rvc.M)

\* With such a caller, a worker that the result does not show as timed out has
\* loaded its dataset.
NotTimedOutLoaded ==
  caller.joins /\ VoteDone => UsedLanes \ res.timeout \subseteq valid

\* RVC_vote returns once the reset was successful, even if workers hang: the
\* window, the walk and the polling all come to an end.
VoteReturns == (pc = "start") ~> VoteDone

-----------------------------------------------------------------------------
(* What the comments of the API promise and the code does not keep.        *)

\* "Overall agreement status: 1 (reached)" for "M (min number of matching
\* sets)" (RootVoter.h:270,259): agreement needs M loaded datasets that match.
AgreementNeedsMLoaded ==
  VoteDone /\ res.agreement =>
    \E k \in UsedLanes \ res.timeout :
      Cardinality({l \in UsedLanes \ res.timeout : sets[l] = sets[k]}) >= rvc.M
=============================================================================
