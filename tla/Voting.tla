------------------------------- MODULE Voting -------------------------------
(***************************************************************************)
(* What a RootVoter cell promises, without clocks, counters or FSM.        *)
(*                                                                         *)
(* A round is opened in a mode M out of N; datasets are handed in; at some *)
(* moment the round is decided, once, from what was handed in by then.     *)
(* A dataset that was not handed in takes part with the word its register  *)
(* was cleared to; it is reported as missing.                              *)
(***************************************************************************)
EXTENDS Integers, FiniteSets

CONSTANTS Lanes, Words, ZeroWord, Modes

NoMode == [M |-> 0, N |-> 0]
NoVerdict == [timeout |-> {}, failvec |-> {}]

VARIABLES phase, mode, loaded, verdict

votingVars == <<phase, mode, loaded, verdict>>

VotingInit ==
  /\ phase = "closed"
  /\ mode = NoMode
  /\ loaded = [k \in {} |-> ZeroWord]
  /\ verdict = NoVerdict

Used(md) == {k \in Lanes : k < md.N}

Ballot(have, k) == IF k \in DOMAIN have THEN have[k] ELSE ZeroWord

Supporters(md, have, k) == {l \in Used(md) : Ballot(have, l) = Ballot(have, k)}

\* Every dataset short of M equal ones fails; when fewer than M datasets are
\* there, no vote is taken and all fail.
Decision(md, have) ==
  [timeout |-> Used(md) \ DOMAIN have,
   failvec |-> IF Cardinality(DOMAIN have) < md.M
                 THEN Used(md)
                 ELSE {k \in Used(md) : Cardinality(Supporters(md, have, k)) < md.M}]

Open ==
  /\ phase = "closed"
  /\ phase' = "open"
  /\ mode' \in Modes
  /\ UNCHANGED <<loaded, verdict>>

HandIn ==
  /\ phase = "open"
  /\ \E k \in Used(mode), w \in Words :
       loaded' = [l \in DOMAIN loaded \cup {k} |-> IF l = k THEN w ELSE loaded[l]]
  /\ UNCHANGED <<phase, mode, verdict>>

Decide ==
  /\ phase = "open"
  /\ phase' = "decided"
  /\ verdict' = Decision(mode, loaded)
  /\ UNCHANGED <<mode, loaded>>

Close ==
  /\ phase # "closed"
  /\ phase' = "closed"
  /\ mode' = NoMode
  /\ loaded' = [k \in {} |-> ZeroWord]
  /\ verdict' = NoVerdict

VotingNext == Open \/ HandIn \/ Decide \/ Close

VotingSpec ==
  /\ VotingInit /\ [][VotingNext]_votingVars
  /\ WF_votingVars(Decide)
=============================================================================
