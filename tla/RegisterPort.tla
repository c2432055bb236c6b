----------------------------- MODULE RegisterPort -----------------------------
(***************************************************************************)
(* What a core may rely on when it stores to or loads from the registers   *)
(* of a unit, without bridge, crossbar or handshakes: every access is      *)
(* performed once, at one moment between its start and its end, and is     *)
(* answered.  The outputs of a RootVoter change under it at any moment; a  *)
(* command to the ROM resets the accelerators from the moment on at which  *)
(* it is performed.                                                        *)
(***************************************************************************)
CONSTANTS
  Accesses,        \* by unit, the stores [op, reg, word] and loads [op, reg]
  OutputFiles,     \* by unit, what its output registers may show, by register
  Registers,       \* the indices of the registers of a RootVoter that keep a word
  ConfigRegister, CommandRegister,
  ClearedWord, ResetWord

NoAccess == [op |-> "none"]

VARIABLES
  unit,            \* the unit of the accesses
  file,            \* [word : by register, valid : the datasets written]
  out,             \* what the output registers show
  acc_reset,       \* the accelerators are held in reset
  access, done, answer

portState == <<unit, file, out, acc_reset, access, done, answer>>

ClearedFile == [word |-> [r \in Registers |-> ClearedWord], valid |-> {}]

\* A store to the command register clears a RootVoter and leaves it in reset; a
\* store to a register that keeps a word replaces the word; others do nothing.
Stored(f, a) ==
  CASE a.reg = CommandRegister ->
         [ClearedFile EXCEPT !.word[ConfigRegister] = ResetWord]
    [] a.reg \in Registers ->
         [word |-> [f.word EXCEPT ![a.reg] = a.word],
          valid |-> f.valid \cup ({a.reg} \ {ConfigRegister})]
    [] OTHER -> f

PortInit ==
  /\ unit \in DOMAIN Accesses
  /\ file = ClearedFile /\ acc_reset = TRUE
  /\ out \in OutputFiles[unit]
  /\ access = NoAccess /\ done = FALSE /\ answer = ClearedWord

Ask ==
  /\ access = NoAccess
  /\ access' \in Accesses[unit]
  /\ acc_reset' = FALSE
  /\ UNCHANGED <<file, done, answer>>

Perform ==
  /\ access # NoAccess /\ ~done
  /\ done' = TRUE
  /\ acc_reset' = (unit = "rom" /\ access.op = "store" /\ access.reg = CommandRegister)
  /\ \/ access.op = "store" /\ unit = "rootvoter" /\ file' = Stored(file, access) /\ UNCHANGED answer
     \/ access.op = "store" /\ unit = "rom" /\ UNCHANGED <<file, answer>>
     \/ access.op = "load" /\ answer' = out[access.reg] /\ UNCHANGED file
  /\ UNCHANGED access

Answer ==
  /\ done
  /\ access' = NoAccess /\ done' = FALSE
  /\ acc_reset' = FALSE
  /\ UNCHANGED <<file, answer>>

\* A reset of the system cuts an access short.
ClearPort ==
  /\ file' = ClearedFile /\ acc_reset' = TRUE
  /\ access' = NoAccess /\ done' = FALSE /\ answer' = ClearedWord

\* The accelerators leave their reset by themselves.
Pass == acc_reset' = FALSE /\ UNCHANGED <<file, access, done, answer>>

Outside == out' \in OutputFiles[unit] /\ UNCHANGED unit

PortNext == (Ask \/ Perform \/ Answer \/ ClearPort \/ Pass) /\ Outside

PortSpec ==
  /\ PortInit /\ [][PortNext]_portState
  /\ WF_portState(Perform /\ Outside)
  /\ WF_portState(Answer /\ Outside)
  /\ WF_portState(acc_reset /\ Pass /\ Outside)
=============================================================================
