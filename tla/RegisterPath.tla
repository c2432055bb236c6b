----------------------------- MODULE RegisterPath -----------------------------
(***************************************************************************)
(* The way of an access from the AHB bus to the registers of a unit: the   *)
(* bridge ahb2axi_l.vhd, one buffer per channel for the AXI4-Lite crossbar,*)
(* and the unit with its wrapper, its handshakes and its registers.  The   *)
(* unit is a RootVoter (rootvoter.sv) or the ROM that describes the        *)
(* hardware and resets the accelerators (AxiRom.sv); the handshakes and    *)
(* the wrappers of the two are the same code.                              *)
(*                                                                         *)
(* A step is one clock edge of them all: every register is computed from   *)
(* the values before the edge.  An access is a 64-bit load or store, as    *)
(* RootVoter.c makes them; the bus and the channels carry two 64-bit lanes.*)
(***************************************************************************)
EXTENDS Naturals, Sequences

CONSTANTS
  SetRegister,     \* the indices of the set registers
  Config, Word,    \* the words stored to the config and to the set registers
  Zero,            \* a cleared register
  ResetWord,       \* bit 63 of slv_reg[0]
  Outputs,         \* what the output registers may show
  Rom              \* the words of the ROM, by register

ASSUME SetRegisterAssumption == SetRegister \subseteq 1..16
ASSUME RomAssumption == DOMAIN Rom \subseteq 0..15

CMD_ADR == 31
Register == {0} \cup SetRegister

\* A core stores to and loads from a RootVoter as RootVoter.c does; it loads
\* the words of the ROM and gives the one command that the ROM knows, or stores
\* to a word in vain.  No program of the repository uses the ROM yet.
ResetStore == [op : {"store"}, reg : {CMD_ADR}, word : {15}]

Access == [
  rootvoter |-> [op : {"store"}, reg : {0}, word : Config]
                  \cup [op : {"store"}, reg : SetRegister, word : Word]
                  \cup ResetStore \cup [op : {"load"}, reg : {20}],
  rom       |-> [op : {"store"}, reg : {0}, word : Config]
                  \cup ResetStore \cup [op : {"load"}, reg : DOMAIN Rom]]

Lane == {"lower", "upper"}
Empty == <<>>                 \* a channel with nothing on it

VARIABLES
  unit,                       \* the unit of the accesses
  \* the bridge
  state, access, ar_valid, r_ready, aw_valid, w_valid, b_ready,
  wr_word_valid, read_validated, write_validated, hrdata,
  \* the crossbar, between the bridge and the slave
  xaw, xw, xb, xar, xr,
  \* the handshakes of the slave
  awready, aw_en, awaddr, wready, bvalid, arready, araddr, rvalid, rdata,
  \* the registers, the cell's outputs or the words of the ROM, and the reset
  \* of the accelerators
  slv_reg, slv_reg_valid, read_reg, acc_sw_reset_n

bridgeVars == <<state, access, ar_valid, r_ready, aw_valid, w_valid, b_ready,
                wr_word_valid, read_validated, write_validated, hrdata>>
crossbarVars == <<xaw, xw, xb, xar, xr>>
slaveVars == <<awready, aw_en, awaddr, wready, bvalid, arready, araddr, rvalid, rdata>>
pathVars == <<unit, bridgeVars, crossbarVars, slaveVars,
              slv_reg, slv_reg_valid, read_reg, acc_sw_reset_n>>

-----------------------------------------------------------------------------
(* The bridge's channels after the edge, given what the other side shows.  *)

\* No access, or a new one: the AHB side waits while the bridge is busy.
BridgeIdle ==
  /\ state = "idle"
  /\ r_ready' = FALSE /\ w_valid' = FALSE /\ b_ready' = FALSE
  /\ \/ UNCHANGED <<state, access, wr_word_valid, read_validated, write_validated>>
        /\ ar_valid' = FALSE /\ aw_valid' = FALSE
     \/ \E a \in Access[unit] :
          /\ access' = a
          /\ IF a.op = "load"
               THEN /\ state' = "read" /\ ar_valid' = TRUE /\ aw_valid' = FALSE
                    /\ read_validated' = FALSE
                    /\ UNCHANGED <<wr_word_valid, write_validated>>
               ELSE /\ state' = "write" /\ aw_valid' = TRUE /\ ar_valid' = FALSE
                    /\ wr_word_valid' = FALSE /\ write_validated' = FALSE
                    /\ UNCHANGED read_validated
  /\ UNCHANGED hrdata

\* Mutant: the answer is not waited for.
BridgeReadHasty(arTaken) ==
  /\ state = "read"
  /\ ar_valid' = (ar_valid /\ ~arTaken)
  /\ r_ready' = (xr = Empty)
  /\ hrdata' = IF xr # Empty THEN Head(xr) ELSE hrdata
  /\ read_validated' = TRUE
  /\ state' = IF ~ar_valid' THEN "idle" ELSE "read"
  /\ UNCHANGED <<access, aw_valid, w_valid, b_ready, wr_word_valid, write_validated>>

BridgeRead(arTaken) ==
  LET answered == xr # Empty /\ r_ready IN
  /\ state = "read"
  /\ ar_valid' = (ar_valid /\ ~arTaken)
  /\ r_ready' = (~answered /\ (r_ready \/ ~read_validated))
  /\ hrdata' = IF answered THEN Head(xr) ELSE hrdata
  /\ read_validated' = (read_validated \/ answered)
  /\ state' = IF ~ar_valid' /\ ~r_ready' /\ read_validated' THEN "idle" ELSE "read"
  /\ UNCHANGED <<access, aw_valid, w_valid, b_ready, wr_word_valid, write_validated>>

\* The data follows the address by one clock, when the bus drives it.
BridgeWrite(awTaken, wTaken) ==
  LET answered == b_ready /\ xb IN
  /\ state = "write"
  /\ aw_valid' = (aw_valid /\ ~awTaken)
  /\ wr_word_valid' = TRUE
  /\ w_valid' = ((w_valid \/ ~wr_word_valid) /\ ~(w_valid /\ wTaken))
  /\ b_ready' = ((b_ready \/ ~wr_word_valid) /\ ~answered)
  /\ write_validated' = (write_validated \/ answered)
  /\ state' = IF ~aw_valid' /\ ~w_valid' /\ write_validated' THEN "idle" ELSE "write"
  /\ UNCHANGED <<access, ar_valid, r_ready, read_validated, hrdata>>

-----------------------------------------------------------------------------
(* The crossbar holds at most one item per channel, for any time.  taken   *)
(* is the set of channels on which it takes an item in this clock.         *)
Channels == {"AW", "W", "B", "AR", "R"}

\* The register of an address is aligned to a lane; the bus drives the word
\* on both lanes.
WriteBeat == [word |-> access.word, strb |-> {IF access.reg % 2 = 0 THEN "lower" ELSE "upper"}]

CrossbarTakes(taken) ==
  /\ "AW" \in taken => aw_valid /\ xaw = Empty
  /\ "W"  \in taken => w_valid /\ xw = Empty
  /\ "AR" \in taken => ar_valid /\ xar = Empty
  /\ "B"  \in taken => bvalid /\ ~xb
  /\ "R"  \in taken => rvalid /\ xr = Empty

CrossbarEdge(taken) ==
  /\ CrossbarTakes(taken)
  /\ xaw' = IF "AW" \in taken THEN <<access.reg>>
            ELSE IF awready THEN Empty ELSE xaw
  /\ xw'  = IF "W" \in taken THEN <<WriteBeat>>
            ELSE IF wready THEN Empty ELSE xw
  /\ xar' = IF "AR" \in taken THEN <<access.reg>>
            ELSE IF arready THEN Empty ELSE xar
  /\ xb'  = ("B" \in taken \/ (xb /\ ~b_ready))
  /\ xr'  = IF "R" \in taken THEN <<rdata>>
            ELSE IF r_ready THEN Empty ELSE xr

-----------------------------------------------------------------------------
(* The slave.  What the crossbar presents it sees as awvalid and so on.    *)
awvalid == xaw # Empty
wvalid  == xw # Empty
arvalid == xar # Empty

AcceptsWrite == ~awready /\ awvalid /\ wvalid /\ aw_en

slv_reg_wren == wready /\ wvalid /\ awready /\ awvalid
slv_reg_rden == arready /\ arvalid /\ ~rvalid

\* The address and the data are accepted together, for one clock, and no other
\* write until the answer is taken.
WriteReady(bTaken) ==
  /\ awready' = AcceptsWrite
  /\ wready' = (~wready /\ wvalid /\ awvalid /\ aw_en)
  /\ awaddr' = IF AcceptsWrite THEN Head(xaw) ELSE awaddr
  /\ aw_en' = (~AcceptsWrite /\ (aw_en \/ bTaken))

WriteAnswer(bTaken) ==
  bvalid' = ((slv_reg_wren /\ ~bvalid) \/ (bvalid /\ ~bTaken))

ReadReady ==
  /\ arready' = (~arready /\ arvalid)
  /\ araddr' = IF ~arready /\ arvalid THEN Head(xar) ELSE araddr

\* The output registers or the words of the ROM; every other address reads as zero.
reg_data_out == IF araddr \in DOMAIN read_reg THEN read_reg[araddr] ELSE Zero

ReadAnswer(rTaken) ==
  /\ rvalid' = (slv_reg_rden \/ (rvalid /\ ~rTaken))
  /\ rdata' = IF slv_reg_rden THEN reg_data_out ELSE rdata

\* Mutant: the strobes of the upper lane are not folded onto the lower one.
StrobesUnfolded == Head(xw).strb \cap {"lower"}

\* The wrappers fold the strobes of the upper lane onto the lower one.
Strobes == Head(xw).strb

ClearRegisters ==
  /\ slv_reg' = [r \in Register |-> IF r = 0 THEN ResetWord ELSE Zero]
  /\ slv_reg_valid' = {}

WriteRegister(r, w) ==
  /\ slv_reg' = [slv_reg EXCEPT ![r] = w]
  /\ slv_reg_valid' = slv_reg_valid \cup ({r} \cap SetRegister)

written == slv_reg_wren /\ Strobes # {}
commanded == written /\ awaddr = CMD_ADR /\ Head(xw).word = 15

RegisterWrite ==
  CASE unit = "rootvoter" /\ commanded -> ClearRegisters
    [] unit = "rootvoter" /\ written /\ awaddr \in Register ->
         WriteRegister(awaddr, Head(xw).word)
    [] OTHER -> UNCHANGED <<slv_reg, slv_reg_valid>>

\* The accelerators are in reset for one clock.  A command that came in that
\* clock would be dropped: the end of the pulse goes first.
ResetPulse == acc_sw_reset_n' = (acc_sw_reset_n => ~(unit = "rom" /\ commanded))

SlaveEdge(taken) ==
  /\ WriteReady("B" \in taken) /\ WriteAnswer("B" \in taken)
  /\ ReadReady /\ ReadAnswer("R" \in taken)
  /\ RegisterWrite /\ ResetPulse

-----------------------------------------------------------------------------
Idle ==
  /\ state = "idle" /\ ar_valid = FALSE /\ r_ready = FALSE /\ aw_valid = FALSE
  /\ w_valid = FALSE /\ b_ready = FALSE /\ wr_word_valid = FALSE
  /\ read_validated = FALSE /\ write_validated = FALSE /\ hrdata = Zero
  /\ xaw = Empty /\ xw = Empty /\ xb = FALSE /\ xar = Empty /\ xr = Empty
  /\ awready = FALSE /\ aw_en = TRUE /\ awaddr = 0 /\ wready = FALSE /\ bvalid = FALSE
  /\ arready = FALSE /\ araddr = 0 /\ rvalid = FALSE /\ rdata = Zero
  /\ slv_reg = [r \in Register |-> Zero] /\ slv_reg_valid = {} /\ acc_sw_reset_n = FALSE

ResetEdge ==
  /\ state' = "idle" /\ ar_valid' = FALSE /\ r_ready' = FALSE /\ aw_valid' = FALSE
  /\ w_valid' = FALSE /\ b_ready' = FALSE /\ wr_word_valid' = FALSE
  /\ read_validated' = FALSE /\ write_validated' = FALSE /\ hrdata' = Zero
  /\ xaw' = Empty /\ xw' = Empty /\ xb' = FALSE /\ xar' = Empty /\ xr' = Empty
  /\ awready' = FALSE /\ aw_en' = TRUE /\ awaddr' = 0 /\ wready' = FALSE /\ bvalid' = FALSE
  /\ arready' = FALSE /\ araddr' = 0 /\ rvalid' = FALSE /\ rdata' = Zero
  /\ slv_reg' = [r \in Register |-> Zero] /\ slv_reg_valid' = {} /\ acc_sw_reset_n' = FALSE

\* What the loads read: the status register of a RootVoter, which changes at any
\* time, or the ROM.
OutputFile == [rootvoter |-> [{20} -> Outputs], rom |-> {Rom}]

PathInit ==
  /\ unit \in DOMAIN Access
  /\ Idle /\ access \in Access[unit] /\ read_reg \in OutputFile[unit]

Clock(taken) ==
  /\ BridgeIdle \/ BridgeRead("AR" \in taken) \/ BridgeWrite("AW" \in taken, "W" \in taken)
  /\ CrossbarEdge(taken)
  /\ SlaveEdge(taken)
  /\ read_reg' \in OutputFile[unit]
  /\ UNCHANGED unit

\* An edge with the system reset low.
Reset == ResetEdge /\ UNCHANGED <<unit, access>> /\ read_reg' \in OutputFile[unit]

PathNext == Reset \/ \E taken \in SUBSET Channels : Clock(taken)

\* The crossbar passes on, at the latest when it keeps being asked.
Willing == {c \in Channels : CrossbarTakes({c})}

PathSpec ==
  PathInit /\ [][PathNext]_pathVars /\ WF_pathVars(Clock(Willing))

-----------------------------------------------------------------------------
\* No answer is lost: the slave answers a write, and accepts a read, only when
\* the answer before has been taken.  A read accepted with an answer pending
\* would never be answered (rootvoter.sv:548): it is the bridge that never
\* sends one, and the crossbar would let it.
NoAnswerLost ==
  /\ slv_reg_wren => ~bvalid
  /\ arready /\ arvalid => ~rvalid

\* Through the refinement mapping every access is performed at one clock, and
\* every reset command that the ROM performs resets the accelerators.
Port == INSTANCE RegisterPort WITH
  Accesses <- Access, OutputFiles <- OutputFile, Registers <- Register,
  ConfigRegister <- 0, CommandRegister <- CMD_ADR, ClearedWord <- Zero,
  file   <- [word |-> slv_reg, valid |-> slv_reg_valid],
  out    <- read_reg,
  acc_reset <- ~acc_sw_reset_n,
  access <- IF state = "idle" THEN [op |-> "none"] ELSE access,
  done   <- \/ state = "write" /\ (bvalid \/ xb \/ write_validated)
            \/ state = "read" /\ (rvalid \/ xr # Empty \/ read_validated),
  answer <- CASE rvalid -> rdata [] xr # Empty -> Head(xr) [] OTHER -> hrdata

ImplementsPort == Port!PortSpec
=============================================================================
