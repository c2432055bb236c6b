------------------------- MODULE RegisterPathProofs -------------------------
(***************************************************************************)
(* An access through the bridge, the crossbar and the handshakes, for any  *)
(* registers, words, outputs and ROM: at every clock the access is in one  *)
(* of a few stages, and each stage is one moment of the abstract port.     *)
(***************************************************************************)
EXTENDS RegisterPath, TLAPS

-----------------------------------------------------------------------------
(* The inductive invariant: where an access can be.                        *)

BridgeReadRests  == ar_valid = FALSE /\ r_ready = FALSE
BridgeWriteRests == aw_valid = FALSE /\ w_valid = FALSE /\ b_ready = FALSE

ReadSideRests ==
  /\ xar = Empty /\ xr = Empty
  /\ arready = FALSE /\ rvalid = FALSE

WriteSideRests ==
  /\ xaw = Empty /\ xw = Empty /\ xb = FALSE
  /\ awready = FALSE /\ wready = FALSE /\ aw_en = TRUE /\ bvalid = FALSE

\* The address of a load is with the bridge or the crossbar; accepted by the
\* slave; the answer is with the slave or the crossbar.
ReadAsked ==
  /\ xar = IF ar_valid THEN Empty ELSE <<access.reg>>
  /\ xr = Empty /\ arready = FALSE /\ rvalid = FALSE
  /\ ar_valid \/ r_ready

ReadAccepted ==
  /\ ar_valid = FALSE /\ r_ready = TRUE
  /\ xar = <<access.reg>> /\ xr = Empty
  /\ arready = TRUE /\ araddr = access.reg /\ rvalid = FALSE

ReadPerformed ==
  /\ ar_valid = FALSE /\ r_ready = TRUE
  /\ xar = Empty /\ arready = FALSE
  /\ \/ rvalid = TRUE /\ xr = Empty
     \/ rvalid = FALSE /\ xr = <<rdata>>

Reading ==
  /\ BridgeWriteRests /\ WriteSideRests
  /\ access.op = "load" /\ read_validated = FALSE
  /\ ReadAsked \/ ReadAccepted \/ ReadPerformed

\* The same for a store, whose address and word travel apart.
WriteAsked ==
  /\ xaw = IF aw_valid THEN Empty ELSE <<access.reg>>
  /\ xw = IF w_valid \/ ~wr_word_valid THEN Empty ELSE <<WriteBeat>>
  /\ w_valid => wr_word_valid
  /\ xb = FALSE
  /\ awready = FALSE /\ wready = FALSE /\ aw_en = TRUE /\ bvalid = FALSE

WriteAccepted ==
  /\ aw_valid = FALSE /\ w_valid = FALSE /\ wr_word_valid = TRUE
  /\ xaw = <<access.reg>> /\ xw = <<WriteBeat>> /\ awaddr = access.reg
  /\ xb = FALSE
  /\ awready = TRUE /\ wready = TRUE /\ aw_en = FALSE /\ bvalid = FALSE

\* The slave is open to the next write again when the answer is on its way.
WritePerformed ==
  /\ aw_valid = FALSE /\ w_valid = FALSE /\ wr_word_valid = TRUE
  /\ xaw = Empty /\ xw = Empty
  /\ awready = FALSE /\ wready = FALSE
  /\ \/ xb = FALSE /\ bvalid = TRUE /\ aw_en = FALSE
     \/ xb = TRUE /\ bvalid = FALSE /\ aw_en = TRUE

Writing ==
  /\ BridgeReadRests /\ ReadSideRests
  /\ access.op = "store" /\ write_validated = FALSE /\ b_ready = wr_word_valid
  /\ WriteAsked \/ WriteAccepted \/ WritePerformed

Resting == BridgeReadRests /\ ReadSideRests /\ BridgeWriteRests /\ WriteSideRests

\* The bridge has at most one access under way, in one stage.
OneAccess ==
  \/ state = "idle" /\ Resting
  \/ state = "read" /\ Reading
  \/ state = "write" /\ Writing

\* The reset of the accelerators is over before the slave takes the next store.
PulseShort == acc_sw_reset_n = FALSE => state = "idle" \/ bvalid = TRUE

PathTyped ==
  /\ unit \in DOMAIN Access
  /\ access \in Access[unit]
  /\ read_reg \in OutputFile[unit]
  /\ ar_valid \in BOOLEAN /\ r_ready \in BOOLEAN /\ aw_valid \in BOOLEAN
  /\ w_valid \in BOOLEAN /\ b_ready \in BOOLEAN /\ wr_word_valid \in BOOLEAN
  /\ acc_sw_reset_n \in BOOLEAN
  /\ DOMAIN slv_reg = Register

PathInv == PathTyped /\ OneAccess /\ PulseShort

-----------------------------------------------------------------------------
LEMMA CommandIsNoRegister == CMD_ADR \notin Register
BY SetRegisterAssumption DEF CMD_ADR, Register

\* What an access can be.
LEMMA AccessCases ==
  ASSUME NEW u \in DOMAIN Access, NEW a \in Access[u], NEW o \in OutputFile[u]
  PROVE  /\ u \in {"rootvoter", "rom"}
         /\ a.op \in {"store", "load"}
         /\ a.op = "load" => a.reg \in DOMAIN o
         /\ a.op = "store" =>
              \/ a.reg = CMD_ADR /\ a.word = 15
              \/ a.reg \in Register /\ a.reg # CMD_ADR
<1>1. CMD_ADR \notin Register
  BY CommandIsNoRegister
<1>2. CASE u = "rootvoter"
  <2>1. a \in Access.rootvoter /\ o \in [{20} -> Outputs]
    BY <1>2 DEF Access, OutputFile
  <2>. QED  BY <1>1, <1>2, <2>1 DEF Access, ResetStore, Register
<1>3. CASE u = "rom"
  <2>1. a \in Access.rom /\ o = Rom
    BY <1>3 DEF Access, OutputFile
  <2>. QED  BY <1>1, <1>3, <2>1 DEF Access, ResetStore, Register
<1>. QED  BY <1>2, <1>3 DEF Access

\* A side that rests, and that the bridge sends nothing, keeps resting.
LEMMA ReadSideKeeps ==
  ASSUME NEW taken, CrossbarEdge(taken), ReadReady, ReadAnswer("R" \in taken),
         ReadSideRests, ar_valid = FALSE
  PROVE  ReadSideRests' /\ rdata' = rdata
BY DEF ReadSideRests, CrossbarEdge, CrossbarTakes, ReadReady, ReadAnswer, slv_reg_rden,
       arvalid, Empty

LEMMA WriteSideKeeps ==
  ASSUME NEW taken, CrossbarEdge(taken), WriteReady("B" \in taken), WriteAnswer("B" \in taken),
         WriteSideRests, aw_valid = FALSE, w_valid = FALSE
  PROVE  WriteSideRests'
BY DEF WriteSideRests, CrossbarEdge, CrossbarTakes, WriteReady, WriteAnswer, slv_reg_wren,
       AcceptsWrite, awvalid, wvalid, Empty

\* Only an accepted store reaches the registers and the reset of the
\* accelerators, which otherwise ends.
LEMMA Untouched ==
  ASSUME wready = FALSE, RegisterWrite, ResetPulse, acc_sw_reset_n \in BOOLEAN
  PROVE  /\ slv_reg' = slv_reg /\ slv_reg_valid' = slv_reg_valid
         /\ acc_sw_reset_n' = TRUE
BY DEF RegisterWrite, ResetPulse, commanded, written, slv_reg_wren

-----------------------------------------------------------------------------
(* One lemma for each state of the bridge: the stages a clock moves between. *)

LEMMA IdleEdge ==
  ASSUME PathInv, state = "idle", NEW taken, Clock(taken)
  PROVE  /\ hrdata' = hrdata
         /\ slv_reg' = slv_reg /\ slv_reg_valid' = slv_reg_valid
         /\ acc_sw_reset_n' = TRUE
         /\ \/ state' = "idle" /\ Resting' /\ access' = access
            \/ /\ access' \in Access[unit]
               /\ \/ state' = "read" /\ Reading' /\ ReadAsked'
                  \/ state' = "write" /\ Writing' /\ WriteAsked'
<1>. USE DEF PathInv
<1>1. Resting
  BY DEF OneAccess
<1>2. BridgeIdle /\ CrossbarEdge(taken) /\ SlaveEdge(taken)
  BY DEF Clock, BridgeRead, BridgeWrite
<1>3. ReadSideRests' /\ WriteSideRests'
  BY <1>1, <1>2, ReadSideKeeps, WriteSideKeeps
     DEF Resting, BridgeReadRests, BridgeWriteRests, SlaveEdge
<1>4. /\ slv_reg' = slv_reg /\ slv_reg_valid' = slv_reg_valid
      /\ acc_sw_reset_n' = TRUE
  BY <1>1, <1>2, Untouched DEF Resting, WriteSideRests, SlaveEdge, PathTyped
<1>5. CASE state' = state /\ ar_valid' = FALSE /\ aw_valid' = FALSE /\ access' = access
  BY <1>2, <1>3, <1>4, <1>5 DEF BridgeIdle, Resting, BridgeReadRests, BridgeWriteRests
<1>6. ASSUME NEW a \in Access[unit], access' = a, a.op = "load",
             state' = "read", ar_valid' = TRUE, aw_valid' = FALSE, read_validated' = FALSE
      PROVE  Reading' /\ ReadAsked'
  <2>1. ReadAsked'
    BY <1>3, <1>6 DEF ReadAsked, ReadSideRests
  <2>2. BridgeWriteRests'
    BY <1>2, <1>6 DEF BridgeIdle, BridgeWriteRests
  <2>. QED  BY <1>3, <1>6, <2>1, <2>2 DEF Reading
<1>7. ASSUME NEW a \in Access[unit], access' = a, a.op = "store",
             state' = "write", aw_valid' = TRUE, ar_valid' = FALSE,
             wr_word_valid' = FALSE, write_validated' = FALSE
      PROVE  Writing' /\ WriteAsked'
  <2>1. w_valid' = FALSE /\ b_ready' = FALSE /\ r_ready' = FALSE
    BY <1>2 DEF BridgeIdle
  <2>2. WriteAsked'
    BY <1>3, <1>7, <2>1 DEF WriteAsked, WriteSideRests
  <2>. QED  BY <1>3, <1>7, <2>1, <2>2 DEF Writing, BridgeReadRests
<1>8. \A a \in Access[unit] : a.op \in {"store", "load"}
  BY AccessCases DEF PathTyped
<1>9. hrdata' = hrdata
  BY <1>2 DEF BridgeIdle
<1>. QED  BY <1>2, <1>4, <1>5, <1>6, <1>7, <1>8, <1>9 DEF BridgeIdle

LEMMA ReadEdge ==
  ASSUME PathInv, state = "read", NEW taken, Clock(taken)
  PROVE  /\ access' = access
         /\ slv_reg' = slv_reg /\ slv_reg_valid' = slv_reg_valid
         /\ acc_sw_reset_n' = TRUE
         /\ \/ /\ state' = "read" /\ Reading' /\ hrdata' = hrdata
               /\ \/ ReadAsked /\ (ReadAsked' \/ ReadAccepted')
                  \/ /\ ReadAccepted /\ ReadPerformed'
                     /\ rvalid' = TRUE /\ rdata' = read_reg[access.reg]
                  \/ ReadPerformed /\ ReadPerformed' /\ rdata' = rdata
            \/ /\ ReadPerformed /\ rvalid = FALSE
               /\ state' = "idle" /\ Resting' /\ hrdata' = rdata
<1>. USE DEF PathInv
<1>1. Reading
  BY DEF OneAccess
<1>2. BridgeRead("AR" \in taken) /\ CrossbarEdge(taken) /\ SlaveEdge(taken)
  BY DEF Clock, BridgeIdle, BridgeWrite
<1>3. WriteSideRests' /\ BridgeWriteRests'
  <2>1. WriteSideRests'
    BY <1>1, <1>2, WriteSideKeeps DEF Reading, BridgeWriteRests, SlaveEdge
  <2>. QED  BY <1>1, <1>2, <2>1 DEF Reading, BridgeWriteRests, BridgeRead
<1>4. /\ access' = access
      /\ slv_reg' = slv_reg /\ slv_reg_valid' = slv_reg_valid
      /\ acc_sw_reset_n' = TRUE
  BY <1>1, <1>2, Untouched DEF Reading, WriteSideRests, SlaveEdge, PathTyped, BridgeRead
\* Until the answer is there the bridge waits for it.
<1>5. CASE xr = Empty
  <2>1. /\ r_ready' = TRUE /\ read_validated' = FALSE /\ hrdata' = hrdata
        /\ state' = "read" /\ ar_valid' = (ar_valid /\ "AR" \notin taken)
    BY <1>1, <1>2, <1>5 DEF BridgeRead, Reading
  <2>2. ReadAsked' \/ ReadAccepted' \/ ReadPerformed' => Reading'
    BY <1>1, <1>3, <1>4, <2>1 DEF Reading
  <2>3. CASE ReadAsked
    <3>1. /\ xr' = Empty /\ rvalid' = FALSE
      BY <1>2, <2>3
         DEF ReadAsked, CrossbarEdge, CrossbarTakes, SlaveEdge, ReadAnswer, slv_reg_rden
    <3>2. CASE ar_valid
      BY <1>2, <1>4, <2>1, <2>2, <2>3, <3>1, <3>2
         DEF ReadAsked, CrossbarEdge, CrossbarTakes, SlaveEdge, ReadReady, arvalid
    <3>3. CASE ~ar_valid
      <4>0. /\ ar_valid = FALSE /\ arready = FALSE
            /\ xar = <<access.reg>> /\ xar # Empty /\ Head(xar) = access.reg
        BY <2>3, <3>3 DEF ReadAsked, Empty, PathTyped
      <4>1. ar_valid' = FALSE
        BY <2>1, <4>0
      <4>2. xar' = <<access.reg>>
        BY <1>2, <4>0 DEF CrossbarEdge, CrossbarTakes
      <4>3. arready' = TRUE /\ araddr' = access.reg
        BY <1>2, <4>0 DEF SlaveEdge, ReadReady, arvalid
      <4>4. ReadAccepted'
        BY <1>4, <2>1, <3>1, <4>1, <4>2, <4>3 DEF ReadAccepted
      <4>. QED  BY <1>4, <2>1, <2>2, <2>3, <4>4
    <3>. QED  BY <3>2, <3>3
  <2>4. CASE ReadAccepted
    <3>1. slv_reg_rden
      BY <2>4 DEF ReadAccepted, slv_reg_rden, arvalid, Empty
    <3>2. rvalid' = TRUE /\ rdata' = reg_data_out
      BY <1>2, <3>1 DEF SlaveEdge, ReadAnswer
    <3>3. xar' = Empty /\ xr' = Empty /\ arready' = FALSE /\ ar_valid' = FALSE
      BY <1>2, <2>1, <2>4
         DEF ReadAccepted, CrossbarEdge, CrossbarTakes, SlaveEdge, ReadReady, Empty
    <3>4. rdata' = read_reg[access.reg]
      BY <1>1, <2>4, <3>2, AccessCases DEF ReadAccepted, reg_data_out, Reading, PathTyped
    <3>. QED  BY <1>4, <2>1, <2>2, <2>4, <3>2, <3>3, <3>4 DEF ReadPerformed
  <2>5. CASE ReadPerformed
    <3>1. rvalid = TRUE
      BY <1>5, <2>5 DEF ReadPerformed, Empty
    <3>2. ~slv_reg_rden
      BY <2>5 DEF ReadPerformed, slv_reg_rden
    <3>3. /\ rdata' = rdata
          /\ "R" \in taken => rvalid' = FALSE /\ xr' = <<rdata>>
          /\ "R" \notin taken => rvalid' = TRUE /\ xr' = Empty
      BY <1>2, <1>5, <2>5, <3>1, <3>2
         DEF ReadPerformed, CrossbarEdge, SlaveEdge, ReadAnswer
    <3>4. xar' = Empty /\ arready' = FALSE /\ ar_valid' = FALSE
      BY <1>2, <2>1, <2>5
         DEF ReadPerformed, CrossbarEdge, CrossbarTakes, SlaveEdge, ReadReady, arvalid, Empty
    <3>5. \/ rvalid' = TRUE /\ xr' = Empty
          \/ rvalid' = FALSE /\ xr' = <<rdata'>>
      BY <3>3
    <3>6. ReadPerformed'
      BY <2>1, <3>4, <3>5 DEF ReadPerformed
    <3>. QED  BY <1>4, <2>1, <2>2, <2>5, <3>3, <3>6
  <2>. QED  BY <1>1, <2>3, <2>4, <2>5 DEF Reading
<1>6. CASE xr # Empty
  <2>1. ReadPerformed /\ rvalid = FALSE /\ xr = <<rdata>> /\ r_ready = TRUE
    BY <1>1, <1>6 DEF Reading, ReadAsked, ReadAccepted, ReadPerformed
  <2>2. r_ready' = FALSE /\ ar_valid' = FALSE /\ read_validated' = TRUE
    BY <1>2, <1>6, <2>1 DEF BridgeRead, ReadPerformed
  <2>3. hrdata' = rdata /\ state' = "idle"
    BY <1>2, <1>6, <2>1, <2>2 DEF BridgeRead
  <2>4. ReadSideRests'
    BY <1>2, <1>6, <2>1
       DEF ReadPerformed, ReadSideRests, CrossbarEdge, CrossbarTakes, SlaveEdge, ReadReady,
           ReadAnswer, slv_reg_rden, arvalid, Empty
  <2>. QED  BY <1>3, <1>4, <2>1, <2>2, <2>3, <2>4 DEF Resting, BridgeReadRests
<1>. QED  BY <1>5, <1>6

\* The address and the word reach the slave in any order; it accepts them
\* together.
LEMMA AskedEdge ==
  ASSUME PathInv, state = "write", WriteAsked, NEW taken, Clock(taken)
  PROVE  /\ state' = "write" /\ write_validated' = FALSE
         /\ wr_word_valid' = TRUE /\ b_ready' = TRUE
         /\ WriteAsked' \/ WriteAccepted'
<1>. USE DEF PathInv
<1>1. Writing
  BY DEF OneAccess
<1>2. BridgeWrite("AW" \in taken, "W" \in taken) /\ CrossbarEdge(taken) /\ SlaveEdge(taken)
  BY DEF Clock, BridgeIdle, BridgeRead
<1>3. xb = FALSE /\ awready = FALSE /\ wready = FALSE /\ aw_en = TRUE /\ bvalid = FALSE
  BY DEF WriteAsked
<1>4. wr_word_valid' = TRUE /\ b_ready' = TRUE /\ write_validated' = FALSE /\ access' = access
  BY <1>1, <1>2, <1>3 DEF BridgeWrite, Writing, PathTyped
<1>5. state' = "write"
  BY <1>2, <1>4 DEF BridgeWrite
<1>6. WriteBeat' = WriteBeat
  BY <1>4 DEF WriteBeat
<1>7. xb' = FALSE /\ bvalid' = FALSE
  BY <1>2, <1>3 DEF CrossbarEdge, CrossbarTakes, SlaveEdge, WriteAnswer, slv_reg_wren
\* The address is taken now, later, or was before.
<1>8. \/ aw_valid' = TRUE /\ xaw' = Empty /\ xaw = Empty
      \/ aw_valid' = FALSE /\ xaw' = <<access.reg>>
  <2>1. CASE aw_valid = TRUE /\ "AW" \in taken
    BY <1>2, <2>1 DEF CrossbarEdge, BridgeWrite
  <2>2. CASE aw_valid = TRUE /\ "AW" \notin taken
    BY <1>2, <1>3, <2>2 DEF CrossbarEdge, BridgeWrite, WriteAsked
  <2>3. CASE aw_valid = FALSE
    BY <1>2, <1>3, <2>3 DEF CrossbarEdge, CrossbarTakes, BridgeWrite, WriteAsked
  <2>. QED  BY <2>1, <2>2, <2>3 DEF PathTyped
\* So is the word, which follows by a clock.
<1>9. \/ w_valid' = TRUE /\ xw' = Empty /\ xw = Empty
      \/ w_valid' = FALSE /\ xw' = <<WriteBeat>>
  <2>1. CASE wr_word_valid = FALSE
    BY <1>2, <1>3, <2>1 DEF CrossbarEdge, CrossbarTakes, BridgeWrite, WriteAsked
  <2>2. CASE wr_word_valid = TRUE /\ w_valid = TRUE /\ "W" \in taken
    BY <1>2, <2>2 DEF CrossbarEdge, BridgeWrite
  <2>3. CASE wr_word_valid = TRUE /\ w_valid = TRUE /\ "W" \notin taken
    BY <1>2, <1>3, <2>3 DEF CrossbarEdge, BridgeWrite, WriteAsked
  <2>4. CASE wr_word_valid = TRUE /\ w_valid = FALSE
    BY <1>2, <1>3, <2>4 DEF CrossbarEdge, CrossbarTakes, BridgeWrite, WriteAsked
  <2>. QED  BY <2>1, <2>2, <2>3, <2>4 DEF PathTyped
<1>10. CASE xaw # Empty /\ xw # Empty
  <2>1. xaw = <<access.reg>> /\ aw_valid' = FALSE /\ w_valid' = FALSE
    BY <1>8, <1>9, <1>10 DEF WriteAsked
  <2>2. AcceptsWrite /\ Head(xaw) = access.reg
    BY <1>3, <1>10, <2>1 DEF AcceptsWrite, awvalid, wvalid
  <2>3. awready' = TRUE /\ wready' = TRUE /\ aw_en' = FALSE /\ awaddr' = access.reg
    BY <1>2, <1>3, <1>10, <2>2 DEF SlaveEdge, WriteReady, awvalid, wvalid
  <2>4. WriteAccepted'
    BY <1>4, <1>6, <1>7, <1>8, <1>9, <2>1, <2>3 DEF WriteAccepted
  <2>. QED  BY <1>4, <1>5, <2>4
<1>11. CASE xaw = Empty \/ xw = Empty
  <2>1. awready' = FALSE /\ wready' = FALSE /\ aw_en' = TRUE
    BY <1>2, <1>3, <1>11 DEF SlaveEdge, WriteReady, AcceptsWrite, awvalid, wvalid
  <2>2. WriteAsked'
    BY <1>4, <1>6, <1>7, <1>8, <1>9, <2>1 DEF WriteAsked
  <2>. QED  BY <1>4, <1>5, <2>2
<1>. QED  BY <1>10, <1>11

\* What an accepted store does: the register file is written as the port says,
\* or the accelerators are reset.
LEMMA AcceptedEdge ==
  ASSUME PathInv, state = "write", WriteAccepted, NEW taken, Clock(taken)
  PROVE  /\ state' = "write" /\ write_validated' = FALSE /\ b_ready' = TRUE
         /\ WritePerformed' /\ bvalid' = TRUE
         /\ acc_sw_reset_n' = ~(unit = "rom" /\ access.reg = CMD_ADR)
         /\ \/ unit = "rom" /\ slv_reg' = slv_reg /\ slv_reg_valid' = slv_reg_valid
            \/ unit = "rootvoter" /\ access.reg = CMD_ADR /\ ClearRegisters
            \/ /\ unit = "rootvoter" /\ access.reg \in Register
               /\ access.reg # CMD_ADR /\ WriteRegister(access.reg, access.word)
<1>. USE DEF PathInv
<1>1. Writing
  BY DEF OneAccess
<1>2. BridgeWrite("AW" \in taken, "W" \in taken) /\ CrossbarEdge(taken) /\ SlaveEdge(taken)
  BY DEF Clock, BridgeIdle, BridgeRead
<1>3. /\ aw_valid = FALSE /\ w_valid = FALSE /\ wr_word_valid = TRUE /\ b_ready = TRUE
      /\ xaw = <<access.reg>> /\ xw = <<WriteBeat>> /\ awaddr = access.reg
      /\ xb = FALSE /\ bvalid = FALSE
      /\ awready = TRUE /\ wready = TRUE /\ aw_en = FALSE
  BY <1>1 DEF WriteAccepted, Writing
<1>4. /\ b_ready' = TRUE /\ write_validated' = FALSE /\ wr_word_valid' = TRUE
      /\ aw_valid' = FALSE /\ w_valid' = FALSE
  BY <1>1, <1>2, <1>3 DEF BridgeWrite, Writing
<1>5. state' = "write"
  BY <1>2, <1>4 DEF BridgeWrite
<1>6. slv_reg_wren
  BY <1>3 DEF slv_reg_wren, wvalid, awvalid, Empty
<1>7. /\ xaw' = Empty /\ xw' = Empty /\ xb' = FALSE
      /\ awready' = FALSE /\ wready' = FALSE /\ aw_en' = FALSE /\ bvalid' = TRUE
  <2>1. "B" \notin taken /\ "AW" \notin taken /\ "W" \notin taken
    BY <1>2, <1>3 DEF CrossbarEdge, CrossbarTakes
  <2>2. xaw' = Empty /\ xw' = Empty /\ xb' = FALSE
    BY <1>2, <1>3, <2>1 DEF CrossbarEdge
  <2>3. awready' = FALSE /\ wready' = FALSE /\ aw_en' = FALSE /\ bvalid' = TRUE
    BY <1>2, <1>3, <1>6, <2>1 DEF SlaveEdge, WriteReady, WriteAnswer, AcceptsWrite
  <2>. QED  BY <2>2, <2>3
<1>8. WritePerformed'
  BY <1>4, <1>7 DEF WritePerformed
<1>9. Head(xw).word = access.word /\ written
  BY <1>3, <1>6 DEF WriteBeat, written, Strobes
<1>10. \/ access.reg = CMD_ADR /\ access.word = 15
       \/ access.reg \in Register /\ access.reg # CMD_ADR
  BY <1>1, AccessCases DEF PathTyped, Writing
<1>11. commanded <=> access.reg = CMD_ADR
  BY <1>3, <1>9, <1>10 DEF commanded
<1>12. unit \in {"rootvoter", "rom"}
  BY AccessCases DEF PathTyped
<1>13. acc_sw_reset_n' = ~(unit = "rom" /\ access.reg = CMD_ADR)
  <2>1. acc_sw_reset_n = TRUE
    BY <1>3 DEF PulseShort, PathTyped
  <2>. QED  BY <1>2, <1>11, <2>1 DEF SlaveEdge, ResetPulse
<1>14. RegisterWrite
  BY <1>2 DEF SlaveEdge
<1>15. CASE unit = "rom"
  BY <1>4, <1>5, <1>7, <1>8, <1>13, <1>14, <1>15 DEF RegisterWrite
<1>16. CASE unit = "rootvoter" /\ access.reg = CMD_ADR
  BY <1>3, <1>4, <1>5, <1>7, <1>8, <1>11, <1>13, <1>14, <1>16, CommandIsNoRegister
     DEF RegisterWrite
<1>17. CASE unit = "rootvoter" /\ access.reg # CMD_ADR
  BY <1>3, <1>4, <1>5, <1>7, <1>8, <1>9, <1>10, <1>11, <1>13, <1>14, <1>17 DEF RegisterWrite
<1>. QED  BY <1>12, <1>15, <1>16, <1>17

\* The answer travels back, and ends the access.
LEMMA PerformedEdge ==
  ASSUME PathInv, state = "write", WritePerformed, NEW taken, Clock(taken)
  PROVE  \/ /\ state' = "write" /\ write_validated' = FALSE /\ b_ready' = TRUE
            /\ WritePerformed'
         \/ /\ state' = "idle" /\ BridgeWriteRests' /\ WriteSideRests'
<1>. USE DEF PathInv
<1>1. Writing
  BY DEF OneAccess
<1>2. BridgeWrite("AW" \in taken, "W" \in taken) /\ CrossbarEdge(taken) /\ SlaveEdge(taken)
  BY DEF Clock, BridgeIdle, BridgeRead
<1>3. /\ aw_valid = FALSE /\ w_valid = FALSE /\ wr_word_valid = TRUE /\ b_ready = TRUE
      /\ xaw = Empty /\ xw = Empty /\ awready = FALSE /\ wready = FALSE
      /\ write_validated = FALSE
  BY <1>1 DEF WritePerformed, Writing
<1>4. aw_valid' = FALSE /\ w_valid' = FALSE /\ wr_word_valid' = TRUE
  BY <1>2, <1>3 DEF BridgeWrite
<1>5. xaw' = Empty /\ xw' = Empty /\ awready' = FALSE /\ wready' = FALSE
  BY <1>2, <1>3
     DEF CrossbarEdge, CrossbarTakes, SlaveEdge, WriteReady, AcceptsWrite, awvalid, wvalid
<1>6. ~slv_reg_wren /\ ~AcceptsWrite
  BY <1>3 DEF slv_reg_wren, AcceptsWrite, awvalid
<1>7. CASE xb = FALSE
  <2>1. bvalid = TRUE /\ aw_en = FALSE
    BY <1>7 DEF WritePerformed
  <2>2. b_ready' = TRUE /\ write_validated' = FALSE
    BY <1>2, <1>3, <1>7 DEF BridgeWrite
  <2>3. state' = "write"
    BY <1>2, <2>2 DEF BridgeWrite
  <2>4. CASE "B" \in taken
    <3>1. xb' = TRUE /\ bvalid' = FALSE /\ aw_en' = TRUE
      BY <1>2, <1>6, <2>1, <2>4 DEF CrossbarEdge, SlaveEdge, WriteReady, WriteAnswer
    <3>. QED  BY <1>4, <1>5, <2>2, <2>3, <3>1 DEF WritePerformed
  <2>5. CASE "B" \notin taken
    <3>1. xb' = FALSE /\ bvalid' = TRUE /\ aw_en' = FALSE
      BY <1>2, <1>6, <1>7, <2>1, <2>5 DEF CrossbarEdge, SlaveEdge, WriteReady, WriteAnswer
    <3>. QED  BY <1>4, <1>5, <2>2, <2>3, <3>1 DEF WritePerformed
  <2>. QED  BY <2>4, <2>5
<1>8. CASE xb = TRUE
  <2>1. bvalid = FALSE /\ aw_en = TRUE
    BY <1>8 DEF WritePerformed
  <2>2. b_ready' = FALSE /\ write_validated' = TRUE
    BY <1>2, <1>3, <1>8 DEF BridgeWrite
  <2>3. state' = "idle"
    BY <1>2, <1>4, <2>2 DEF BridgeWrite
  <2>4. "B" \notin taken
    BY <1>2, <2>1 DEF CrossbarEdge, CrossbarTakes
  <2>5. xb' = FALSE /\ bvalid' = FALSE /\ aw_en' = TRUE
    BY <1>2, <1>3, <1>6, <2>1, <2>4 DEF CrossbarEdge, SlaveEdge, WriteReady, WriteAnswer
  <2>. QED  BY <1>4, <1>5, <2>2, <2>3, <2>5 DEF BridgeWriteRests, WriteSideRests
<1>. QED  BY <1>7, <1>8 DEF WritePerformed

LEMMA WriteEdge ==
  ASSUME PathInv, state = "write", NEW taken, Clock(taken)
  PROVE  /\ access' = access /\ hrdata' = hrdata
         /\ BridgeReadRests' /\ ReadSideRests'
         /\ ~WriteAccepted =>
              /\ slv_reg' = slv_reg /\ slv_reg_valid' = slv_reg_valid
              /\ acc_sw_reset_n' = TRUE
         /\ \/ /\ state' = "write" /\ Writing'
               /\ \/ WriteAsked /\ (WriteAsked' \/ WriteAccepted')
                  \/ WriteAccepted /\ WritePerformed' /\ bvalid' = TRUE
                  \/ WritePerformed /\ WritePerformed'
            \/ WritePerformed /\ state' = "idle" /\ Resting'
<1>1. Writing
  BY DEF PathInv, OneAccess
<1>2. BridgeWrite("AW" \in taken, "W" \in taken) /\ CrossbarEdge(taken) /\ SlaveEdge(taken)
  BY DEF Clock, BridgeIdle, BridgeRead
<1>3. access' = access /\ hrdata' = hrdata /\ BridgeReadRests'
  BY <1>1, <1>2 DEF BridgeWrite, Writing, BridgeReadRests
<1>4. ReadSideRests'
  BY <1>1, <1>2, ReadSideKeeps DEF Writing, BridgeReadRests, SlaveEdge
<1>5. ASSUME ~WriteAccepted
      PROVE  /\ slv_reg' = slv_reg /\ slv_reg_valid' = slv_reg_valid
             /\ acc_sw_reset_n' = TRUE
  BY <1>1, <1>2, <1>5, Untouched
     DEF Writing, WriteAsked, WritePerformed, SlaveEdge, PathInv, PathTyped
<1>6. ASSUME write_validated' = FALSE, b_ready' = TRUE, wr_word_valid' = TRUE,
             WriteAsked' \/ WriteAccepted' \/ WritePerformed'
      PROVE  Writing'
  BY <1>1, <1>3, <1>4, <1>6 DEF Writing
<1>7. CASE WriteAsked
  BY <1>3, <1>4, <1>5, <1>6, <1>7, AskedEdge DEF WriteAsked, WriteAccepted
<1>8. CASE WriteAccepted
  BY <1>3, <1>4, <1>6, <1>8, AcceptedEdge DEF WritePerformed
<1>9. CASE WritePerformed
  <2>1. ~WriteAccepted
    BY <1>9 DEF WriteAccepted, WritePerformed
  <2>. QED
    BY <1>3, <1>4, <1>5, <1>6, <1>9, <2>1, PerformedEdge DEF WritePerformed, Resting
<1>. QED  BY <1>1, <1>7, <1>8, <1>9 DEF Writing

-----------------------------------------------------------------------------
LEMMA PathStart == PathInit => PathInv
<1>. SUFFICES ASSUME PathInit PROVE PathInv
  OBVIOUS
<1>1. PathTyped
  BY DEF PathInit, Idle, PathTyped
<1>2. Resting /\ state = "idle"
  BY DEF PathInit, Idle, Resting, BridgeReadRests, BridgeWriteRests, ReadSideRests,
         WriteSideRests
<1>. QED  BY <1>1, <1>2 DEF PathInv, OneAccess, PulseShort

\* A reset cuts an access short, at any stage.
LEMMA ResetStep ==
  ASSUME PathInv, Reset
  PROVE  PathInv' /\ state' = "idle" /\ Resting'
<1>1. state' = "idle" /\ Resting'
  BY DEF Reset, ResetEdge, Resting, BridgeReadRests, BridgeWriteRests, ReadSideRests,
         WriteSideRests
<1>2. PathTyped'
  BY DEF PathInv, PathTyped, Reset, ResetEdge
<1>. QED  BY <1>1, <1>2 DEF PathInv, OneAccess, PulseShort

LEMMA ClockStep ==
  ASSUME PathInv, NEW taken, Clock(taken)
  PROVE  PathInv'
<1>. USE DEF PathInv
<1>1. /\ OneAccess'
      /\ access' \in Access[unit]
      /\ acc_sw_reset_n' = TRUE \/ bvalid' = TRUE
      /\ acc_sw_reset_n' \in BOOLEAN
      /\ DOMAIN slv_reg' = Register
  <2>1. CASE state = "idle"
    BY <2>1, IdleEdge DEF OneAccess, PathTyped
  <2>2. CASE state = "read"
    BY <2>2, ReadEdge DEF OneAccess, PathTyped
  <2>3. CASE state = "write" /\ ~WriteAccepted
    BY <2>3, WriteEdge DEF OneAccess, PathTyped
  <2>4. CASE state = "write" /\ WriteAccepted
    <3>1. acc_sw_reset_n' \in BOOLEAN
      BY <2>4, AcceptedEdge
    <3>2. DOMAIN slv_reg' = Register
      BY <2>4, AcceptedEdge DEF ClearRegisters, WriteRegister, PathTyped
    <3>. QED  BY <2>4, <3>1, <3>2, AcceptedEdge, WriteEdge DEF OneAccess, PathTyped
  <2>. QED  BY <2>1, <2>2, <2>3, <2>4 DEF OneAccess
<1>2. unit' = unit /\ read_reg' \in OutputFile[unit]
  BY DEF Clock
<1>3. /\ ar_valid' \in BOOLEAN /\ r_ready' \in BOOLEAN /\ aw_valid' \in BOOLEAN
      /\ w_valid' \in BOOLEAN /\ b_ready' \in BOOLEAN /\ wr_word_valid' \in BOOLEAN
  BY DEF Clock, BridgeIdle, BridgeRead, BridgeWrite, PathTyped
<1>4. PathTyped'
  BY <1>1, <1>2, <1>3 DEF PathTyped
<1>. QED  BY <1>1, <1>4 DEF PulseShort

LEMMA PathStutter == PathInv /\ UNCHANGED pathVars => PathInv'
BY DEF PathInv, PathTyped, OneAccess, PulseShort, Resting, Reading, Writing,
       BridgeReadRests, BridgeWriteRests, ReadSideRests, WriteSideRests, ReadAsked,
       ReadAccepted, ReadPerformed, WriteAsked, WriteAccepted, WritePerformed, WriteBeat,
       pathVars, bridgeVars, crossbarVars, slaveVars

\* One access at a time is under way between bridge and registers, in one stage
\* (ahb2axi_l.vhd, rootvoter.sv:404-548, AxiRom.sv).
THEOREM PathInvariant == PathSpec => []PathInv
<1>1. PathInv /\ [PathNext]_pathVars => PathInv'
  BY ResetStep, ClockStep, PathStutter DEF PathNext
<1>. QED  BY <1>1, PathStart, PTL DEF PathSpec

\* The slave never answers a write, nor accepts a read, over an answer that is
\* still to be taken (rootvoter.sv:548).
THEOREM AnswersKept == PathSpec => []NoAnswerLost
<1>1. PathInv => NoAnswerLost
  BY DEF PathInv, OneAccess, Resting, Reading, Writing, ReadSideRests, WriteSideRests,
         ReadAsked, ReadAccepted, ReadPerformed, WriteAsked, WriteAccepted, WritePerformed,
         NoAnswerLost, slv_reg_wren
<1>. QED  BY <1>1, PathInvariant, PTL

-----------------------------------------------------------------------------
(***************************************************************************)
(* The path is the port: the parts of the refinement mapping, and which    *)
(* stages come before the moment of an access and which after it.          *)
(***************************************************************************)
PortDone ==
  \/ state = "write" /\ (bvalid \/ xb \/ write_validated)
  \/ state = "read" /\ (rvalid \/ xr # Empty \/ read_validated)

PortAnswer == CASE rvalid -> rdata [] xr # Empty -> Head(xr) [] OTHER -> hrdata

PortFile == [word |-> slv_reg, valid |-> slv_reg_valid]

Before ==
  \/ state = "idle" /\ Resting
  \/ state = "read" /\ Reading /\ (ReadAsked \/ ReadAccepted)
  \/ state = "write" /\ Writing /\ (WriteAsked \/ WriteAccepted)

LoadDone  == state = "read" /\ Reading /\ ReadPerformed
StoreDone == state = "write" /\ Writing /\ WritePerformed

LEMMA Mapped ==
  /\ Before => ~PortDone /\ PortAnswer = hrdata
  /\ LoadDone => PortDone /\ PortAnswer = rdata
  /\ StoreDone => PortDone /\ PortAnswer = hrdata
<1>1. ASSUME state = "idle", Resting PROVE ~PortDone /\ PortAnswer = hrdata
  BY <1>1 DEF Resting, ReadSideRests, PortDone, PortAnswer
<1>2. ASSUME state = "read", Reading, ReadAsked \/ ReadAccepted
      PROVE  ~PortDone /\ PortAnswer = hrdata
  BY <1>2 DEF Reading, ReadAsked, ReadAccepted, PortDone, PortAnswer
<1>3. ASSUME state = "write", Writing, WriteAsked \/ WriteAccepted
      PROVE  ~PortDone /\ PortAnswer = hrdata
  BY <1>3 DEF Writing, WriteAsked, WriteAccepted, ReadSideRests, PortDone, PortAnswer
<1>4. ASSUME LoadDone PROVE PortDone /\ PortAnswer = rdata
  BY <1>4 DEF LoadDone, Reading, ReadPerformed, PortDone, PortAnswer, Empty
<1>5. ASSUME StoreDone PROVE PortDone /\ PortAnswer = hrdata
  BY <1>5 DEF StoreDone, Writing, WritePerformed, ReadSideRests, PortDone, PortAnswer
<1>. QED  BY <1>1, <1>2, <1>3, <1>4, <1>5 DEF Before

\* What an accepted store leaves in the registers is what the port says.
LEMMA FileStored ==
  ASSUME PathInv, state = "write", WriteAccepted, NEW taken, Clock(taken)
  PROVE  \/ unit = "rom" /\ PortFile' = PortFile
         \/ unit = "rootvoter" /\ PortFile' = Port!Stored(PortFile, access)
<1>1. CASE unit = "rom" /\ slv_reg' = slv_reg /\ slv_reg_valid' = slv_reg_valid
  BY <1>1 DEF PortFile
<1>2. CASE unit = "rootvoter" /\ access.reg = CMD_ADR /\ ClearRegisters
  <2>1. Port!Stored(PortFile, access) =
          [word |-> [r \in Register |-> IF r = 0 THEN ResetWord ELSE Zero], valid |-> {}]
    <3>1. Port!Stored(PortFile, access) = [Port!ClearedFile EXCEPT !.word[0] = ResetWord]
      BY <1>2, CommandIsNoRegister DEF Port!Stored
    <3>2. 0 \in Register
      BY DEF Register
    <3>. QED  BY <3>1, <3>2 DEF Port!ClearedFile
  <2>. QED  BY <1>2, <2>1 DEF ClearRegisters, PortFile
<1>3. CASE /\ unit = "rootvoter" /\ access.reg \in Register
           /\ access.reg # CMD_ADR /\ WriteRegister(access.reg, access.word)
  <2>1. {access.reg} \cap SetRegister = {access.reg} \ {0}
    BY <1>3, SetRegisterAssumption DEF Register
  <2>. QED  BY <1>3, <2>1 DEF Port!Stored, WriteRegister, PortFile
<1>. QED  BY <1>1, <1>2, <1>3, AcceptedEdge

LEMMA AskIsNoAccess == \A u \in DOMAIN Access : \A a \in Access[u] : a # [op |-> "none"]
<1>. SUFFICES ASSUME NEW u \in DOMAIN Access, NEW a \in Access[u] PROVE a.op # "none"
  OBVIOUS
<1>1. CASE u = "rootvoter"
  BY <1>1 DEF Access, ResetStore
<1>2. CASE u = "rom"
  BY <1>2 DEF Access, ResetStore
<1>. QED  BY <1>1, <1>2 DEF Access

\* Every clock of the path is a moment of the port.
LEMMA PortStep ==
  ASSUME PathInv, NEW taken, Clock(taken)
  PROVE  Port!PortNext
<1>. USE DEF PathInv
<1>1. Port!Outside
  BY DEF Clock, Port!Outside
<1>2. (/\ Before => ~PortDone /\ PortAnswer = hrdata
       /\ LoadDone => PortDone /\ PortAnswer = rdata
       /\ StoreDone => PortDone /\ PortAnswer = hrdata)'
  BY Mapped, PTL
<1>3. acc_sw_reset_n \in BOOLEAN /\ unit \in {"rootvoter", "rom"}
  BY AccessCases DEF PathTyped
\* Nothing moves that the port knows of.
<1>4. ASSUME acc_sw_reset_n' = TRUE, PortFile' = PortFile, PortDone' <=> PortDone,
             PortAnswer' = PortAnswer, access' = access,
             state' = state
      PROVE  Port!PortNext
  BY <1>1, <1>4 DEF Port!PortNext, Port!Pass, PortFile, PortDone, PortAnswer
<1>5. CASE state = "idle"
  <2>1. Before
    BY <1>5 DEF OneAccess, Before, Reading, Writing
  <2>2. /\ PortFile' = PortFile /\ acc_sw_reset_n' = TRUE /\ hrdata' = hrdata /\ Before'
    BY <1>5, IdleEdge DEF PortFile, Before
  <2>3. ~PortDone' /\ ~PortDone /\ PortAnswer' = PortAnswer
    BY <1>2, <2>1, <2>2, Mapped
  <2>4. CASE state' = "idle"
    <3>1. access' = access /\ state' = state
      BY <1>5, <2>4, IdleEdge
    <3>. QED  BY <1>4, <2>2, <2>3, <3>1
  <2>5. CASE state' \in {"read", "write"} /\ access' \in Access[unit]
    BY <1>1, <1>5, <2>2, <2>3, <2>5
       DEF Port!PortNext, Port!Ask, Port!NoAccess, PortFile, PortDone, PortAnswer
  <2>. QED  BY <1>5, <2>4, <2>5, IdleEdge
<1>6. CASE state = "read"
  <2>1. PortFile' = PortFile /\ acc_sw_reset_n' = TRUE /\ access' = access
    BY <1>6, ReadEdge DEF PortFile
  <2>2. access.op = "load" /\ access \in Access[unit]
    BY <1>6 DEF OneAccess, Reading, PathTyped
  <2>3. CASE state' = "read" /\ Reading' /\ hrdata' = hrdata /\ ReadAsked
             /\ (ReadAsked' \/ ReadAccepted')
    <3>1. Before /\ Before'
      BY <1>6, <2>3 DEF Before, OneAccess
    <3>. QED  BY <1>2, <1>4, <1>6, <2>1, <2>3, <3>1, Mapped
  <2>4. CASE state' = "read" /\ Reading' /\ ReadAccepted /\ ReadPerformed'
             /\ rdata' = read_reg[access.reg]
    <3>1. Before /\ LoadDone'
      BY <1>6, <2>4 DEF Before, LoadDone, OneAccess
    <3>2. ~PortDone /\ PortDone' /\ PortAnswer' = read_reg[access.reg]
      BY <1>2, <2>4, <3>1, Mapped
    <3>. QED
      BY <1>1, <1>6, <2>1, <2>2, <2>4, <3>2, AskIsNoAccess
         DEF Port!PortNext, Port!Perform, Port!NoAccess, PathTyped, PortFile, PortDone, PortAnswer
  <2>5. CASE state' = "read" /\ Reading' /\ ReadPerformed /\ ReadPerformed' /\ rdata' = rdata
    <3>1. LoadDone /\ LoadDone'
      BY <1>6, <2>5 DEF LoadDone, OneAccess
    <3>. QED  BY <1>2, <1>4, <1>6, <2>1, <2>5, <3>1, Mapped
  <2>6. CASE ReadPerformed /\ state' = "idle" /\ Resting' /\ hrdata' = rdata
    <3>1. LoadDone /\ Before'
      BY <1>6, <2>6 DEF LoadDone, Before, OneAccess
    <3>2. PortDone /\ ~PortDone' /\ PortAnswer' = PortAnswer
      BY <1>2, <2>6, <3>1, Mapped
    <3>. QED
      BY <1>1, <2>1, <2>6, <3>2
         DEF Port!PortNext, Port!Answer, Port!NoAccess, PortFile, PortDone, PortAnswer
  <2>. QED  BY <1>6, <2>3, <2>4, <2>5, <2>6, ReadEdge
<1>7. CASE state = "write"
  <2>1. access' = access /\ hrdata' = hrdata
    BY <1>7, WriteEdge
  <2>2. access.op = "store" /\ access \in Access[unit] /\ access # [op |-> "none"]
    BY <1>7, AskIsNoAccess DEF OneAccess, Writing, PathTyped
  <2>3. ASSUME ~WriteAccepted
        PROVE  PortFile' = PortFile /\ acc_sw_reset_n' = TRUE
    BY <1>7, <2>3, WriteEdge DEF PortFile
  <2>4. CASE state' = "write" /\ Writing' /\ WriteAsked /\ (WriteAsked' \/ WriteAccepted')
    <3>1. Before /\ Before' /\ ~WriteAccepted
      BY <1>7, <2>4 DEF Before, OneAccess, WriteAsked, WriteAccepted
    <3>. QED  BY <1>2, <1>4, <1>7, <2>1, <2>3, <2>4, <3>1, Mapped
  <2>5. CASE state' = "write" /\ Writing' /\ WriteAccepted /\ WritePerformed'
    <3>1. Before /\ StoreDone'
      BY <1>7, <2>5 DEF Before, StoreDone, OneAccess
    <3>2. ~PortDone /\ PortDone' /\ PortAnswer' = PortAnswer
      BY <1>2, <2>1, <3>1, Mapped
    <3>3. (~acc_sw_reset_n)' = (unit = "rom" /\ access.op = "store" /\ access.reg = CMD_ADR)
      BY <1>7, <2>2, <2>5, AcceptedEdge
    <3>4. \/ unit = "rom" /\ PortFile' = PortFile
          \/ unit = "rootvoter" /\ PortFile' = Port!Stored(PortFile, access)
      BY <1>7, <2>5, FileStored
    <3>5. Port!Perform
      BY <1>7, <2>1, <2>2, <2>5, <3>2, <3>3, <3>4
         DEF Port!Perform, Port!NoAccess, PortFile, PortDone, PortAnswer
    <3>. QED  BY <1>1, <3>5 DEF Port!PortNext
  <2>6. CASE state' = "write" /\ Writing' /\ WritePerformed /\ WritePerformed'
    <3>1. StoreDone /\ StoreDone' /\ ~WriteAccepted
      BY <1>7, <2>6 DEF StoreDone, OneAccess, WritePerformed, WriteAccepted
    <3>. QED  BY <1>2, <1>4, <1>7, <2>1, <2>3, <2>6, <3>1, Mapped
  <2>7. CASE WritePerformed /\ state' = "idle" /\ Resting'
    <3>1. StoreDone /\ Before' /\ ~WriteAccepted
      BY <1>7, <2>7 DEF StoreDone, Before, OneAccess, WritePerformed, WriteAccepted
    <3>2. PortDone /\ ~PortDone' /\ PortAnswer' = PortAnswer
      BY <1>2, <2>1, <3>1, Mapped
    <3>. QED
      BY <1>1, <2>1, <2>3, <2>7, <3>1, <3>2
         DEF Port!PortNext, Port!Answer, Port!NoAccess, PortFile, PortDone, PortAnswer
  <2>. QED  BY <1>7, <2>4, <2>5, <2>6, <2>7, WriteEdge
<1>. QED  BY <1>5, <1>6, <1>7 DEF OneAccess

\* The path is the port: an access is performed once, at one moment between its
\* start and its end, on the registers or the outputs of that moment, and
\* answered (ahb2axi_l.vhd, rootvoter.sv:404-548, AxiRom.sv:300-330).
THEOREM PathIsPort == PathSpec => Port!PortInit /\ [][Port!PortNext]_(Port!portState)
<1>1. PathInit => Port!PortInit
  BY DEF PathInit, Idle, Port!PortInit, Port!ClearedFile, Port!NoAccess
<1>2. PathInv /\ [PathNext]_pathVars => [Port!PortNext]_(Port!portState)
  <2>1. ASSUME PathInv, Reset PROVE Port!PortNext
    BY <2>1, ResetStep
       DEF Reset, ResetEdge, Port!PortNext, Port!ClearPort, Port!ClearedFile, Port!NoAccess,
           Port!Outside
  <2>2. ASSUME UNCHANGED pathVars PROVE UNCHANGED Port!portState
    BY <2>2 DEF pathVars, bridgeVars, crossbarVars, slaveVars, Port!portState
  <2>. QED  BY <2>1, <2>2, PortStep DEF PathNext
<1>. QED  BY <1>1, <1>2, PathInvariant, PTL DEF PathSpec
=============================================================================
