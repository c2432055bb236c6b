------------------------------- MODULE SafeSU -------------------------------
(***************************************************************************)
(* The driver of the SafeSU statistics unit (BSC_libraries/safeSU): its    *)
(* calls as read-modify-writes of the configuration registers.  The three  *)
(* variants of the driver differ in the constants.                         *)
(*                                                                         *)
(* A 32-bit word is the set of its one bits.  A step is a call, made by    *)
(* the one core that owns the unit.  What the unit does with its registers *)
(* is a submodule and not modelled, but for where it looks for a setting:  *)
(* the fields that the comments of the driver describe.  asked is history, *)
(* the settings that the calls so far have asked for.                      *)
(***************************************************************************)
EXTENDS Integers

CONSTANTS
  MCCU_N_CORES,      \* cores with a quota
  fieldw,            \* log2(CROSSBAR_INPUTS), the bits of a route
  N_CROSSBAR_CFG,    \* crossbar registers
  N_MCCU_WEIGHTS,    \* event weight registers
  Outputs, Events,   \* the crossbar arguments in use, an event by its bits
  Inputs, Weights,   \* the event weight arguments in use, a weight by its bits
  Masks,             \* the overflow interrupt masks in use
  Cores, Quotas      \* the quota arguments in use

REG_WIDTH == 32
Bits == 0 .. REG_WIDTH - 1
Ones(n) == 0 .. n - 1

ASSUME ParameterAssumption ==
  /\ MCCU_N_CORES \in 1 .. 27
  /\ fieldw \in 1 .. REG_WIDTH
  /\ N_CROSSBAR_CFG \in Nat /\ N_MCCU_WEIGHTS \in Nat

ASSUME ArgumentAssumption ==
  /\ Outputs \subseteq {o \in Nat : o * fieldw + fieldw <= REG_WIDTH * N_CROSSBAR_CFG}
  /\ Events \subseteq SUBSET Ones(fieldw)
  /\ Inputs \subseteq 0 .. 4 * N_MCCU_WEIGHTS - 1
  /\ Weights \subseteq SUBSET Ones(8)
  /\ Masks \subseteq SUBSET Bits
  /\ Cores \subseteq 0 .. MCCU_N_CORES - 1

VARIABLES
  PMUCFG0, PMUCFG1,   \* the configuration registers
  OVERFLOW_IE,        \* PMU_OVERLFOW_IE
  CROSSBAR,           \* _PMU_CROSSBAR
  EVENT_WEIGHT,       \* EVENT_WEIGHT_REG0, .._REG1, .._REG2
  QUOTA,              \* _PMU_MCCU_QUOTA, the limits
  asked

registers == <<PMUCFG0, PMUCFG1, OVERFLOW_IE, CROSSBAR, EVENT_WEIGHT, QUOTA>>
vars == <<registers, asked>>

-----------------------------------------------------------------------------
(* Shifts of 32-bit words.                                                 *)
Shl(x, k) == {b + k : b \in x} \cap Bits
Shr(x, k) == {b - k : b \in {c \in x : c >= k}}

(* Where the unit looks for its settings.                                  *)
MccuUpdate(core) == 2 + core
RdcEnable == 2 + MCCU_N_CORES
RdcReset  == 3 + MCCU_N_CORES

Features == {"counters", "overflow", "mccu", "rdc", "hq"}
Switch == [counters |-> 0, overflow |-> 2, mccu |-> 0, rdc |-> RdcEnable, hq |-> 31]
CfgOf(f) == IF f \in {"counters", "overflow"} THEN PMUCFG0 ELSE PMUCFG1
IsOn(f) == Switch[f] \in CfgOf(f)

ModeField == {28, 29, 30, 31}
ModeBits == [pass |-> {}, ones |-> {30}, zeros |-> {31}, first |-> ModeField]

\* A bit of the crossbar registers, concatenated.
CrossbarBit(p) == p % REG_WIDTH \in CROSSBAR[p \div REG_WIDTH]
Route(o) == {b \in Ones(fieldw) : CrossbarBit(o * fieldw + b)}

Weight(n) == {b \in Ones(8) : 8 * (n % 4) + b \in EVENT_WEIGHT[n \div 4]}

NothingAsked ==
  [on |-> {}, mode |-> "pass",
   route |-> [o \in Outputs |-> {}], weight |-> [n \in Inputs |-> {}]]

-----------------------------------------------------------------------------
NoCrossbar == [r \in 0 .. N_CROSSBAR_CFG - 1 |-> {}]
NoWeights == [r \in 0 .. N_MCCU_WEIGHTS - 1 |-> {}]
NoQuotas == [c \in 0 .. MCCU_N_CORES - 1 |-> 0]

\* main calls zero_all_pmu_regs before it uses the unit.
Init ==
  /\ PMUCFG0 = {} /\ PMUCFG1 = {} /\ OVERFLOW_IE = {}
  /\ CROSSBAR = NoCrossbar /\ EVENT_WEIGHT = NoWeights /\ QUOTA = NoQuotas
  /\ asked = NothingAsked

zero_all_pmu_regs ==
  /\ PMUCFG0' = {} /\ PMUCFG1' = {} /\ OVERFLOW_IE' = {}
  /\ CROSSBAR' = NoCrossbar /\ EVENT_WEIGHT' = NoWeights /\ QUOTA' = NoQuotas
  /\ asked' = NothingAsked

\* Mutant: the whole word is written.
EnableOverwriting(f) ==
  /\ IF f \in {"counters", "overflow"}
       THEN PMUCFG0' = {Switch[f]} /\ UNCHANGED PMUCFG1
       ELSE PMUCFG1' = {Switch[f]} /\ UNCHANGED PMUCFG0
  /\ asked' = [asked EXCEPT !.on = @ \cup {f}]
  /\ UNCHANGED <<OVERFLOW_IE, CROSSBAR, EVENT_WEIGHT, QUOTA>>

\* A switch is set, or cleared, in its word and the rest of the word written back.
Enable(f) ==
  /\ IF f \in {"counters", "overflow"}
       THEN PMUCFG0' = PMUCFG0 \cup {Switch[f]} /\ UNCHANGED PMUCFG1
       ELSE PMUCFG1' = PMUCFG1 \cup {Switch[f]} /\ UNCHANGED PMUCFG0
  /\ asked' = [asked EXCEPT !.on = @ \cup {f}]
  /\ UNCHANGED <<OVERFLOW_IE, CROSSBAR, EVENT_WEIGHT, QUOTA>>

Disable(f) ==
  /\ IF f \in {"counters", "overflow"}
       THEN PMUCFG0' = PMUCFG0 \ {Switch[f]} /\ UNCHANGED PMUCFG1
       ELSE PMUCFG1' = PMUCFG1 \ {Switch[f]} /\ UNCHANGED PMUCFG0
  /\ asked' = [asked EXCEPT !.on = @ \ {f}]
  /\ UNCHANGED <<OVERFLOW_IE, CROSSBAR, EVENT_WEIGHT, QUOTA>>

\* Mutant: the reset of the quota unit reaches into the update bits' mask.
PulseClearing(x, bit) == (x \cup {bit}) \ {bit, bit + 1}

\* A reset bit is set and cleared again: two writes, of which the second is
\* what lasts.
Pulse(x, bit) == (x \cup {bit}) \ {bit}

Pulse0(bit) ==
  /\ PMUCFG0' = Pulse(PMUCFG0, bit)
  /\ UNCHANGED <<PMUCFG1, OVERFLOW_IE, CROSSBAR, EVENT_WEIGHT, QUOTA, asked>>

Pulse1(bit) ==
  /\ PMUCFG1' = Pulse(PMUCFG1, bit)
  /\ UNCHANGED <<PMUCFG0, OVERFLOW_IE, CROSSBAR, EVENT_WEIGHT, QUOTA, asked>>

pmu_counters_enable  == Enable("counters")
pmu_counters_disable == Disable("counters")
pmu_counters_reset   == Pulse0(1)
pmu_overflow_enable  == Enable("overflow")
pmu_overflow_disable == Disable("overflow")
pmu_overflow_reset   == Pulse0(3)
pmu_mccu_enable      == Enable("mccu")
pmu_mccu_disable     == Disable("mccu")
pmu_mccu_reset       == Pulse1(1)
pmu_mccu_enable_HQ   == Enable("hq")
pmu_mccu_disable_HQ  == Disable("hq")
pmu_rdc_enable       == Enable("rdc")
pmu_rdc_disable      == Disable("rdc")
pmu_rdc_reset        == Pulse1(RdcReset)

\* Mutant: the old mode is not cleared.
SelectModeOring(mode) ==
  /\ PMUCFG0' = PMUCFG0 \cup ModeBits[mode]
  /\ asked' = [asked EXCEPT !.mode = mode]
  /\ UNCHANGED <<PMUCFG1, OVERFLOW_IE, CROSSBAR, EVENT_WEIGHT, QUOTA>>

select_test_mode(mode) ==
  /\ PMUCFG0' = (PMUCFG0 \ ModeField) \cup ModeBits[mode]
  /\ asked' = [asked EXCEPT !.mode = mode]
  /\ UNCHANGED <<PMUCFG1, OVERFLOW_IE, CROSSBAR, EVENT_WEIGHT, QUOTA>>

pmu_overflow_enable_interrupt(mask) ==
  /\ OVERFLOW_IE' = OVERFLOW_IE \cup mask
  /\ UNCHANGED <<PMUCFG0, PMUCFG1, CROSSBAR, EVENT_WEIGHT, QUOTA, asked>>

pmu_overflow_disable_interrupt(mask) ==
  /\ OVERFLOW_IE' = OVERFLOW_IE \ mask
  /\ UNCHANGED <<PMUCFG0, PMUCFG1, CROSSBAR, EVENT_WEIGHT, QUOTA, asked>>

-----------------------------------------------------------------------------
\* Mutant: the bits in the second register are not cleared.
CrossbarAfterOring(o, event) ==
  LET tmp == o * fieldw
      reg == tmp \div REG_WIDTH
      fld == tmp % REG_WIDTH
      fieldw1 == REG_WIDTH - fld
  IN  IF fld + fieldw > REG_WIDTH
        THEN [CROSSBAR EXCEPT
               ![reg] = (@ \ Shl(Ones(fieldw1), fld)) \cup Shl(event, fld),
               ![reg + 1] = @ \cup Shr(event, fieldw1)]
        ELSE [CROSSBAR EXCEPT
               ![reg] = (@ \ Shl(Ones(fieldw), fld)) \cup Shl(event, fld)]

\* The route of an output is fieldw bits of the concatenated registers, and
\* may have bits in two of them.
CrossbarAfter(o, event) ==
  LET tmp == o * fieldw
      reg == tmp \div REG_WIDTH
      fld == tmp % REG_WIDTH
      fieldw1 == REG_WIDTH - fld
      fieldw2 == fieldw - fieldw1
  IN  IF fld + fieldw > REG_WIDTH
        THEN [CROSSBAR EXCEPT
               ![reg] = (@ \ Shl(Ones(fieldw1), fld)) \cup Shl(event, fld),
               ![reg + 1] = (@ \ Ones(fieldw2)) \cup Shr(event, fieldw1)]
        ELSE [CROSSBAR EXCEPT
               ![reg] = (@ \ Shl(Ones(fieldw), fld)) \cup Shl(event, fld)]

pmu_configure_crossbar(o, event) ==
  /\ CROSSBAR' = CrossbarAfter(o, event)
  /\ asked' = [asked EXCEPT !.route = [@ EXCEPT ![o] = event]]
  /\ UNCHANGED <<PMUCFG0, PMUCFG1, OVERFLOW_IE, EVENT_WEIGHT, QUOTA>>

\* Mutant: the field is cleared one input too low.
WeightAfterMisaligned(n, weight) ==
  [EVENT_WEIGHT EXCEPT
    ![n \div 4] = (@ \ Shl(Ones(8), 8 * ((n + 3) % 4))) \cup Shl(weight, 8 * (n % 4))]

\* input << 3 is 32 or more from input 4 on: the shift of the processor takes
\* its low five bits, which is what the driver needs.
WeightAfter(n, weight) ==
  [EVENT_WEIGHT EXCEPT
    ![n \div 4] = (@ \ Shl(Ones(8), (8 * n) % 32)) \cup Shl(weight, (8 * n) % 32)]

pmu_mccu_set_event_weigths(n, weight) ==
  /\ EVENT_WEIGHT' = WeightAfter(n, weight)
  /\ asked' = [asked EXCEPT !.weight = [@ EXCEPT ![n] = weight]]
  /\ UNCHANGED <<PMUCFG0, PMUCFG1, OVERFLOW_IE, CROSSBAR, QUOTA>>

\* The update bits are released with one mask for all: 0x3f << 2.
UpdateMask == 2 .. 7

pmu_mccu_set_quota_limit(core, quota) ==
  /\ PMUCFG1' = (PMUCFG1 \cup {MccuUpdate(core)}) \ UpdateMask
  /\ QUOTA' = [QUOTA EXCEPT ![core] = quota]
  /\ UNCHANGED <<PMUCFG0, OVERFLOW_IE, CROSSBAR, EVENT_WEIGHT, asked>>

Next ==
  \/ zero_all_pmu_regs
  \/ pmu_counters_enable \/ pmu_counters_disable \/ pmu_counters_reset
  \/ pmu_overflow_enable \/ pmu_overflow_disable \/ pmu_overflow_reset
  \/ pmu_mccu_enable \/ pmu_mccu_disable \/ pmu_mccu_reset
  \/ pmu_mccu_enable_HQ \/ pmu_mccu_disable_HQ
  \/ pmu_rdc_enable \/ pmu_rdc_disable \/ pmu_rdc_reset
  \/ \E mode \in DOMAIN ModeBits : select_test_mode(mode)
  \/ \E mask \in Masks :
       pmu_overflow_enable_interrupt(mask) \/ pmu_overflow_disable_interrupt(mask)
  \/ \E o \in Outputs, event \in Events : pmu_configure_crossbar(o, event)
  \/ \E n \in Inputs, weight \in Weights : pmu_mccu_set_event_weigths(n, weight)
  \/ \E core \in Cores, quota \in Quotas : pmu_mccu_set_quota_limit(core, quota)

SafeSUSpec == Init /\ [][Next]_vars

-----------------------------------------------------------------------------
\* Every register is a word of REG_WIDTH bits: no shift of a field reaches past
\* it and no call names a register that is not there (pmu_hw.c:72-102, 378-398).
SafeSUTypeOK ==
  /\ PMUCFG0 \subseteq Bits /\ PMUCFG1 \subseteq Bits /\ OVERFLOW_IE \subseteq Bits
  /\ CROSSBAR \in [0 .. N_CROSSBAR_CFG - 1 -> SUBSET Bits]
  /\ EVENT_WEIGHT \in [0 .. N_MCCU_WEIGHTS - 1 -> SUBSET Bits]

\* After any sequence of calls a part of the unit is on exactly if the last
\* call about it enabled it: the calls that share PMUCFG0 and PMUCFG1 with it,
\* resets, test modes and quotas, leave it alone (pmu_hw.c:13-28, 150-165,
\* 292-322, 337-350, 416-466).  The comment beside the mask of
\* pmu_mccu_set_quota_limit, "0xf ->4cores / 0x3f -> 6cores"
\* (pmu_hw.c:349, 4-core/pmu_hw.c:343), says for which units it is right.
SwitchesAsAsked == \A f \in Features : IsOn(f) <=> f \in asked.on

\* No call leaves a reset or an update bit set, which would hold a part of the
\* unit in reset, or reload a quota for ever; and the test mode is the last one
\* selected, whatever was selected before.
NothingHeld ==
  /\ PMUCFG0 \cap {1, 3} = {}
  /\ PMUCFG1 \cap ({1, RdcReset} \cup {MccuUpdate(c) : c \in Cores}) = {}
  /\ PMUCFG0 \cap ModeField = ModeBits[asked.mode]

\* Every output of the crossbar counts the event it was last given, also when
\* its field lies in two registers or shares them with other outputs
\* (pmu_hw.c:61-101).
RoutesAsAsked == \A o \in Outputs : Route(o) = asked.route[o]

\* Every input of the quota unit has the weight it was last given
\* (pmu_hw.c:376-414).
WeightsAsAsked == \A n \in Inputs : Weight(n) = asked.weight[n]
=============================================================================
