---------------------------- MODULE SafeSUProofs ----------------------------
(***************************************************************************)
(* The settings of the unit are the ones last asked for, after any         *)
(* sequence of calls with any arguments that exist: for any number of      *)
(* crossbar outputs and registers and any width of a route, any number of  *)
(* weights, and the numbers of cores that the mask of the update bits fits.*)
(***************************************************************************)
EXTENDS SafeSU, TLAPS

\* What the calls have asked for.
AskedTypeOK ==
  asked \in [on : SUBSET Features, mode : DOMAIN ModeBits,
             route : [Outputs -> SUBSET Ones(fieldw)], weight : [Inputs -> SUBSET Ones(8)]]

Typed == SafeSUTypeOK /\ AskedTypeOK

-----------------------------------------------------------------------------
LEMMA SwitchValues ==
  /\ Switch["counters"] = 0 /\ Switch["overflow"] = 2 /\ Switch["mccu"] = 0
  /\ Switch["rdc"] = RdcEnable /\ Switch["hq"] = 31
BY DEF Switch

LEMMA ModeValues ==
  /\ DOMAIN ModeBits = {"pass", "ones", "zeros", "first"}
  /\ \A mode \in DOMAIN ModeBits : ModeBits[mode] \subseteq ModeField
BY DEF ModeBits, ModeField

LEMMA Numbers ==
  /\ MCCU_N_CORES \in Nat /\ 1 <= MCCU_N_CORES /\ MCCU_N_CORES <= 27
  /\ fieldw \in Nat /\ 1 <= fieldw /\ fieldw <= 32
  /\ Bits = 0 .. 31 /\ REG_WIDTH = 32
  /\ RdcEnable \in Bits /\ RdcReset \in Bits /\ RdcReset = RdcEnable + 1
  /\ RdcReset # 31
  /\ RdcEnable = 2 + MCCU_N_CORES
BY ParameterAssumption DEF REG_WIDTH, Bits, RdcEnable, RdcReset

-----------------------------------------------------------------------------
(* A step, sorted by what it does.                                         *)
Switching == \E f \in Features : Enable(f) \/ Disable(f)
Pulsing == (\E bit \in {1, 3} : Pulse0(bit)) \/ (\E bit \in {1, RdcReset} : Pulse1(bit))
MaskingInterrupts ==
  \E mask \in Masks :
    pmu_overflow_enable_interrupt(mask) \/ pmu_overflow_disable_interrupt(mask)
SelectingMode == \E mode \in DOMAIN ModeBits : select_test_mode(mode)
Routing == \E o \in Outputs, event \in Events : pmu_configure_crossbar(o, event)
Weighting == \E n \in Inputs, weight \in Weights : pmu_mccu_set_event_weigths(n, weight)
Rationing == \E core \in Cores, quota \in Quotas : pmu_mccu_set_quota_limit(core, quota)

LEMMA Steps ==
  Next => \/ zero_all_pmu_regs \/ Switching \/ Pulsing \/ SelectingMode
          \/ MaskingInterrupts \/ Routing \/ Weighting \/ Rationing
<1>1. /\ "counters" \in Features /\ "overflow" \in Features /\ "mccu" \in Features
      /\ "rdc" \in Features /\ "hq" \in Features
  BY DEF Features
<1>2. pmu_counters_enable \/ pmu_counters_disable \/ pmu_overflow_enable
      \/ pmu_overflow_disable \/ pmu_mccu_enable \/ pmu_mccu_disable
      \/ pmu_mccu_enable_HQ \/ pmu_mccu_disable_HQ \/ pmu_rdc_enable \/ pmu_rdc_disable
        => Switching
  BY <1>1 DEF Switching, pmu_counters_enable, pmu_counters_disable, pmu_overflow_enable,
       pmu_overflow_disable, pmu_mccu_enable, pmu_mccu_disable,
       pmu_mccu_enable_HQ, pmu_mccu_disable_HQ, pmu_rdc_enable, pmu_rdc_disable
<1>3. pmu_counters_reset \/ pmu_overflow_reset \/ pmu_mccu_reset \/ pmu_rdc_reset
        => Pulsing
  BY DEF Pulsing, pmu_counters_reset, pmu_overflow_reset, pmu_mccu_reset, pmu_rdc_reset
<1>. QED
  BY <1>2, <1>3 DEF Next, SelectingMode, MaskingInterrupts, Routing, Weighting, Rationing

-----------------------------------------------------------------------------
(* The crossbar, bit by bit.                                               *)
LEMMA ShiftedOnes ==
  ASSUME NEW n \in Nat, NEW k \in Nat
  PROVE  Shl(Ones(n), k) = {c \in Bits : k <= c /\ c < k + n}
<1>1. ASSUME NEW c \in Bits, k <= c, c < k + n  PROVE c \in Shl(Ones(n), k)
  <2>1. c - k \in Ones(n) /\ (c - k) + k = c
    BY <1>1 DEF Ones, Bits, REG_WIDTH
  <2>. QED  BY <1>1, <2>1 DEF Shl
<1>2. ASSUME NEW c \in Shl(Ones(n), k)  PROVE c \in Bits /\ k <= c /\ c < k + n
  <2>1. PICK b \in Ones(n) : c = b + k
    BY DEF Shl
  <2>. QED  BY <2>1 DEF Shl, Ones, Bits, REG_WIDTH
<1>. QED  BY <1>1, <1>2

LEMMA Shifted ==
  ASSUME NEW x \in SUBSET Nat, NEW k \in Nat, NEW c \in Bits
  PROVE  c \in Shl(x, k) <=> k <= c /\ c - k \in x
<1>1. ASSUME k <= c, c - k \in x  PROVE c \in Shl(x, k)
  <2>1. (c - k) + k = c
    BY DEF Bits, REG_WIDTH
  <2>. QED  BY <1>1, <2>1 DEF Shl
<1>. QED  BY <1>1 DEF Shl, Bits, REG_WIDTH

LEMMA ShiftedBack ==
  ASSUME NEW x \in SUBSET Nat, NEW k \in Nat, NEW c \in Nat
  PROVE  c \in Shr(x, k) <=> c + k \in x
<1>1. ASSUME c + k \in x  PROVE c \in Shr(x, k)
  <2>1. (c + k) - k = c /\ c + k >= k
    OBVIOUS
  <2>. QED  BY <1>1, <2>1 DEF Shr
<1>2. ASSUME c \in Shr(x, k)  PROVE c + k \in x
  <2>1. PICK d \in x : d >= k /\ c = d - k
    BY <1>2 DEF Shr
  <2>2. d = c + k
    BY <2>1
  <2>. QED  BY <2>1, <2>2
<1>. QED  BY <1>1, <1>2

LEMMA DivMod ==
  ASSUME NEW p \in Nat
  PROVE  /\ p \div 32 \in Nat /\ p % 32 \in Bits
         /\ p = 32 * (p \div 32) + (p % 32)
BY DEF Bits, REG_WIDTH

\* The bits of a field are set to the event and no other bit changes.
LEMMA CrossbarBitAfter ==
  ASSUME SafeSUTypeOK, NEW o \in Outputs, NEW event \in Events,
         NEW p \in Nat, p \div 32 \in 0 .. N_CROSSBAR_CFG - 1
  PROVE  (p % 32 \in CrossbarAfter(o, event)[p \div 32]) <=>
           (IF o * fieldw <= p /\ p < o * fieldw + fieldw
              THEN p - o * fieldw \in event
              ELSE p % 32 \in CROSSBAR[p \div 32])
<1> DEFINE t == o * fieldw
           reg == t \div 32
           fld == t % 32
           w1 == 32 - fld
           w2 == fieldw - w1
           q == p \div 32
           r == p % 32
<1>1. o \in Nat /\ t \in Nat /\ t + fieldw <= 32 * N_CROSSBAR_CFG /\ N_CROSSBAR_CFG \in Nat
  BY ArgumentAssumption, ParameterAssumption DEF REG_WIDTH
<1>2. event \in SUBSET Ones(fieldw) /\ event \in SUBSET Nat
  BY ArgumentAssumption, Numbers DEF Ones
<1>3. /\ fieldw \in Nat /\ 1 <= fieldw /\ fieldw <= 32
  BY Numbers
<1> HIDE DEF t
<1>4. /\ reg \in Nat /\ fld \in Bits /\ t = 32 * reg + fld
      /\ q \in Nat /\ r \in Bits /\ p = 32 * q + r
  BY <1>1, DivMod
<1> HIDE DEF reg, fld, q, r
<1>5. fld \in 0 .. 31 /\ r \in 0 .. 31 /\ w1 \in 1 .. 32
  BY <1>4 DEF Bits, REG_WIDTH
<1>6. CROSSBAR \in [0 .. N_CROSSBAR_CFG - 1 -> SUBSET Bits] /\ q \in 0 .. N_CROSSBAR_CFG - 1
  BY DEF SafeSUTypeOK, q
<1>7. SUFFICES (r \in CrossbarAfter(o, event)[q]) <=>
                 (IF t <= p /\ p < t + fieldw THEN p - t \in event ELSE r \in CROSSBAR[q])
  BY DEF t, q, r
<1>8. CASE fld + fieldw > 32
  <2>1. CrossbarAfter(o, event) =
          [CROSSBAR EXCEPT
             ![reg] = (@ \ Shl(Ones(w1), fld)) \cup Shl(event, fld),
             ![reg + 1] = (@ \ Ones(w2)) \cup Shr(event, w1)]
    BY <1>8 DEF CrossbarAfter, REG_WIDTH, t, reg, fld
  <2>2. w2 \in Nat /\ w2 < 32
    BY <1>3, <1>5, <1>8
  <2>3. CASE q = reg
    <3>1. CrossbarAfter(o, event)[q] = (CROSSBAR[q] \ Shl(Ones(w1), fld)) \cup Shl(event, fld)
      BY <1>4, <1>6, <2>1, <2>3
    <3>2. r \in Shl(event, fld) <=> fld <= r /\ r - fld \in event
      BY <1>2, <1>4, <1>5, Shifted
    <3>3. r \in Shl(Ones(w1), fld) <=> fld <= r
      BY <1>4, <1>5, ShiftedOnes
    <3>4. (t <= p /\ p < t + fieldw <=> fld <= r) /\ p - t = r - fld
      BY <1>1, <1>3, <1>4, <1>5, <1>8, <2>3
    <3>. QED  BY <3>1, <3>2, <3>3, <3>4
  <2>4. CASE q = reg + 1
    <3>1. CrossbarAfter(o, event)[q] = (CROSSBAR[q] \ Ones(w2)) \cup Shr(event, w1)
      BY <1>4, <1>6, <2>1, <2>4
    <3>2. r \in Shr(event, w1) <=> r + w1 \in event
      <4>1. r \in Nat /\ w1 \in Nat
        BY <1>5
      <4>. HIDE DEF w1
      <4>. QED  BY <1>2, <4>1, ShiftedBack
    <3>3. r + w1 \in event => r < w2
      BY <1>2, <1>3, <1>5 DEF Ones
    <3>4. r \in Ones(w2) <=> r < w2
      BY <1>5, <2>2 DEF Ones
    <3>5. (t <= p /\ p < t + fieldw <=> r < w2) /\ p - t = r + w1
      BY <1>1, <1>3, <1>4, <1>5, <1>8, <2>4
    <3>. QED  BY <3>1, <3>2, <3>3, <3>4, <3>5
  <2>5. CASE q # reg /\ q # reg + 1
    <3>1. CrossbarAfter(o, event)[q] = CROSSBAR[q]
      BY <1>4, <1>6, <2>1, <2>5
    <3>2. ~(t <= p /\ p < t + fieldw)
      BY <1>1, <1>3, <1>4, <1>5, <2>5
    <3>. QED  BY <3>1, <3>2
  <2>. QED  BY <2>3, <2>4, <2>5
<1>9. CASE ~(fld + fieldw > 32)
  <2>1. CrossbarAfter(o, event) =
          [CROSSBAR EXCEPT ![reg] = (@ \ Shl(Ones(fieldw), fld)) \cup Shl(event, fld)]
    BY <1>9 DEF CrossbarAfter, REG_WIDTH, t, reg, fld
  <2>2. CASE q = reg
    <3>1. CrossbarAfter(o, event)[q] = (CROSSBAR[q] \ Shl(Ones(fieldw), fld)) \cup Shl(event, fld)
      BY <1>4, <1>6, <2>1, <2>2
    <3>2. r \in Shl(event, fld) <=> fld <= r /\ r - fld \in event
      BY <1>2, <1>4, <1>5, Shifted
    <3>3. r \in Shl(Ones(fieldw), fld) <=> fld <= r /\ r < fld + fieldw
      BY <1>3, <1>4, <1>5, ShiftedOnes
    <3>4. (t <= p /\ p < t + fieldw <=> fld <= r /\ r < fld + fieldw) /\ p - t = r - fld
      BY <1>1, <1>3, <1>4, <1>5, <2>2
    <3>5. r - fld \in event => r < fld + fieldw
      BY <1>2, <1>3, <1>5 DEF Ones
    <3>. QED  BY <3>1, <3>2, <3>3, <3>4, <3>5
  <2>3. CASE q # reg
    <3>1. CrossbarAfter(o, event)[q] = CROSSBAR[q]
      BY <1>4, <1>6, <2>1, <2>3
    <3>2. ~(t <= p /\ p < t + fieldw)
      BY <1>1, <1>3, <1>4, <1>5, <1>9, <2>3
    <3>. QED  BY <3>1, <3>2
  <2>. QED  BY <2>2, <2>3
<1>. QED  BY <1>8, <1>9

\* The fields of two outputs have no bit in common.
LEMMA FieldsApart ==
  ASSUME NEW o1 \in Outputs, NEW o2 \in Outputs, o1 # o2, NEW b \in Ones(fieldw)
  PROVE  ~(o1 * fieldw <= o2 * fieldw + b /\ o2 * fieldw + b < o1 * fieldw + fieldw)
<1>1. o1 \in Nat /\ o2 \in Nat /\ fieldw \in Nat /\ b \in 0 .. fieldw - 1
  BY ArgumentAssumption, Numbers DEF Ones
<1>2. CASE o1 < o2
  <2>1. PICK d \in Nat : o2 = o1 + 1 + d
    <3>1. o2 - o1 - 1 \in Nat /\ o2 = o1 + 1 + (o2 - o1 - 1)
      BY <1>1, <1>2
    <3>. QED  BY <3>1
  <2>2. o2 * fieldw = o1 * fieldw + fieldw + d * fieldw
    BY <1>1, <2>1
  <2>3. d * fieldw \in Nat /\ o1 * fieldw \in Nat
    BY <1>1, <2>1
  <2>. QED  BY <1>1, <2>2, <2>3
<1>3. CASE o2 < o1
  <2>1. PICK d \in Nat : o1 = o2 + 1 + d
    <3>1. o1 - o2 - 1 \in Nat /\ o1 = o2 + 1 + (o1 - o2 - 1)
      BY <1>1, <1>3
    <3>. QED  BY <3>1
  <2>2. o1 * fieldw = o2 * fieldw + fieldw + d * fieldw
    BY <1>1, <2>1
  <2>3. d * fieldw \in Nat /\ o2 * fieldw \in Nat
    BY <1>1, <2>1
  <2>. QED  BY <1>1, <2>2, <2>3
<1>. QED  BY <1>1, <1>2, <1>3

\* The bits of an output lie in the crossbar registers.
LEMMA FieldInRegisters ==
  ASSUME NEW o \in Outputs, NEW b \in Ones(fieldw)
  PROVE  /\ o * fieldw \in Nat /\ o * fieldw + b \in Nat
         /\ o * fieldw <= o * fieldw + b /\ o * fieldw + b < o * fieldw + fieldw
         /\ (o * fieldw + b) - o * fieldw = b
         /\ (o * fieldw + b) \div 32 \in 0 .. N_CROSSBAR_CFG - 1
<1> DEFINE t == o * fieldw
<1>1. t \in Nat /\ t + fieldw <= 32 * N_CROSSBAR_CFG /\ N_CROSSBAR_CFG \in Nat
      /\ fieldw \in Nat /\ b \in 0 .. fieldw - 1
  BY ArgumentAssumption, ParameterAssumption, Numbers DEF REG_WIDTH, Ones
<1> HIDE DEF t
<1>2. t + b \in Nat /\ t + b < 32 * N_CROSSBAR_CFG
  BY <1>1
<1>3. (t + b) \div 32 \in Nat /\ 32 * ((t + b) \div 32) <= t + b
  BY <1>2, DivMod DEF Bits, REG_WIDTH
<1>4. (t + b) \div 32 \in 0 .. N_CROSSBAR_CFG - 1
  BY <1>1, <1>2, <1>3
<1>5. t <= t + b /\ t + b < t + fieldw /\ (t + b) - t = b
  BY <1>1
<1>. QED  BY <1>1, <1>2, <1>4, <1>5 DEF t

LEMMA RoutesKept ==
  ASSUME SafeSUTypeOK, AskedTypeOK, RoutesAsAsked,
         NEW o \in Outputs, NEW event \in Events, pmu_configure_crossbar(o, event)
  PROVE  RoutesAsAsked'
<1>1. CROSSBAR' = CrossbarAfter(o, event)
  BY DEF pmu_configure_crossbar
<1>2. asked'.route = [asked.route EXCEPT ![o] = event]
  BY DEF pmu_configure_crossbar, AskedTypeOK
<1>3. asked.route \in [Outputs -> SUBSET Ones(fieldw)] /\ event \subseteq Ones(fieldw)
  BY ArgumentAssumption DEF AskedTypeOK
<1>4. SUFFICES ASSUME NEW x \in Outputs, NEW b \in Ones(fieldw)
               PROVE  (CrossbarBit(x * fieldw + b))' <=> b \in asked'.route[x]
  BY <1>2, <1>3 DEF RoutesAsAsked, Route
<1>5. CrossbarBit(x * fieldw + b) <=> b \in asked.route[x]
  BY DEF RoutesAsAsked, Route
<1> DEFINE p == x * fieldw + b
<1>6. /\ p \in Nat /\ p \div 32 \in 0 .. N_CROSSBAR_CFG - 1
      /\ x * fieldw <= p /\ p < x * fieldw + fieldw /\ p - x * fieldw = b
  BY FieldInRegisters
<1>7. x # o => ~(o * fieldw <= p /\ p < o * fieldw + fieldw)
  BY FieldsApart
<1>8. /\ CrossbarBit(p) <=> (p % 32) \in CROSSBAR[p \div 32]
      /\ (CrossbarBit(p))' <=> (p % 32) \in CROSSBAR'[p \div 32]
  BY DEF CrossbarBit, REG_WIDTH
<1> HIDE DEF p
<1>9. (p % 32) \in CROSSBAR'[p \div 32] <=>
        (IF o * fieldw <= p /\ p < o * fieldw + fieldw
           THEN p - o * fieldw \in event ELSE (p % 32) \in CROSSBAR[p \div 32])
  BY <1>1, <1>6, CrossbarBitAfter
<1>10. CASE x = o
  BY <1>2, <1>3, <1>6, <1>8, <1>9, <1>10 DEF p
<1>11. CASE x # o
  BY <1>2, <1>3, <1>5, <1>7, <1>8, <1>9, <1>11 DEF p
<1>. QED  BY <1>10, <1>11

-----------------------------------------------------------------------------
(* The weights.                                                            *)
LEMMA WeightsKept ==
  ASSUME SafeSUTypeOK, AskedTypeOK, WeightsAsAsked,
         NEW n \in Inputs, NEW weight \in Weights, pmu_mccu_set_event_weigths(n, weight)
  PROVE  WeightsAsAsked'
<1>1. EVENT_WEIGHT' = WeightAfter(n, weight)
  BY DEF pmu_mccu_set_event_weigths
<1>2. asked'.weight = [asked.weight EXCEPT ![n] = weight]
  BY DEF pmu_mccu_set_event_weigths, AskedTypeOK
<1>3. asked.weight \in [Inputs -> SUBSET Ones(8)] /\ weight \subseteq Ones(8)
      /\ weight \in SUBSET Nat
  BY ArgumentAssumption DEF AskedTypeOK, Ones
<1>4. SUFFICES ASSUME NEW x \in Inputs, NEW b \in Ones(8)
               PROVE  8 * (x % 4) + b \in EVENT_WEIGHT'[x \div 4] <=> b \in asked'.weight[x]
  BY <1>2, <1>3 DEF WeightsAsAsked, Weight
<1>5. 8 * (x % 4) + b \in EVENT_WEIGHT[x \div 4] <=> b \in asked.weight[x]
  BY DEF WeightsAsAsked, Weight
<1> DEFINE q == x \div 4  r == x % 4  s == n \div 4  k == n % 4
<1>6. x \in Nat /\ n \in Nat /\ N_MCCU_WEIGHTS \in Nat
      /\ x < 4 * N_MCCU_WEIGHTS /\ n < 4 * N_MCCU_WEIGHTS
  BY ArgumentAssumption, ParameterAssumption
<1>7. /\ q \in Nat /\ r \in 0 .. 3 /\ x = 4 * q + r
      /\ s \in Nat /\ k \in 0 .. 3 /\ n = 4 * s + k
  BY <1>6
<1>8. (8 * n) % 32 = 8 * k
  BY <1>6
<1> HIDE DEF q, r, s, k
<1>9. q \in 0 .. N_MCCU_WEIGHTS - 1 /\ s \in 0 .. N_MCCU_WEIGHTS - 1
  BY <1>6, <1>7
<1>10. b \in 0 .. 7
  BY DEF Ones
<1>11. EVENT_WEIGHT' =
         [EVENT_WEIGHT EXCEPT ![s] = (@ \ Shl(Ones(8), 8 * k)) \cup Shl(weight, 8 * k)]
  BY <1>1, <1>8 DEF WeightAfter, s
<1>12. EVENT_WEIGHT \in [0 .. N_MCCU_WEIGHTS - 1 -> SUBSET Bits]
  BY DEF SafeSUTypeOK
<1>13. SUFFICES 8 * r + b \in EVENT_WEIGHT'[q] <=> b \in asked'.weight[x]
  BY DEF q, r
<1>14. 8 * r + b \in EVENT_WEIGHT[q] <=> b \in asked.weight[x]
  BY <1>5 DEF q, r
<1>15. 8 * r + b \in Bits /\ 8 * k \in Nat
  BY <1>7, <1>10 DEF Bits, REG_WIDTH
<1>16. CASE q = s
  <2>1. EVENT_WEIGHT'[q] = (EVENT_WEIGHT[q] \ Shl(Ones(8), 8 * k)) \cup Shl(weight, 8 * k)
    BY <1>9, <1>11, <1>12, <1>16
  <2>2. 8 * r + b \in Shl(weight, 8 * k) <=> 8 * k <= 8 * r + b /\ (8 * r + b) - 8 * k \in weight
    BY <1>3, <1>15, Shifted
  <2>3. 8 * r + b \in Shl(Ones(8), 8 * k) <=> 8 * k <= 8 * r + b /\ 8 * r + b < 8 * k + 8
    BY <1>15, ShiftedOnes
  <2>4. CASE r = k
    <3>1. x = n /\ (8 * r + b) - 8 * k = b /\ 8 * k <= 8 * r + b /\ 8 * r + b < 8 * k + 8
      BY <1>7, <1>10, <1>16, <2>4
    <3>2. asked'.weight[x] = weight
      BY <1>2, <1>3, <3>1
    <3>3. 8 * r + b \in Shl(weight, 8 * k) <=> b \in weight
      BY <2>2, <3>1
    <3>4. 8 * r + b \in Shl(Ones(8), 8 * k)
      BY <2>3, <3>1
    <3>5. 8 * r + b \in EVENT_WEIGHT'[q] <=> 8 * r + b \in Shl(weight, 8 * k)
      BY <2>1, <3>4
    <3>. QED  BY <3>2, <3>3, <3>5
  <2>5. CASE r # k
    <3>1. x # n /\ ~(8 * k <= 8 * r + b /\ 8 * r + b < 8 * k + 8)
      BY <1>7, <1>10, <1>16, <2>5
    <3>2. (8 * r + b) - 8 * k \in weight => (8 * r + b) - 8 * k < 8
      BY <1>3, <1>7, <1>10 DEF Ones
    <3>3. ~(8 * k <= 8 * r + b /\ (8 * r + b) - 8 * k \in weight)
      BY <1>7, <1>10, <3>1, <3>2
    <3>. QED  BY <1>2, <1>3, <1>14, <2>1, <2>2, <2>3, <3>1, <3>3
  <2>. QED  BY <2>4, <2>5
<1>17. CASE q # s
  <2>1. EVENT_WEIGHT'[q] = EVENT_WEIGHT[q] /\ x # n
    BY <1>7, <1>9, <1>11, <1>12, <1>17 DEF q, s
  <2>. QED  BY <1>2, <1>3, <1>14, <2>1
<1>. QED  BY <1>16, <1>17

-----------------------------------------------------------------------------
(* The types.                                                              *)
LEMMA InitTyped == Init => Typed
<1> SUFFICES ASSUME Init PROVE Typed
  OBVIOUS
<1>1. SafeSUTypeOK
  BY DEF Init, SafeSUTypeOK, NoCrossbar, NoWeights
<1>2. AskedTypeOK
  BY ModeValues DEF Init, AskedTypeOK, NothingAsked
<1>. QED  BY <1>1, <1>2 DEF Typed

LEMMA ShlTyped == ASSUME NEW x, NEW k  PROVE Shl(x, k) \subseteq Bits
BY DEF Shl

LEMMA CrossbarTyped ==
  ASSUME SafeSUTypeOK, NEW o \in Outputs, NEW event \in Events
  PROVE  CrossbarAfter(o, event) \in [0 .. N_CROSSBAR_CFG - 1 -> SUBSET Bits]
<1> DEFINE fld == (o * fieldw) % REG_WIDTH
           w1 == REG_WIDTH - fld
<1>1. CROSSBAR \in [0 .. N_CROSSBAR_CFG - 1 -> SUBSET Bits]
  BY DEF SafeSUTypeOK
<1>2. fld + fieldw > REG_WIDTH => Shr(event, w1) \subseteq Bits
  <2> SUFFICES ASSUME NEW c \in Shr(event, w1)  PROVE c \in Bits
    OBVIOUS
  <2>1. o * fieldw \in Nat
    BY ArgumentAssumption, Numbers
  <2>2. fld \in 0 .. 31
    BY <2>1, DivMod DEF REG_WIDTH, Bits
  <2>3. PICK d \in event : d >= w1 /\ c = d - w1
    BY DEF Shr
  <2>4. d \in 0 .. 31
    BY <2>3, ArgumentAssumption, Numbers DEF Ones
  <2>. QED  BY <2>2, <2>3, <2>4 DEF Bits, REG_WIDTH
<1> HIDE DEF fld, w1
<1>. QED  BY <1>1, <1>2, ShlTyped DEF CrossbarAfter, fld, w1

LEMMA StepTyped == Typed /\ [Next]_vars => Typed'
<1> SUFFICES ASSUME Typed, [Next]_vars PROVE Typed'
  OBVIOUS
<1>. USE DEF Typed
<1>1. CASE zero_all_pmu_regs
  BY <1>1, ModeValues DEF zero_all_pmu_regs, SafeSUTypeOK, AskedTypeOK, NothingAsked, NoCrossbar, NoWeights
<1>2. CASE Switching
  <2>1. PICK f \in Features : Enable(f) \/ Disable(f)
    BY <1>2 DEF Switching
  <2>2. Switch[f] \in Bits
    BY SwitchValues, Numbers DEF Features
  <2>3. SafeSUTypeOK'
    BY <2>1, <2>2 DEF Enable, Disable, SafeSUTypeOK
  <2>4. AskedTypeOK'
    BY <2>1 DEF Enable, Disable, AskedTypeOK
  <2>. QED  BY <2>3, <2>4
<1>3. CASE Pulsing
  BY <1>3 DEF Pulsing, Pulse0, Pulse1, Pulse, SafeSUTypeOK, AskedTypeOK
<1>4. CASE SelectingMode
  <2>1. PICK mode \in DOMAIN ModeBits : select_test_mode(mode)
    BY <1>4 DEF SelectingMode
  <2>2. ModeBits[mode] \subseteq Bits
    BY ModeValues, Numbers DEF ModeField
  <2>. QED  BY <2>1, <2>2 DEF select_test_mode, SafeSUTypeOK, AskedTypeOK
<1>5. CASE MaskingInterrupts
  BY <1>5, ArgumentAssumption DEF MaskingInterrupts, pmu_overflow_enable_interrupt,
     pmu_overflow_disable_interrupt, SafeSUTypeOK, AskedTypeOK
<1>6. CASE Routing
  <2>1. PICK o \in Outputs, event \in Events : pmu_configure_crossbar(o, event)
    BY <1>6 DEF Routing
  <2>2. CrossbarAfter(o, event) \in [0 .. N_CROSSBAR_CFG - 1 -> SUBSET Bits]
    BY CrossbarTyped
  <2>3. SafeSUTypeOK'
    BY <2>1, <2>2 DEF pmu_configure_crossbar, SafeSUTypeOK
  <2>4. AskedTypeOK'
    BY <2>1, ArgumentAssumption DEF pmu_configure_crossbar, AskedTypeOK
  <2>. QED  BY <2>3, <2>4
<1>7. CASE Weighting
  <2>1. PICK n \in Inputs, weight \in Weights : pmu_mccu_set_event_weigths(n, weight)
    BY <1>7 DEF Weighting
  <2>2. WeightAfter(n, weight) \in [0 .. N_MCCU_WEIGHTS - 1 -> SUBSET Bits]
    BY ShlTyped DEF WeightAfter, SafeSUTypeOK
  <2>3. SafeSUTypeOK'
    BY <2>1, <2>2 DEF pmu_mccu_set_event_weigths, SafeSUTypeOK
  <2>4. AskedTypeOK'
    BY <2>1, ArgumentAssumption DEF pmu_mccu_set_event_weigths, AskedTypeOK
  <2>. QED  BY <2>3, <2>4
<1>8. CASE Rationing
  <2>1. PICK core \in Cores, quota \in Quotas : pmu_mccu_set_quota_limit(core, quota)
    BY <1>8 DEF Rationing
  <2>2. core \in Nat /\ core < MCCU_N_CORES
    BY ArgumentAssumption, Numbers
  <2>3. MccuUpdate(core) \in Bits
    BY <2>2, Numbers DEF MccuUpdate
  <2>. QED  BY <2>1, <2>3 DEF pmu_mccu_set_quota_limit, SafeSUTypeOK, AskedTypeOK
<1>9. CASE UNCHANGED vars
  BY <1>9 DEF vars, registers, SafeSUTypeOK, AskedTypeOK
<1>. QED  BY <1>1, <1>2, <1>3, <1>4, <1>5, <1>6, <1>7, <1>8, <1>9, Steps

-----------------------------------------------------------------------------
(* The theorems.                                                           *)

\* Every route is the one last asked for, for any number and width of routes.
THEOREM RoutesObeyed == SafeSUSpec => []RoutesAsAsked
<1>1. Init => RoutesAsAsked
  <2> SUFFICES ASSUME Init, NEW o \in Outputs  PROVE Route(o) = asked.route[o]
    BY DEF RoutesAsAsked
  <2>1. asked.route[o] = {}
    BY DEF Init, NothingAsked
  <2>2. ASSUME NEW b \in Ones(fieldw)  PROVE ~CrossbarBit(o * fieldw + b)
    <3>1. (o * fieldw + b) \div 32 \in 0 .. N_CROSSBAR_CFG - 1
      BY FieldInRegisters
    <3>. QED  BY <3>1 DEF Init, NoCrossbar, CrossbarBit, REG_WIDTH
  <2>. QED  BY <2>1, <2>2 DEF Route
<1>2. Typed /\ RoutesAsAsked /\ [Next]_vars => RoutesAsAsked'
  <2> SUFFICES ASSUME Typed, RoutesAsAsked, [Next]_vars  PROVE RoutesAsAsked'
    OBVIOUS
  <2>1. CASE zero_all_pmu_regs
    <3> SUFFICES ASSUME NEW o \in Outputs  PROVE (Route(o))' = asked'.route[o]
      BY DEF RoutesAsAsked
    <3>1. asked'.route[o] = {}
      BY <2>1 DEF zero_all_pmu_regs, NothingAsked
    <3>2. ASSUME NEW b \in Ones(fieldw)  PROVE ~(CrossbarBit(o * fieldw + b))'
      <4>1. (o * fieldw + b) \div 32 \in 0 .. N_CROSSBAR_CFG - 1
        BY FieldInRegisters
      <4>. QED  BY <2>1, <4>1 DEF zero_all_pmu_regs, NoCrossbar, CrossbarBit, REG_WIDTH
    <3>. QED  BY <3>1, <3>2 DEF Route
  <2>2. CASE Routing
    BY <2>2, RoutesKept DEF Routing, Typed
  <2>3. CASE UNCHANGED CROSSBAR /\ asked'.route = asked.route
    BY <2>3 DEF RoutesAsAsked, Route, CrossbarBit
  <2>4. Switching \/ Pulsing \/ SelectingMode \/ MaskingInterrupts \/ Weighting
        \/ Rationing \/ UNCHANGED vars => UNCHANGED CROSSBAR /\ asked'.route = asked.route
    BY DEF Typed, AskedTypeOK, Switching, Enable, Disable, Pulsing, Pulse0, Pulse1,
       SelectingMode, select_test_mode, MaskingInterrupts, pmu_overflow_enable_interrupt,
       pmu_overflow_disable_interrupt, Weighting, pmu_mccu_set_event_weigths,
       Rationing, pmu_mccu_set_quota_limit, vars, registers
  <2>. QED  BY <2>1, <2>2, <2>3, <2>4, Steps
<1>. QED  BY <1>1, <1>2, InitTyped, StepTyped, PTL DEF SafeSUSpec

\* Every weight is the one last asked for, for any number of weight registers.
THEOREM WeightsObeyed == SafeSUSpec => []WeightsAsAsked
<1>1. Init => WeightsAsAsked
  <2> SUFFICES ASSUME Init, NEW n \in Inputs  PROVE Weight(n) = asked.weight[n]
    BY DEF WeightsAsAsked
  <2>1. n \div 4 \in 0 .. N_MCCU_WEIGHTS - 1
    BY ArgumentAssumption, ParameterAssumption
  <2>. QED  BY <2>1 DEF Init, NothingAsked, NoWeights, Weight
<1>2. Typed /\ WeightsAsAsked /\ [Next]_vars => WeightsAsAsked'
  <2> SUFFICES ASSUME Typed, WeightsAsAsked, [Next]_vars  PROVE WeightsAsAsked'
    OBVIOUS
  <2>1. CASE zero_all_pmu_regs
    <3> SUFFICES ASSUME NEW n \in Inputs  PROVE (Weight(n))' = asked'.weight[n]
      BY DEF WeightsAsAsked
    <3>1. n \div 4 \in 0 .. N_MCCU_WEIGHTS - 1
      BY ArgumentAssumption, ParameterAssumption
    <3>. QED  BY <2>1, <3>1 DEF zero_all_pmu_regs, NothingAsked, NoWeights, Weight
  <2>2. CASE Weighting
    BY <2>2, WeightsKept DEF Weighting, Typed
  <2>3. CASE UNCHANGED EVENT_WEIGHT /\ asked'.weight = asked.weight
    BY <2>3 DEF WeightsAsAsked, Weight
  <2>4. Switching \/ Pulsing \/ SelectingMode \/ MaskingInterrupts \/ Routing
        \/ Rationing \/ UNCHANGED vars => UNCHANGED EVENT_WEIGHT /\ asked'.weight = asked.weight
    BY DEF Typed, AskedTypeOK, Switching, Enable, Disable, Pulsing, Pulse0, Pulse1,
       SelectingMode, select_test_mode, MaskingInterrupts, pmu_overflow_enable_interrupt,
       pmu_overflow_disable_interrupt, Routing, pmu_configure_crossbar,
       Rationing, pmu_mccu_set_quota_limit, vars, registers
  <2>. QED  BY <2>1, <2>2, <2>3, <2>4, Steps
<1>. QED  BY <1>1, <1>2, InitTyped, StepTyped, PTL DEF SafeSUSpec

\* Every part is on exactly if the last call about it switched it on, where the
\* mask of the update bits ends below the switch of the RDC.
THEOREM SwitchesObeyed ==
  ASSUME MCCU_N_CORES >= 6
  PROVE  SafeSUSpec => []SwitchesAsAsked
<1>1. Init => SwitchesAsAsked
  BY DEF Init, NothingAsked, SwitchesAsAsked, IsOn, CfgOf
<1>2. Typed /\ SwitchesAsAsked /\ [Next]_vars => SwitchesAsAsked'
  <2> SUFFICES ASSUME Typed, SwitchesAsAsked, [Next]_vars  PROVE SwitchesAsAsked'
    OBVIOUS
  <2>. USE DEF SwitchesAsAsked, IsOn, CfgOf
  <2>1. CASE zero_all_pmu_regs
    BY <2>1 DEF zero_all_pmu_regs, NothingAsked
  <2>2. CASE Switching
    <3>1. PICK f \in Features : Enable(f) \/ Disable(f)
      BY <2>2 DEF Switching
    <3>2. CASE Enable(f)
      <4>1. asked'.on = asked.on \cup {f}
        BY <3>2 DEF Enable, Typed, AskedTypeOK
      <4>. QED  BY <3>2, <4>1, SwitchValues, Numbers DEF Enable, Features
    <3>3. CASE Disable(f)
      <4>1. asked'.on = asked.on \ {f}
        BY <3>3 DEF Disable, Typed, AskedTypeOK
      <4>. QED  BY <3>3, <4>1, SwitchValues, Numbers DEF Disable, Features
    <3>. QED  BY <3>1, <3>2, <3>3
  <2>3. CASE Pulsing
    BY <2>3, SwitchValues, Numbers DEF Pulsing, Pulse0, Pulse1, Pulse, Features
  <2>4. CASE SelectingMode
    <3>1. PICK mode \in DOMAIN ModeBits : select_test_mode(mode)
      BY <2>4 DEF SelectingMode
    <3>2. ModeBits[mode] \subseteq {28, 29, 30, 31}
      BY ModeValues DEF ModeField
    <3>3. asked'.on = asked.on
      BY <3>1 DEF select_test_mode, Typed, AskedTypeOK
    <3>. QED  BY <3>1, <3>2, <3>3, SwitchValues DEF select_test_mode, ModeField, Features
  <2>5. CASE UNCHANGED <<PMUCFG0, PMUCFG1>> /\ asked'.on = asked.on
    BY <2>5
  <2>6. MaskingInterrupts \/ Routing \/ Weighting \/ UNCHANGED vars
          => UNCHANGED <<PMUCFG0, PMUCFG1>> /\ asked'.on = asked.on
    BY DEF Typed, AskedTypeOK, MaskingInterrupts, pmu_overflow_enable_interrupt,
       pmu_overflow_disable_interrupt, Routing, pmu_configure_crossbar, Weighting,
       pmu_mccu_set_event_weigths, vars, registers
  <2>7. CASE Rationing
    <3>1. PICK core \in Cores, quota \in Quotas : pmu_mccu_set_quota_limit(core, quota)
      BY <2>7 DEF Rationing
    <3>2. core \in Nat /\ core < MCCU_N_CORES
      BY ArgumentAssumption, Numbers
    <3>3. \A b \in {0, 31, RdcEnable} : b # MccuUpdate(core) /\ b \notin UpdateMask
      BY <3>2, Numbers DEF MccuUpdate, UpdateMask
    <3>4. \A f \in Features \ {"counters", "overflow"} :
            Switch[f] \in PMUCFG1' <=> Switch[f] \in PMUCFG1
      <4>1. \A f \in Features \ {"counters", "overflow"} : Switch[f] \in {0, 31, RdcEnable}
        BY SwitchValues DEF Features
      <4>2. \A b \in {0, 31, RdcEnable} : b \in PMUCFG1' <=> b \in PMUCFG1
        BY <3>1, <3>3 DEF pmu_mccu_set_quota_limit
      <4>. QED  BY <4>1, <4>2
    <3>. QED  BY <3>1, <3>4 DEF pmu_mccu_set_quota_limit
  <2>. QED  BY <2>1, <2>2, <2>3, <2>4, <2>5, <2>6, <2>7, Steps
<1>. QED  BY <1>1, <1>2, InitTyped, StepTyped, PTL DEF SafeSUSpec

\* No reset or update bit stays set and the test mode is the last one selected,
\* where the mask of the update bits reaches all of them.
THEOREM NothingStaysHeld ==
  ASSUME MCCU_N_CORES <= 6
  PROVE  SafeSUSpec => []NothingHeld
<1>. USE DEF NothingHeld, MccuUpdate
<1>0. \A c \in Cores : c \in 0 .. 5 /\ c < MCCU_N_CORES
  BY ArgumentAssumption, Numbers
<1>1. Init => NothingHeld
  BY DEF Init, NothingAsked, ModeBits
<1>2. Typed /\ NothingHeld /\ [Next]_vars => NothingHeld'
  <2> SUFFICES ASSUME Typed, NothingHeld, [Next]_vars  PROVE NothingHeld'
    OBVIOUS
  <2>1. CASE zero_all_pmu_regs
    BY <2>1 DEF zero_all_pmu_regs, NothingAsked, ModeBits
  <2>2. CASE Switching
    <3>1. PICK f \in Features : Enable(f) \/ Disable(f)
      BY <2>2 DEF Switching
    <3>2. asked'.mode = asked.mode
      BY <3>1 DEF Enable, Disable, Typed, AskedTypeOK
    <3>3. /\ f \in {"counters", "overflow"} => Switch[f] \in {0, 2}
          /\ f \notin {"counters", "overflow"} => Switch[f] \in {0, RdcEnable, 31}
      BY <3>1, SwitchValues DEF Features
    <3>. QED  BY <1>0, <3>1, <3>2, <3>3, Numbers DEF Enable, Disable, ModeField
  <2>3. CASE Pulsing
    <3>1. asked' = asked /\ UNCHANGED asked
      BY <2>3 DEF Pulsing, Pulse0, Pulse1
    <3>. QED  BY <1>0, <2>3, <3>1, Numbers DEF Pulsing, Pulse0, Pulse1, Pulse, ModeField
  <2>4. CASE SelectingMode
    <3>1. PICK mode \in DOMAIN ModeBits : select_test_mode(mode)
      BY <2>4 DEF SelectingMode
    <3>2. ModeBits[mode] \subseteq {28, 29, 30, 31}
      BY ModeValues DEF ModeField
    <3>3. asked'.mode = mode
      BY <3>1 DEF select_test_mode, Typed, AskedTypeOK
    <3>. QED  BY <3>1, <3>2, <3>3 DEF select_test_mode, ModeField
  <2>5. CASE UNCHANGED <<PMUCFG0, PMUCFG1>> /\ asked'.mode = asked.mode
    BY <2>5
  <2>6. MaskingInterrupts \/ Routing \/ Weighting \/ UNCHANGED vars
          => UNCHANGED <<PMUCFG0, PMUCFG1>> /\ asked'.mode = asked.mode
    BY DEF Typed, AskedTypeOK, MaskingInterrupts, pmu_overflow_enable_interrupt,
       pmu_overflow_disable_interrupt, Routing, pmu_configure_crossbar, Weighting,
       pmu_mccu_set_event_weigths, vars, registers
  <2>7. CASE Rationing
    <3>1. PICK core \in Cores, quota \in Quotas : pmu_mccu_set_quota_limit(core, quota)
      BY <2>7 DEF Rationing
    <3>. QED  BY <1>0, <3>1, Numbers DEF pmu_mccu_set_quota_limit, UpdateMask
  <2>. QED  BY <2>1, <2>2, <2>3, <2>4, <2>5, <2>6, <2>7, Steps
<1>. QED  BY <1>1, <1>2, InitTyped, StepTyped, PTL DEF SafeSUSpec
=============================================================================
