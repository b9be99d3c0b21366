------------------------- MODULE WeightMeterProofs -------------------------
(***************************************************************************)
(* The meter's properties for every budget, schedule and sequence of       *)
(* charges.                                                                *)
(***************************************************************************)
EXTENDS WeightMeter, TLAPS

(* A weight is a natural number (normalized_weight rounds a quotient up).   *)
LEMMA WeightIsNat ==
  ASSUME NEW d \in ResourceDomain, NEW units \in Nat
  PROVE  normalized_weight(d, units) \in Nat
<1> DEFINE n == Ratio[d].num
           q == Ratio[d].den
           product == units * n
<1>1. n \in Nat \ {0} /\ q \in Nat \ {0}
  BY MeterAssumption
<1>2. product \in Nat
  BY <1>1
<1> HIDE DEF product, n, q
<1>3. product \div q \in Nat
  BY <1>1, <1>2
<1>4. product \div q + (IF product % q = 0 THEN 0 ELSE 1) \in Nat
  BY <1>3
<1> QED
  BY <1>4 DEF normalized_weight, product, n, q

(* The counters are the units accepted, which makes the sum inductive.      *)
IInv ==
  /\ MeterTypeOK
  /\ WithinBudget
  /\ SplitIndependent
  /\ ~meter.exhausted => meter.counters = asked

LEMMA InitIInv == MeterInit => IInv
<1> SUFFICES ASSUME MeterInit PROVE IInv
  OBVIOUS
<1>1. MeterTypeOK
  BY BudgetAssumption DEF MeterInit, MeterTypeOK, Meter, meter_new
<1>2. WithinBudget
  BY BudgetAssumption DEF MeterInit, WithinBudget, meter_new, meter_ok
<1>3. \A d \in ResourceDomain : normalized_weight(d, 0) = 0
  <2> SUFFICES ASSUME NEW d \in ResourceDomain
               PROVE  normalized_weight(d, 0) = 0
    OBVIOUS
  <2>1. Ratio[d].num \in Nat /\ Ratio[d].den \in Nat \ {0}
    BY MeterAssumption
  <2>2. 0 * Ratio[d].num = 0
    BY <2>1
  <2>3. 0 \div Ratio[d].den = 0 /\ 0 % Ratio[d].den = 0
    BY <2>1
  <2> QED
    BY <2>2, <2>3 DEF normalized_weight
<1>4. SplitIndependent
  BY <1>3, BudgetAssumption
     DEF MeterInit, SplitIndependent, meter_new, ResourceDomain
<1> QED
  BY <1>1, <1>2, <1>4 DEF MeterInit, IInv, meter_new

(* A charge leaves the meter as it is, exhausts it, or adds the difference  *)
(* of two weights.                                                          *)
LEMMA ChargeCases ==
  ASSUME MeterTypeOK, WithinBudget, NEW d \in ResourceDomain, NEW u \in Nat
  PROVE  \/ charge(meter, d, u) = meter /\ (meter.exhausted \/ u = 0)
         \/ charge(meter, d, u) = exhaust(meter) /\ ~meter.exhausted
         \/ /\ ~meter.exhausted
            /\ delta(meter, d, u) >= 0
            /\ delta(meter, d, u) <= meter.max_weight - meter.consumed
            /\ charge(meter, d, u) =
                 [meter EXCEPT !.counters[d] = @ + u,
                               !.consumed = @ + delta(meter, d, u)]
<1>1. normalized_weight(d, meter.counters[d]) \in Nat
  BY WeightIsNat DEF MeterTypeOK, Meter
<1>2. normalized_weight(d, meter.counters[d] + u) \in Nat
  BY WeightIsNat DEF MeterTypeOK, Meter
<1>3. delta(meter, d, u) \in Int
  BY <1>1, <1>2 DEF delta
<1>4. meter.max_weight - meter.consumed \in Int
  BY BudgetAssumption DEF MeterTypeOK, Meter
<1> QED
  BY <1>3, <1>4 DEF charge

(* An exhausted meter keeps the invariant, whatever was asked.              *)
LEMMA ExhaustIInv ==
  ASSUME IInv, meter' = exhaust(meter), asked' = asked, common' = common
  PROVE  IInv' /\ meter'.consumed >= meter.consumed
<1>1. MaxWeight \in Nat
  BY BudgetAssumption
<1>2. meter \in Meter /\ meter.consumed <= MaxWeight
  BY DEF IInv, MeterTypeOK, WithinBudget
<1>3. meter' = [meter EXCEPT !.consumed = meter.max_weight, !.exhausted = TRUE]
  BY DEF exhaust
<1>4. meter' \in Meter /\ meter'.exhausted /\ meter'.consumed = MaxWeight
  BY <1>1, <1>2, <1>3 DEF Meter
<1>5. MeterTypeOK'
  BY <1>4 DEF IInv, MeterTypeOK
<1>6. WithinBudget' /\ SplitIndependent'
  BY <1>1, <1>4 DEF WithinBudget, SplitIndependent
<1> QED
  BY <1>1, <1>2, <1>4, <1>5, <1>6 DEF IInv, Meter

LEMMA ChargeIInv ==
  ASSUME IInv, NEW d \in ResourceDomain, NEW u \in Units, Charge(d, u)
  PROVE  /\ IInv'
         /\ meter'.consumed >= meter.consumed
         /\ meter.exhausted => meter' = meter
<1> u \in Nat
  BY BudgetAssumption
<1>1. CASE meter' = meter /\ (meter.exhausted \/ u = 0)
  <2>1. asked' = asked
    BY <1>1 DEF IInv, MeterTypeOK, Charge
  <2> QED
    BY <1>1, <2>1 DEF IInv, MeterTypeOK, Meter, WithinBudget, SplitIndependent, Charge
<1>2. CASE meter' = exhaust(meter) /\ ~meter.exhausted
  <2>1. meter'.exhausted
    BY <1>2 DEF exhaust, IInv, MeterTypeOK, Meter
  <2> QED
    BY <1>2, <2>1, ExhaustIInv DEF Charge
<1>3. CASE /\ ~meter.exhausted
           /\ delta(meter, d, u) >= 0
           /\ delta(meter, d, u) <= meter.max_weight - meter.consumed
           /\ meter' = [meter EXCEPT !.counters[d] = @ + u,
                                     !.consumed = @ + delta(meter, d, u)]
  <2> DEFINE w(x) == normalized_weight(x, asked[x])
             new == normalized_weight(d, asked[d] + u)
  <2>1. asked' = [asked EXCEPT ![d] = @ + u] /\ ~meter'.exhausted
    BY <1>3 DEF Charge, IInv, MeterTypeOK, Meter
  <2>2. meter'.counters = asked'
    BY <1>3, <2>1 DEF IInv, MeterTypeOK, Meter
  <2>3. /\ w("native") \in Nat /\ w("evm") \in Nat /\ w("wasm") \in Nat
        /\ new \in Nat
    BY WeightIsNat DEF IInv, MeterTypeOK, ResourceDomain
  <2>4. delta(meter, d, u) = new - w(d)
    BY <1>3 DEF delta, IInv
  <2>5. meter'.consumed = meter.consumed + (new - w(d))
    BY <1>3, <2>4 DEF IInv, MeterTypeOK, Meter
  <2>6. \A x \in ResourceDomain :
          normalized_weight(x, asked'[x]) = IF x = d THEN new ELSE w(x)
    BY <2>1 DEF IInv, MeterTypeOK
  <2>7. meter.consumed = Intrinsic + common + w("native") + w("evm") + w("wasm")
    BY <1>3 DEF IInv, SplitIndependent
  <2> HIDE DEF w, new
  <2>8. common' = common /\ common \in Nat /\ Intrinsic \in Nat
    BY BudgetAssumption DEF Charge, IInv, MeterTypeOK
  <2>9. meter'.consumed = Intrinsic + common'
          + normalized_weight("native", asked'["native"])
          + normalized_weight("evm", asked'["evm"])
          + normalized_weight("wasm", asked'["wasm"])
    BY <2>3, <2>5, <2>6, <2>7, <2>8 DEF ResourceDomain
  <2>10. meter'.consumed \in Nat /\ meter'.consumed <= MaxWeight
         /\ meter'.consumed >= meter.consumed
    <3>1. meter.consumed \in Nat /\ meter.max_weight = MaxWeight
      BY DEF IInv, MeterTypeOK, Meter
    <3>2. w(d) \in Nat
      BY <2>3 DEF ResourceDomain
    <3>3. new - w(d) >= 0 /\ new - w(d) <= MaxWeight - meter.consumed
      BY <1>3, <2>4, <3>1
    <3> QED
      BY <2>3, <2>5, <3>1, <3>2, <3>3, BudgetAssumption
  <2>11. MeterTypeOK'
    <3>1. asked' \in [ResourceDomain -> Nat]
      BY <2>1 DEF IInv, MeterTypeOK
    <3>2. meter' = [meter EXCEPT !.counters = asked',
                                 !.consumed = meter'.consumed]
      BY <1>3, <2>2 DEF IInv, MeterTypeOK, Meter
    <3>3. meter' \in Meter
      BY <2>10, <3>1, <3>2 DEF IInv, MeterTypeOK, Meter
    <3> QED
      BY <2>8, <3>1, <3>3 DEF MeterTypeOK
  <2> QED
    BY <1>3, <2>1, <2>2, <2>9, <2>10, <2>11 DEF IInv, WithinBudget, SplitIndependent
<1>4. meter' = charge(meter, d, u)
  BY DEF Charge
<1> QED
  BY <1>1, <1>2, <1>3, <1>4, ChargeCases DEF IInv

LEMMA ChargeCommonIInv ==
  ASSUME IInv, NEW c \in CommonWeight, ChargeCommon(c)
  PROVE  /\ IInv'
         /\ meter'.consumed >= meter.consumed
         /\ meter.exhausted => meter' = meter
<1>1. c \in Nat /\ MaxWeight \in Nat /\ Intrinsic \in Nat
  BY BudgetAssumption
<1>2. \A x \in ResourceDomain : normalized_weight(x, asked[x]) \in Nat
  BY WeightIsNat DEF IInv, MeterTypeOK
<1>3. CASE meter.exhausted
  BY <1>3 DEF IInv, MeterTypeOK, Meter, WithinBudget, SplitIndependent,
              ChargeCommon, charge_common
<1>4. CASE ~meter.exhausted /\ c > meter.max_weight - meter.consumed
  <2>1. meter' = exhaust(meter)
    BY <1>4 DEF ChargeCommon, charge_common
  <2>2. meter'.exhausted
    BY <2>1 DEF exhaust, IInv, MeterTypeOK, Meter
  <2> QED
    BY <1>4, <2>1, <2>2, ExhaustIInv DEF ChargeCommon
<1>5. CASE ~meter.exhausted /\ ~(c > meter.max_weight - meter.consumed)
  <2>1. /\ meter' = [meter EXCEPT !.consumed = @ + c]
        /\ asked' = asked /\ common' = common + c
    BY <1>5 DEF ChargeCommon, charge_common, IInv, MeterTypeOK, Meter
  <2>2. meter.consumed \in Nat /\ meter.max_weight = MaxWeight /\ common \in Nat
    BY DEF IInv, MeterTypeOK, Meter
  <2>3. MeterTypeOK'
    BY <1>1, <2>1, <2>2 DEF IInv, MeterTypeOK, Meter
  <2>4. WithinBudget' /\ meter'.consumed >= meter.consumed
    BY <1>1, <1>5, <2>1, <2>2 DEF IInv, MeterTypeOK, Meter, WithinBudget
  <2>5. SplitIndependent'
    BY <1>1, <1>2, <1>5, <2>1, <2>2
       DEF IInv, MeterTypeOK, Meter, SplitIndependent, ResourceDomain
  <2> QED
    BY <1>5, <2>1, <2>3, <2>4, <2>5 DEF IInv, MeterTypeOK, Meter
<1> QED
  BY <1>3, <1>4, <1>5

LEMMA NextIInv ==
  ASSUME IInv, [MeterNext]_meter_vars
  PROVE  /\ IInv'
         /\ [/\ meter'.consumed >= meter.consumed
             /\ meter.exhausted => meter' = meter]_meter_vars
<1>1. CASE MeterNext
  BY <1>1, ChargeIInv, ChargeCommonIInv DEF MeterNext
<1>2. CASE UNCHANGED meter_vars
  BY <1>2 DEF meter_vars, IInv, MeterTypeOK, Meter, WithinBudget, SplitIndependent
<1> QED
  BY <1>1, <1>2

(* For every budget and schedule the meter stays within its budget, and     *)
(* stands at it once exhausted (exhaust).                                   *)
THEOREM MeterWithinBudget == MeterSpec => []WithinBudget
<1>1. MeterInit => IInv
  BY InitIInv
<1>2. IInv /\ [MeterNext]_meter_vars => IInv'
  BY NextIInv
<1>3. IInv => WithinBudget
  BY DEF IInv
<1> QED
  BY <1>1, <1>2, <1>3, PTL DEF MeterSpec

(* For every schedule the weight consumed depends on the total units only,  *)
(* however they were cut into charges (charge).                             *)
THEOREM MeterSplitIndependent == MeterSpec => []SplitIndependent
<1>1. MeterInit => IInv
  BY InitIInv
<1>2. IInv /\ [MeterNext]_meter_vars => IInv'
  BY NextIInv
<1>3. IInv => SplitIndependent
  BY DEF IInv
<1> QED
  BY <1>1, <1>2, <1>3, PTL DEF MeterSpec

(* No step lowers the meter and none changes an exhausted one (charge,      *)
(* charge_common).                                                          *)
THEOREM MeterNeverRefunds == MeterSpec => NeverRefunds
<1>1. MeterInit => IInv
  BY InitIInv
<1>2. IInv /\ [MeterNext]_meter_vars
        => /\ IInv'
           /\ [/\ meter'.consumed >= meter.consumed
               /\ meter.exhausted => meter' = meter]_meter_vars
  BY NextIInv
<1> QED
  BY <1>1, <1>2, PTL DEF MeterSpec, NeverRefunds
=============================================================================
