------------------------------ MODULE Metering ------------------------------
(***************************************************************************)
(* The operations of oregon-execution's WeightMeter (weight.rs).  Work is  *)
(* counted in the units of its domain and turned into weight by the        *)
(* domain's ratio, rounded up once over all units of the domain so far.    *)
(*                                                                         *)
(* A meter is a record [counters, consumed, max_weight, exhausted].        *)
(***************************************************************************)
EXTENDS Integers

CONSTANTS U64,   \* the largest u64
          Ratio  \* [ResourceDomain -> [num, den]], WeightRatio

ResourceDomain == {"native", "evm", "wasm"}

ASSUME MeterAssumption ==
  /\ U64 \in Nat
  /\ Ratio \in [ResourceDomain -> [num : Nat \ {0}, den : Nat \ {0}]]

normalized_weight(d, units) ==
  LET product == units * Ratio[d].num
  IN product \div Ratio[d].den
       + (IF product % Ratio[d].den = 0 THEN 0 ELSE 1)

(* WeightMeter::new; InvalidBudget unless the intrinsic weight fits.        *)
meter_ok(max, intrinsic) == max > 0 /\ intrinsic <= max

meter_new(max, intrinsic) ==
  [counters |-> [d \in ResourceDomain |-> 0], consumed |-> intrinsic,
   max_weight |-> max, exhausted |-> FALSE]

exhaust(m) == [m EXCEPT !.consumed = m.max_weight, !.exhausted = TRUE]

(* Mutant: every charge is rounded up.                                      *)
DeltaPerCharge(m, d, units) == normalized_weight(d, units)

(* The weight a charge adds.                                                *)
delta(m, d, units) ==
  normalized_weight(d, m.counters[d] + units)
    - normalized_weight(d, m.counters[d])

Overflows(m, d, units) ==
  \/ m.counters[d] + units > U64
  \/ normalized_weight(d, m.counters[d]) > U64
  \/ normalized_weight(d, m.counters[d] + units) > U64

(* WeightMeter::charge                                                      *)
charge(m, d, units) ==
  IF m.exhausted \/ units = 0 THEN m
  ELSE IF \/ Overflows(m, d, units)
          \/ delta(m, d, units) < 0
          \/ delta(m, d, units) > m.max_weight - m.consumed
    THEN exhaust(m)
  ELSE [m EXCEPT !.counters[d] = @ + units,
                 !.consumed = @ + delta(m, d, units)]

(* WeightMeter::charge_common                                               *)
charge_common(m, weight) ==
  IF m.exhausted THEN m
  ELSE IF weight > m.max_weight - m.consumed THEN exhaust(m)
  ELSE [m EXCEPT !.consumed = @ + weight]
=============================================================================
