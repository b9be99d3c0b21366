---------------------------- MODULE WeightMeter ----------------------------
(***************************************************************************)
(* One transaction's meter under any sequence of charges.  The ghosts hold *)
(* what the caller asked for and the meter accepted.                       *)
(***************************************************************************)
EXTENDS Metering

CONSTANTS MaxWeight, Intrinsic,  \* the budget and the weight charged at once
          Units,                 \* the units of one charge
          CommonWeight           \* the weights of one common charge

ASSUME BudgetAssumption ==
  /\ MaxWeight \in Nat /\ Intrinsic \in Nat
  /\ meter_ok(MaxWeight, Intrinsic)
  /\ Units \subseteq Nat /\ CommonWeight \subseteq Nat

VARIABLES meter,
          asked,        \* ghost: units accepted, by domain
          common        \* ghost: common weight accepted

meter_vars == <<meter, asked, common>>

MeterInit ==
  /\ meter = meter_new(MaxWeight, Intrinsic)
  /\ asked = [d \in ResourceDomain |-> 0]
  /\ common = 0

Charge(d, units) ==
  /\ meter' = charge(meter, d, units)
  /\ asked' = IF meter'.exhausted THEN asked
              ELSE [asked EXCEPT ![d] = @ + units]
  /\ UNCHANGED common

ChargeCommon(weight) ==
  /\ meter' = charge_common(meter, weight)
  /\ common' = IF meter'.exhausted THEN common ELSE common + weight
  /\ UNCHANGED asked

MeterNext ==
  \/ \E d \in ResourceDomain, u \in Units : Charge(d, u)
  \/ \E w \in CommonWeight : ChargeCommon(w)

MeterSpec == MeterInit /\ [][MeterNext]_meter_vars

-----------------------------------------------------------------------------
Meter == [counters : [ResourceDomain -> Nat], consumed : Nat,
          max_weight : {MaxWeight}, exhausted : BOOLEAN]

MeterTypeOK ==
  /\ meter \in Meter
  /\ asked \in [ResourceDomain -> Nat]
  /\ common \in Nat

(* The meter never passes its budget, and an exhausted one stands exactly   *)
(* at it: an exhausted transaction pays for its whole budget (exhaust).     *)
WithinBudget ==
  /\ meter.consumed <= MaxWeight
  /\ meter.exhausted => meter.consumed = MaxWeight

(* What is consumed depends on the totals alone, not on how the work was    *)
(* cut into charges: each domain's units are rounded up once (charge).      *)
SplitIndependent ==
  ~meter.exhausted =>
    meter.consumed = Intrinsic + common
      + normalized_weight("native", asked["native"])
      + normalized_weight("evm", asked["evm"])
      + normalized_weight("wasm", asked["wasm"])

(* No charge lowers the meter, and an exhausted meter stays as it is.       *)
NeverRefunds ==
  [][/\ meter'.consumed >= meter.consumed
     /\ meter.exhausted => meter' = meter]_meter_vars
=============================================================================
