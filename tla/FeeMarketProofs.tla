--------------------------- MODULE FeeMarketProofs ---------------------------
(***************************************************************************)
(* Proofs about FeeMarket for all parameters FeeParametersV1::new accepts. *)
(* The only arithmetic beyond linear is in ShareOfFee: the change is the   *)
(* fee's share distance / target of fee / denominator, rounded down, and   *)
(* the distance is at most the target.                                     *)
(***************************************************************************)
EXTENDS FeeMarket, TLAPS

(* What rounding down means, for divisors that are products too.            *)
LEMMA FloorDivision ==
  ASSUME NEW n \in Nat, NEW d \in Nat \ {0}
  PROVE  /\ n \div d \in Nat
         /\ d * (n \div d) <= n
  OBVIOUS

(* A number of denominators that fit into the fee is at most fee / d.       *)
LEMMA FitsInto ==
  ASSUME NEW n \in Nat, NEW d \in Nat \ {0}, NEW q \in Nat, d * q <= n
  PROVE  q <= n \div d
  OBVIOUS

(* Products of natural numbers and of positive ones.                        *)
LEMMA Products ==
  ASSUME NEW a \in Nat, NEW b \in Nat
  PROVE  /\ a * b \in Nat
         /\ a # 0 /\ b # 0 => a * b # 0
  OBVIOUS

(* A common positive factor is cancelled.                                   *)
LEMMA Cancel ==
  ASSUME NEW t \in Nat \ {0}, NEW x \in Nat, NEW y \in Nat, t * x <= t * y
  PROVE  x <= y
  OBVIOUS

-----------------------------------------------------------------------------
(* The change next_base_fee computes is at most fee / denominator.          *)
LEMMA ShareOfFee ==
  ASSUME NEW b \in Nat, NEW d \in Nat, d <= TargetWeight
  PROVE  /\ (b * d) \div (TargetWeight * AdjustmentDenominator) \in Nat
         /\ (b * d) \div (TargetWeight * AdjustmentDenominator)
              <= b \div AdjustmentDenominator
<1> DEFINE D == AdjustmentDenominator
           T == TargetWeight
           q == (b * d) \div (T * D)
<1>1. D \in Nat \ {0} /\ T \in Nat \ {0}
  BY FeeParameters
<1>2. T * D \in Nat \ {0}
  BY <1>1, Products
<1>3. b * d \in Nat /\ b * T \in Nat /\ b * d <= b * T
  <2>1. b * d \in Nat /\ b * T \in Nat
    BY <1>1, Products
  <2>2. T - d \in Nat
    BY <1>1
  <2>3. b * (T - d) \in Nat
    BY <2>2, Products
  <2>4. b * (T - d) = b * T - b * d
    BY <1>1
  <2> QED
    BY <2>1, <2>3, <2>4
<1>4. q \in Nat /\ (T * D) * q <= b * d
  BY <1>2, <1>3, FloorDivision
<1> HIDE DEF q
<1>5. D * q \in Nat /\ (T * D) * q = T * (D * q) /\ b * T = T * b
  BY <1>1, <1>4
<1>6. T * (D * q) <= T * b
  <2>1. (T * D) * q \in Nat
    BY <1>2, <1>4, Products
  <2> QED
    BY <1>3, <1>4, <1>5, <2>1
<1>7. D * q <= b
  BY <1>1, <1>5, <1>6, Cancel
<1>8. q <= b \div D
  BY <1>1, <1>4, <1>7, FitsInto
<1> QED
  BY <1>4, <1>8 DEF q

(* What a closed block does to the fee.                                     *)
LEMMA CloseMoves ==
  ASSUME NextFeeDefined, CloseBlock
  PROVE  /\ base_fee' \in MinBaseFee..MaxBaseFee
         /\ base_fee' - base_fee
              <= AtLeast(base_fee \div AdjustmentDenominator, 1)
         /\ base_fee - base_fee' <= base_fee \div AdjustmentDenominator
         /\ base_fee' < base_fee => consumed < TargetWeight
         /\ base_fee' > base_fee => consumed > TargetWeight
<1>1. base_fee \in Nat /\ consumed \in Nat
      /\ distance \in Nat /\ distance <= TargetWeight
  BY FeeParameters DEF NextFeeDefined, block_weight_limit, distance
<1>2. change \in Nat /\ change <= base_fee \div AdjustmentDenominator
  BY <1>1, ShareOfFee DEF change
<1>3. base_fee \div AdjustmentDenominator \in Nat
  BY <1>1, FeeParameters, FloorDivision
<1> HIDE DEF change
<1> DEFINE share == base_fee \div AdjustmentDenominator
<1>4. share \in Nat /\ change <= share
  BY <1>2, <1>3
<1> HIDE DEF share
<1>5. base_fee' = next_base_fee
  BY DEF CloseBlock
<1>6. /\ next_base_fee \in MinBaseFee..MaxBaseFee
      /\ next_base_fee - base_fee <= AtLeast(share, 1)
      /\ base_fee - next_base_fee <= share
      /\ next_base_fee < base_fee => consumed < TargetWeight
      /\ next_base_fee > base_fee => consumed > TargetWeight
  BY <1>1, <1>2, <1>4, FeeParameters
  DEF NextFeeDefined, next_base_fee, raised, lowered, AtLeast, AtMost
<1> QED
  BY <1>5, <1>6 DEF share

(* An included transaction leaves the fee alone and stays in the budget.    *)
LEMMA IncludeMoves ==
  ASSUME NextFeeDefined, NEW w \in Weights, Include(w)
  PROVE  NextFeeDefined' /\ base_fee' = base_fee
  BY FeeParameters DEF NextFeeDefined, Include, block_weight_limit

-----------------------------------------------------------------------------
(* Whatever transactions and blocks come, the fee stays within its bounds   *)
(* and the weight within the limit that next_base_fee requires.             *)
THEOREM FeeAlwaysDefined == FeeSpec => []NextFeeDefined
<1>1. FeeInit => NextFeeDefined
  BY FeeParameters DEF FeeInit, NextFeeDefined, block_weight_limit
<1>2. NextFeeDefined /\ [FeeNext]_fee_vars => NextFeeDefined'
  <2> SUFFICES ASSUME NextFeeDefined, [FeeNext]_fee_vars PROVE NextFeeDefined'
    OBVIOUS
  <2>1. ASSUME NEW w \in Weights, Include(w) PROVE NextFeeDefined'
    BY <2>1, IncludeMoves
  <2>2. CASE CloseBlock
    BY <2>2, CloseMoves, FeeParameters
    DEF CloseBlock, NextFeeDefined, block_weight_limit
  <2>3. CASE UNCHANGED fee_vars
    BY <2>3 DEF fee_vars, NextFeeDefined, block_weight_limit
  <2> QED
    BY <2>1, <2>2, <2>3 DEF FeeNext
<1> QED
  BY <1>1, <1>2, PTL DEF FeeSpec

(* No block moves the base fee by more than its share.                      *)
THEOREM FeeMovesSlowly == FeeSpec => BoundedRate
<1>1. NextFeeDefined /\ [FeeNext]_fee_vars =>
        [/\ base_fee' - base_fee
               <= AtLeast(base_fee \div AdjustmentDenominator, 1)
         /\ base_fee - base_fee' <= base_fee \div AdjustmentDenominator]_fee_vars
  <2> SUFFICES ASSUME NextFeeDefined, FeeNext
               PROVE  /\ base_fee' - base_fee
                           <= AtLeast(base_fee \div AdjustmentDenominator, 1)
                      /\ base_fee - base_fee' <= base_fee \div AdjustmentDenominator
    OBVIOUS
  <2>1. base_fee \in Nat /\ base_fee \div AdjustmentDenominator \in Nat
    BY FeeParameters, FloorDivision DEF NextFeeDefined
  <2>2. ASSUME NEW w \in Weights, Include(w)
        PROVE  base_fee' = base_fee
    BY <2>2, IncludeMoves
  <2>3. CASE \E w \in Weights : Include(w)
    BY <2>1, <2>2, <2>3 DEF AtLeast
  <2>4. CASE CloseBlock
    BY <2>4, CloseMoves
  <2> QED
    BY <2>3, <2>4 DEF FeeNext
<1> QED
  BY <1>1, FeeAlwaysDefined, PTL DEF FeeSpec, BoundedRate

(* The fee rises only after a block above the target, falls only below it.  *)
THEOREM FeeFollowsDemand == FeeSpec => FollowsDemand
<1>1. NextFeeDefined /\ [FeeNext]_fee_vars =>
        [/\ base_fee' < base_fee => consumed < TargetWeight
         /\ base_fee' > base_fee => consumed > TargetWeight]_fee_vars
  <2> SUFFICES ASSUME NextFeeDefined, FeeNext
               PROVE  /\ base_fee' < base_fee => consumed < TargetWeight
                      /\ base_fee' > base_fee => consumed > TargetWeight
    OBVIOUS
  <2>1. base_fee \in Nat
    BY FeeParameters DEF NextFeeDefined
  <2>2. ASSUME NEW w \in Weights, Include(w)
        PROVE  base_fee' = base_fee
    BY <2>2, IncludeMoves
  <2>3. CASE \E w \in Weights : Include(w)
    BY <2>1, <2>2, <2>3
  <2>4. CASE CloseBlock
    BY <2>4, CloseMoves
  <2> QED
    BY <2>3, <2>4 DEF FeeNext
<1> QED
  BY <1>1, FeeAlwaysDefined, PTL DEF FeeSpec, FollowsDemand
=============================================================================
