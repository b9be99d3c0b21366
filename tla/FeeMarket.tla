------------------------------ MODULE FeeMarket ------------------------------
(***************************************************************************)
(* The base fee and the weight budget of blocks (execution_resources.rs of *)
(* oregon-consensus).  Transactions are included until the block is        *)
(* closed; its consumed weight and its base fee then give the next block's *)
(* base fee.  Products are taken in u128 by the code and cannot overflow.  *)
(***************************************************************************)
EXTENDS Integers

CONSTANTS
  TargetWeight, MaxTransactionWeight, AdjustmentDenominator,
  MinBaseFee, MaxBaseFee,             \* FeeParametersV1
  Weights                             \* the weights transactions come with

(* FeeParametersV1::new                                                     *)
ASSUME FeeParameters ==
  /\ TargetWeight \in Nat \ {0}
  /\ MaxTransactionWeight \in 1..(2 * TargetWeight)
  /\ AdjustmentDenominator \in Nat /\ AdjustmentDenominator >= 2
  /\ MinBaseFee \in Nat \ {0} /\ MaxBaseFee \in Nat
  /\ MinBaseFee <= MaxBaseFee
  /\ Weights \subseteq Nat

VARIABLES base_fee, consumed

fee_vars == <<base_fee, consumed>>

block_weight_limit == 2 * TargetWeight

FeeInit == base_fee \in MinBaseFee..MaxBaseFee /\ consumed = 0

-----------------------------------------------------------------------------
distance == IF consumed > TargetWeight THEN consumed - TargetWeight
            ELSE TargetWeight - consumed

change ==
  (base_fee * distance) \div (TargetWeight * AdjustmentDenominator)

AtLeast(x, least) == IF x < least THEN least ELSE x

AtMost(x, most) == IF x > most THEN most ELSE x

(* Mutant: the step up is the share alone.                                   *)
RaisedByShare == AtMost(base_fee + change, MaxBaseFee)

(* A block above the target raises the fee by one unit at least.            *)
raised == AtMost(base_fee + AtLeast(change, 1), MaxBaseFee)

lowered == AtLeast(base_fee - change, MinBaseFee)

(* next_base_fee: the fee of the child of a block with this fee and weight. *)
next_base_fee ==
  IF consumed = TargetWeight THEN base_fee
  ELSE IF consumed > TargetWeight THEN raised ELSE lowered

(* BlockWeightBudget::include                                               *)
Include(weight) ==
  /\ weight # 0 /\ weight <= MaxTransactionWeight
  /\ consumed + weight <= block_weight_limit
  /\ consumed' = consumed + weight
  /\ UNCHANGED base_fee

(* The next block: a fresh budget, and a base fee from its parent alone.    *)
CloseBlock ==
  /\ base_fee \in MinBaseFee..MaxBaseFee /\ consumed <= block_weight_limit
  /\ base_fee' = next_base_fee
  /\ consumed' = 0

FeeNext == (\E w \in Weights : Include(w)) \/ CloseBlock

FeeSpec == FeeInit /\ [][FeeNext]_fee_vars

-----------------------------------------------------------------------------
FeeTypeOK == base_fee \in Nat /\ consumed \in Nat

(* Whatever blocks come, next_base_fee can be asked for the block after     *)
(* them: the fee and the weight it is given are in the ranges it requires.  *)
NextFeeDefined ==
  base_fee \in MinBaseFee..MaxBaseFee /\ consumed \in 0..block_weight_limit

(* One block moves the fee by at most a share of it: up by one unit or      *)
(* fee / denominator, down by fee / denominator (next_base_fee).            *)
BoundedRate ==
  [][/\ base_fee' - base_fee <= AtLeast(base_fee \div AdjustmentDenominator, 1)
     /\ base_fee - base_fee' <= base_fee \div AdjustmentDenominator]_fee_vars

(* A block above the target never lowers the fee, one below never raises it.*)
FollowsDemand ==
  [][/\ base_fee' < base_fee => consumed < TargetWeight
     /\ base_fee' > base_fee => consumed > TargetWeight]_fee_vars

Overfull == CloseBlock => consumed > TargetWeight

(* Blocks that stay above the target bring the fee to its ceiling: the step *)
(* of one unit keeps small fees from standing still (next_base_fee).        *)
FullBlocksReachCeiling ==
  <>[][Overfull]_fee_vars /\ []<><<CloseBlock>>_fee_vars => <>[](base_fee = MaxBaseFee)
=============================================================================
