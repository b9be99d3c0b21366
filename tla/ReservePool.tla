----------------------------- MODULE ReservePool -----------------------------
(***************************************************************************)
(* What the execution reserve promises: one pool of money.  A block adds   *)
(* its deposits and takes its withdrawals and fees; undoing the block      *)
(* brings the earlier amount back.                                         *)
(***************************************************************************)
EXTENDS Integers, Sequences

CONSTANT MAX_SUPPLY

VARIABLES
    amounts,     \* the amounts of the pool, the present one last
    flows        \* the deposits, withdrawals and fees of the blocks in force

Pool == amounts[Len(amounts)]

Init == flows = << >> /\ \E a \in 0 .. MAX_SUPPLY : amounts = <<a>>

Transition ==
    \E deposit, withdrawal, fee \in 0 .. 2 * MAX_SUPPLY :
        LET new == Pool + deposit - withdrawal - fee
        IN  /\ new \in 0 .. MAX_SUPPLY
            /\ amounts' = Append(amounts, new)
            /\ flows' = Append(flows, <<deposit, withdrawal, fee>>)

Undo ==
    /\ flows # << >>
    /\ amounts' = SubSeq(amounts, 1, Len(amounts) - 1)
    /\ flows' = SubSeq(flows, 1, Len(flows) - 1)

Next == Transition \/ Undo

Spec == Init /\ [][Next]_<<amounts, flows>>

=============================================================================
