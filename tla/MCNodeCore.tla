----------------------------- MODULE MCNodeCore -----------------------------
(***************************************************************************)
(* A small node for TLC: two branches of the same length, the second one   *)
(* heavier by its first block.                                             *)
(*   0 - 1 - 2 - 3                                                         *)
(*        \- 4 - 5                                                        *)
(***************************************************************************)
EXTENDS NodeCore

Blocks == 0 .. 5
ParentOf == (1 :> 0) @@ (2 :> 1) @@ (3 :> 2) @@ (4 :> 1) @@ (5 :> 4)
WorkOf == [b \in Blocks \ {0} |-> IF b = 4 THEN 3 ELSE 1]
HeightOf == [b \in Blocks |-> <<0, 1, 2, 3, 2, 3>>[b + 1]]
CumWorkOf == [b \in Blocks |-> <<0, 1, 2, 3, 4, 5>>[b + 1]]
AncestorsOf ==
    [b \in Blocks |-> <<{0}, {0, 1}, {0, 1, 2}, {0, 1, 2, 3}, {0, 1, 4},
                        {0, 1, 4, 5}>>[b + 1]]
SizeOf ==
    [Headers |-> 1, Block |-> 3, Transaction |-> 2, Read |-> 1]

Item(kind, items) == [kind |-> kind, items |-> items]

(* Bodies with the headers of one branch, headers of two branches, or        *)
(* headers and a transaction.                                               *)
Blockwise ==
    { Item("Headers", <<4, 5>>), Item("Block", <<1>>), Item("Block", <<2>>),
      Item("Block", <<4>>) }
Headerwise == { Item("Headers", <<1, 2, 3>>), Item("Headers", <<4, 5>>) }
Mixed == { Item("Headers", <<1, 2, 3>>), Item("Transaction", <<1>>) }
Workloads == {Blockwise, Headerwise, Mixed}

(* A requester on the first branch, or at the anchor.                       *)
AnyRequest == { [locator |-> {3, 0}, stop |-> {2}] }

=============================================================================
