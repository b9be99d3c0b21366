----------------------------- MODULE BlockTree -----------------------------
(***************************************************************************)
(* The blocks a node may ever hear of, as a constant tree.                 *)
(*                                                                         *)
(* A block is its identifier: the header fixes the parent, and the body is *)
(* the one its transaction root commits to (a body with another root is    *)
(* outside this model; connect_block is what compares the two).  What      *)
(* chainstate derives from a header when it stores an index record         *)
(* (height, cumulative work) is therefore a constant of the block, and     *)
(* validate_parent_child and checked_index recompute exactly these         *)
(* equations.  Headers that fail the consensus rules leave no trace in the *)
(* node and are not members of Block.                                      *)
(***************************************************************************)
EXTENDS Naturals

CONSTANTS
    Block,      \* block identifiers, the configured anchor included
    Anchor,     \* the height-zero anchor header of ChainConfig
    Parent,     \* header.previous_block
    Work,       \* block_work(target of the header)
    Height,     \* BlockIndexRecord.height
    CumWork,    \* BlockIndexRecord.cumulative_work
    Ancestors,  \* the block and all its ancestors, down to the anchor
    Connects    \* blocks whose body connect_block accepts on their parent

ASSUME ParentAssumption ==
    /\ Anchor \in Block
    /\ Parent \in [Block \ {Anchor} -> Block]

ASSUME WorkAssumption ==
    Work \in [Block \ {Anchor} -> Nat \ {0}]

ASSUME HeightAssumption ==
    /\ Height \in [Block -> Nat]
    /\ Height[Anchor] = 0
    /\ \A b \in Block \ {Anchor} : Height[b] = Height[Parent[b]] + 1

ASSUME CumWorkAssumption ==
    /\ CumWork \in [Block -> Nat]
    /\ CumWork[Anchor] = 0
    /\ \A b \in Block \ {Anchor} : CumWork[b] = CumWork[Parent[b]] + Work[b]

ASSUME AncestorsAssumption ==
    /\ Ancestors \in [Block -> SUBSET Block]
    /\ Ancestors[Anchor] = {Anchor}
    /\ \A b \in Block \ {Anchor} : Ancestors[b] = {b} \cup Ancestors[Parent[b]]

ASSUME ConnectsAssumption == Connects \subseteq Block

\* The blocks whose effects the UTXO set at tip b holds.  The anchor is a
\* configuration header without a body, so it has none.
EffectsOf(b) == Ancestors[b] \ {Anchor}

\* Every body from the anchor to b connects.
ValidChain(b) == EffectsOf(b) \subseteq Connects

=============================================================================
