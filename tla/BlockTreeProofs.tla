-------------------------- MODULE BlockTreeProofs --------------------------
(***************************************************************************)
(* Facts about every block tree that satisfies the assumptions of          *)
(* BlockTree: how ancestors, heights and cumulative work are related.      *)
(*                                                                         *)
(* Each is an induction along Parent.  It is carried out as the search for *)
(* a lowest counterexample, which the well-foundedness of Nat provides.    *)
(***************************************************************************)
EXTENDS BlockTree, TLAPS, WellFoundedInduction

\* A non-empty set of blocks has a lowest member.
LEMMA LowestBlock ==
    ASSUME NEW T \in SUBSET Block, T # {}
    PROVE  \E b \in T : \A c \in T : Height[b] <= Height[c]
<1> DEFINE H == {Height[b] : b \in T}
<1>1. H \in SUBSET Nat /\ H # {}
  BY HeightAssumption
<1>2. IsWellFoundedOn(OpToRel(<, Nat), Nat)
  BY NatLessThanWellFounded
<1>3. \E n \in H : \A k \in H : ~(<<k, n>> \in OpToRel(<, Nat))
  <2> HIDE DEF H
  <2> QED BY <1>1, <1>2, WFMin
<1>4. \A n, k \in H : ~(<<k, n>> \in OpToRel(<, Nat)) => n <= k
  BY <1>1 DEF OpToRel
<1> QED
  BY <1>3, <1>4

\* A set of blocks that holds the anchor, and every block whose parent it
\* holds, is the whole tree: the induction principle of the tree.
LEMMA TreeInduction ==
    ASSUME NEW S, Anchor \in S,
           \A b \in Block \ {Anchor} : Parent[b] \in S => b \in S
    PROVE  Block \subseteq S
<1> SUFFICES ASSUME Block \ S # {} PROVE FALSE
  OBVIOUS
<1>1. PICK b \in Block \ S : \A c \in Block \ S : Height[b] <= Height[c]
  BY LowestBlock
<1>2. b # Anchor /\ Parent[b] \in Block
  BY ParentAssumption
<1>3. Parent[b] \notin S
  BY <1>2
<1>4. Height[b] <= Height[Parent[b]]
  BY <1>1, <1>2, <1>3
<1> QED
  BY <1>2, <1>4, HeightAssumption

\* A block is its own ancestor, and the anchor is an ancestor of every block.
LEMMA AncestorEnds ==
    \A b \in Block : b \in Ancestors[b] /\ Anchor \in Ancestors[b]
<1> DEFINE S == {b \in Block : b \in Ancestors[b] /\ Anchor \in Ancestors[b]}
<1>1. Anchor \in S
  BY ParentAssumption, AncestorsAssumption
<1>2. \A b \in Block \ {Anchor} : Parent[b] \in S => b \in S
  BY ParentAssumption, AncestorsAssumption
<1>3. Block \subseteq S
  <2> HIDE DEF S
  <2> QED BY <1>1, <1>2, TreeInduction
<1> QED
  BY <1>3

\* An ancestor is lower than the block, unless it is the block, and has no
\* more work; its own ancestors are ancestors of the block.
LEMMA AncestorOrder ==
    \A b \in Block : \A a \in Ancestors[b] :
        /\ a \in Block
        /\ Height[a] <= Height[b]
        /\ Height[a] = Height[b] => a = b
        /\ CumWork[a] <= CumWork[b]
        /\ Ancestors[a] \subseteq Ancestors[b]
<1> DEFINE Below(a, b) ==
             /\ a \in Block
             /\ Height[a] <= Height[b]
             /\ Height[a] = Height[b] => a = b
             /\ CumWork[a] <= CumWork[b]
             /\ Ancestors[a] \subseteq Ancestors[b]
           S == {b \in Block : \A a \in Ancestors[b] : Below(a, b)}
<1>1. Anchor \in S
  BY ParentAssumption, AncestorsAssumption, HeightAssumption, CumWorkAssumption
<1>2. \A b \in Block \ {Anchor} : Parent[b] \in S => b \in S
  <2> SUFFICES ASSUME NEW b \in Block \ {Anchor}, Parent[b] \in S,
                      NEW a \in Ancestors[b]
               PROVE  Below(a, b)
    OBVIOUS
  <2>1. Parent[b] \in Block /\ Height[b] = Height[Parent[b]] + 1
    BY ParentAssumption, HeightAssumption
  <2>2. CumWork[Parent[b]] <= CumWork[b]
    BY <2>1, CumWorkAssumption, WorkAssumption
  <2>3. CASE a = b
    BY <2>3, HeightAssumption, CumWorkAssumption
  <2>4. CASE a \in Ancestors[Parent[b]]
    <3>1. Below(a, Parent[b])
      BY <2>4
    <3>2. Height[a] \in Nat /\ Height[Parent[b]] \in Nat /\ CumWork[a] \in Nat
          /\ CumWork[b] \in Nat /\ CumWork[Parent[b]] \in Nat
      BY <3>1, <2>1, HeightAssumption, CumWorkAssumption
    <3>3. Ancestors[Parent[b]] \subseteq Ancestors[b]
      BY AncestorsAssumption
    <3> QED
      BY <3>1, <3>2, <3>3, <2>1, <2>2
  <2> QED
    BY <2>3, <2>4, AncestorsAssumption
<1>3. Block \subseteq S
  <2> HIDE DEF S
  <2> QED BY <1>1, <1>2, TreeInduction
<1> QED
  BY <1>3

\* Of two ancestors of a block the lower is an ancestor of the higher.
LEMMA AncestorsAreLinear ==
    \A b \in Block : \A a, x \in Ancestors[b] :
        Height[a] <= Height[x] => a \in Ancestors[x]
<1> DEFINE S == {b \in Block : \A a, x \in Ancestors[b] :
                                  Height[a] <= Height[x] => a \in Ancestors[x]}
<1>1. Anchor \in S
  BY ParentAssumption, AncestorsAssumption
<1>2. \A b \in Block \ {Anchor} : Parent[b] \in S => b \in S
  <2> SUFFICES ASSUME NEW b \in Block \ {Anchor}, Parent[b] \in S,
                      NEW a \in Ancestors[b], NEW x \in Ancestors[b],
                      Height[a] <= Height[x]
               PROVE  a \in Ancestors[x]
    OBVIOUS
  <2>1. CASE x = b
    BY <2>1
  <2>2. CASE x \in Ancestors[Parent[b]]
    <3>1. Parent[b] \in Block /\ Height[b] = Height[Parent[b]] + 1
      BY ParentAssumption, HeightAssumption
    <3>2. Height[x] <= Height[Parent[b]] /\ x \in Block
      BY <2>2, <3>1, AncestorOrder
    <3>3. a # b
      BY <3>1, <3>2, HeightAssumption
    <3>4. a \in Ancestors[Parent[b]]
      BY <3>3, AncestorsAssumption
    <3> QED
      BY <2>2, <3>4
  <2> QED
    BY <2>1, <2>2, AncestorsAssumption
<1>3. Block \subseteq S
  <2> HIDE DEF S
  <2> QED BY <1>1, <1>2, TreeInduction
<1> QED
  BY <1>3

=============================================================================
