--------------------------- MODULE MCChainState ---------------------------
(***************************************************************************)
(* Small block trees for TLC.  A block is a number, 0 the anchor.          *)
(***************************************************************************)
EXTENDS ChainState, TLC

\* Height, cumulative work and ancestors, computed down a parent function.
HeightIn(parent) ==
    LET h[b \in DOMAIN parent \cup {0}] ==
            IF b = 0 THEN 0 ELSE 1 + h[parent[b]]
    IN  h
CumWorkIn(parent, work) ==
    LET w[b \in DOMAIN parent \cup {0}] ==
            IF b = 0 THEN 0 ELSE work[b] + w[parent[b]]
    IN  w
AncestorsIn(parent) ==
    LET a[b \in DOMAIN parent \cup {0}] ==
            IF b = 0 THEN {0} ELSE {b} \cup a[parent[b]]
    IN  a

\* A branch that leaves the main chain low and outgrows it, and a late fork:
\*   0 - 1 - 2 - 3 - 4
\*        \   \- 9
\*         \- 5 - 6 - 7 - 8
WideBlocks == 0 .. 9
WideParent == (1 :> 0) @@ (2 :> 1) @@ (3 :> 2) @@ (4 :> 3) @@ (5 :> 1)
              @@ (6 :> 5) @@ (7 :> 6) @@ (8 :> 7) @@ (9 :> 2)
WideHeight == HeightIn(WideParent)
WideAncestors == AncestorsIn(WideParent)

\* Every block has the same work: a heavier chain is a longer one.
WideEqualWork == [b \in WideBlocks \ {0} |-> 1]
WideEqualCumWork == CumWorkIn(WideParent, WideEqualWork)

\* Block 9 outweighs 3 and 4 together: a heavier chain may be shorter.
WideMixedWork == [WideEqualWork EXCEPT ![9] = 3]
WideMixedCumWork == CumWorkIn(WideParent, WideMixedWork)

\* Body 6, inside the long branch, does not connect.
WideConnects == WideBlocks \ {6}

\* Forks that are never deeper than two when they outweigh the tip:
\*   0 - 1 - 2 - 3 - 4
\*        \   \- 6 - 7
\*         \- 5
LowBlocks == 0 .. 7
LowParent == (1 :> 0) @@ (2 :> 1) @@ (3 :> 2) @@ (4 :> 3) @@ (5 :> 1)
             @@ (6 :> 2) @@ (7 :> 6)
LowHeight == HeightIn(LowParent)
LowAncestors == AncestorsIn(LowParent)
LowWork == [b \in LowBlocks \ {0} |-> 1]
LowCumWork == CumWorkIn(LowParent, LowWork)

=============================================================================
