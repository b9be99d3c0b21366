--------------------------- MODULE AcceptedChain ---------------------------
(***************************************************************************)
(* What chainstate promises its callers: a single accepted tip, which only *)
(* ever moves to a strictly heavier chain of valid blocks, and which a     *)
(* stop of the node neither loses nor replaces by a lighter one.           *)
(***************************************************************************)
EXTENDS BlockTree

CONSTANT NoBlock

VARIABLES
    accepted,   \* the tip last reported to a caller
    serving     \* the node takes headers and blocks

Init ==
    /\ accepted = NoBlock
    /\ serving = FALSE

\* b may follow the accepted tip.
Improves(b) ==
    IF accepted = NoBlock
    THEN b = Anchor
    ELSE ValidChain(b) /\ CumWork[b] > CumWork[accepted]

\* A block is accepted and moves the tip.
Advance ==
    /\ serving /\ serving' = serving
    /\ \E b \in Block : Improves(b) /\ accepted' = b

\* The node stops, crashes, faults or asks for a reindex.
Stop ==
    /\ serving' = FALSE
    /\ UNCHANGED accepted

\* The node starts and reports the tip it recovered: the accepted one, or a
\* heavier one whose acceptance was never confirmed.
Start ==
    /\ ~serving /\ serving' = TRUE
    /\ \/ accepted # NoBlock /\ UNCHANGED accepted
       \/ \E b \in Block : Improves(b) /\ accepted' = b

Next == Advance \/ Stop \/ Start

Spec == Init /\ [][Next]_<<accepted, serving>>

=============================================================================
