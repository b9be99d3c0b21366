--------------------------- MODULE MCNetworkParts ---------------------------
(***************************************************************************)
(* The parts around one connection for TLC: the queue budget, the session, *)
(* the frames of the stream and the relay.  They share no state, so each   *)
(* behaviour moves one of them, and the run sees all behaviours of each.   *)
(* Two of three senders have the same peer; messages are without, with and *)
(* over the allowed payload.                                               *)
(***************************************************************************)
EXTENDS QueueBudget, PeerSession, FrameStream, Relay

VARIABLE part     \* the one that moves

vars == <<budget_vars, session_vars, stream_vars, relay_vars, part>>

Init ==
    /\ part \in {"budget", "session", "stream", "relay"}
    /\ BudgetInit /\ SessionInit /\ StreamInit /\ RelayInit

Next ==
    /\ UNCHANGED part
    /\ \/ part = "budget" /\ BudgetNext /\ UNCHANGED <<session_vars, stream_vars, relay_vars>>
       \/ part = "session" /\ SessionNext /\ UNCHANGED <<budget_vars, stream_vars, relay_vars>>
       \/ part = "stream" /\ StreamNext /\ UNCHANGED <<budget_vars, session_vars, relay_vars>>
       \/ part = "relay" /\ RelayNext /\ UNCHANGED <<budget_vars, session_vars, stream_vars>>

(* Where another part moves, all senders are idle and fairness asks        *)
(* nothing of them.                                                        *)
FairSpec == Init /\ [][Next]_vars /\ Fairness

PeersOfTasks == [t1 |-> "p", t2 |-> "p", t3 |-> "q"]
Tasks == DOMAIN PeersOfTasks
Lengths == <<2, 3, 0, 2, 1>>
=============================================================================
