--------------------------- MODULE BlockScheduler ---------------------------
(***************************************************************************)
(* The download of missing bodies (crate oregon-sync, BlockScheduler).     *)
(*                                                                         *)
(* A plan is a list of distinct block ids; a target is its position in the *)
(* list.  Requests go to the eligible peers in order of preference, bodies *)
(* come back in any order, wait in a buffer and are submitted in the order *)
(* of the plan.  The scheduler has no clock and no connection: its owner   *)
(* calls schedule, on_timeout and on_block, in any order.                  *)
(***************************************************************************)
EXTENDS Naturals, FiniteSets, SequencesExt

CONSTANTS
    TARGETS,                      \* length of the plan
    Peer,
    MAX_IN_FLIGHT_BLOCKS_GLOBAL,
    MAX_IN_FLIGHT_BLOCKS_PEER,
    MAX_BUFFERED_BLOCKS,
    MAX_BLOCK_ATTEMPTS

ASSUME LimitAssumption ==
    /\ TARGETS \in Nat
    /\ MAX_IN_FLIGHT_BLOCKS_GLOBAL \in Nat \ {0}
    /\ MAX_IN_FLIGHT_BLOCKS_PEER \in Nat \ {0}
    /\ MAX_BUFFERED_BLOCKS \in Nat \ {0}
    /\ MAX_BLOCK_ATTEMPTS \in Nat \ {0}

VARIABLES
    next_submit,         \* first target that was not submitted
    in_flight,           \* target -> the peer it was requested from
    in_flight_per_peer,  \* requests in flight, counted by peer
    attempts,            \* requests made, by target
    buffered,            \* bodies that wait for an earlier one
    stalled              \* targets that were given up and reported

vars == <<next_submit, in_flight, in_flight_per_peer, attempts, buffered, stalled>>

Target == 1 .. TARGETS

\* BlockScheduler::new.
Init ==
    /\ next_submit = 1
    /\ in_flight = << >>
    /\ in_flight_per_peer = [p \in Peer |-> 0]
    /\ attempts = [t \in Target |-> 0]
    /\ buffered = {}
    /\ stalled = {}

InFlight == DOMAIN in_flight

-----------------------------------------------------------------------------
(* Requests. *)

\* schedule does not skip t.
Requestable(t) ==
    /\ t >= next_submit
    /\ t \notin InFlight /\ t \notin buffered /\ t \notin stalled
    /\ attempts[t] < MAX_BLOCK_ATTEMPTS

\* The peers that may take another request, the preferred one first.
FreePeers(order, load) ==
    SelectSeq(order, LAMBDA p : load[p] < MAX_IN_FLIGHT_BLOCKS_PEER)

\* One round of the loop of schedule: t goes to the first peer that is free.
\* Once a limit is reached it stays so for the rest of the loop.
Request(order, sent, t) ==
    LET free == FreePeers(order, sent.load)
    IN  IF Cardinality(DOMAIN sent.owner) >= MAX_IN_FLIGHT_BLOCKS_GLOBAL
           \/ free = << >>
        THEN sent
        ELSE [owner |-> (t :> free[1]) @@ sent.owner,
              load  |-> [sent.load EXCEPT ![free[1]] = @ + 1],
              asked |-> sent.asked \cup {t}]

\* schedule, called with the eligible peers in order of preference.
schedule(order) ==
    LET wanted == SelectSeq([i \in Target |-> i], Requestable)
        start  == [owner |-> in_flight, load |-> in_flight_per_peer, asked |-> {}]
        sent   == FoldLeft(LAMBDA s, t : Request(order, s, t), start, wanted)
    IN  /\ sent.asked # {}
        /\ in_flight' = sent.owner
        /\ in_flight_per_peer' = sent.load
        /\ attempts' = [t \in Target |->
                           attempts[t] + IF t \in sent.asked THEN 1 ELSE 0]
        /\ UNCHANGED <<next_submit, buffered, stalled>>

-----------------------------------------------------------------------------
(* Answers. *)

\* The request of t at p is over.
release(p, t) ==
    /\ in_flight' = [u \in InFlight \ {t} |-> in_flight[u]]
    /\ in_flight_per_peer' =
         [in_flight_per_peer EXCEPT ![p] = IF @ = 0 THEN 0 ELSE @ - 1]

\* p is the peer t is requested from; a call for any other pair is refused.
Owns(p, t) == t \in InFlight /\ in_flight[t] = p

\* The targets given up after a failed attempt at t.
StalledAfter(t) ==
    IF attempts[t] >= MAX_BLOCK_ATTEMPTS THEN stalled \cup {t} ELSE stalled

\* on_timeout of the owner.
on_timeout(p, t) ==
    /\ Owns(p, t)
    /\ release(p, t)
    /\ stalled' = StalledAfter(t)
    /\ UNCHANGED <<next_submit, attempts, buffered>>

BufferFull == Cardinality(buffered) >= MAX_BUFFERED_BLOCKS

\* The body of t is wanted and there is room for it.
Fits(t) == t >= next_submit /\ ~BufferFull

\* Mutant: one body is submitted for each body that arrives.
SubmitOne(bodies) ==
    IF next_submit \in bodies THEN next_submit + 1 ELSE next_submit

\* Where submission stops: the first target whose body is not there.
Drained(bodies) ==
    Min({t \in next_submit .. TARGETS + 1 : t \notin bodies})

\* on_block of the owner: the body is buffered and everything it completes is
\* submitted.
on_block(p, t) ==
    /\ Owns(p, t)
    /\ Fits(t)
    /\ release(p, t)
    /\ next_submit' = Drained(buffered \cup {t})
    /\ buffered' = {u \in buffered \cup {t} : u >= next_submit'}
    /\ UNCHANGED <<attempts, stalled>>

\* on_block that ends in an error after the request was released: the body was
\* submitted already, or the buffer is full.
on_block_refused(p, t) ==
    /\ Owns(p, t)
    /\ ~Fits(t)
    /\ release(p, t)
    /\ UNCHANGED <<next_submit, attempts, buffered, stalled>>

-----------------------------------------------------------------------------

Schedule == \E order \in SetToAllKPermutations(Peer) : schedule(order)

Answer(p, t) == on_timeout(p, t) \/ on_block(p, t) \/ on_block_refused(p, t)

Next == Schedule \/ \E p \in Peer, t \in Target : Answer(p, t)

Spec == Init /\ [][Next]_vars

\* The owner of the scheduler calls it while peers are eligible, and a request
\* ends: with the body or with the timeout of the peer session.
Fairness ==
    /\ WF_vars(Schedule)
    /\ \A t \in Target : WF_vars(\E p \in Peer : Answer(p, t))

FairSpec == Spec /\ Fairness

-----------------------------------------------------------------------------
(* Properties. *)

\* The attempts at t are used up and no body came of them.
Spent(t) ==
    attempts[t] = MAX_BLOCK_ATTEMPTS /\ t \notin InFlight /\ t \notin buffered

\* The plan is submitted to its end, or a target that submission waits for is
\* spent: no count that drifted, no body left in the buffer and no request that
\* nobody owns any more stops the download before that (schedule, on_timeout,
\* on_block).
DoneOrSpent ==
    <>(next_submit > TARGETS \/ \E t \in next_submit .. TARGETS : Spent(t))

=============================================================================
