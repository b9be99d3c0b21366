---------------------------- MODULE PeerSession ----------------------------
(***************************************************************************)
(* One established session: the registry of outstanding requests and its   *)
(* grace set for late answers, the misbehaviour score, and the ping        *)
(* schedule.  Time is a counter; its unit is free and the constants keep   *)
(* their names.  The remote is modelled by what it owes: the requests and  *)
(* pings it was sent and has not answered.                                 *)
(***************************************************************************)
EXTENDS Integers, FiniteSets

CONSTANTS
    Key,                     \* RequestKey: Headers and the hashes of objects
    RESPONSE_START_TIMEOUT, EXPIRED_REQUEST_GRACE, MAX_RECENTLY_EXPIRED_REQUESTS_PER_PEER,
    PING_INTERVAL, PONG_TIMEOUT, IDLE_TIMEOUT,
    NonceModulus,            \* 2^64 in the code
    MaxTime, MaxRequests, MaxFeedback,   \* bounds
    MaxPoints                \* bound: the score up to which objects come unasked

VARIABLES
    now,
    outstanding,       \* key -> [started_at, generation]
    grace,             \* GraceEntry: [key, expires_at, generation]
    next_generation,
    performance,       \* [success_count, timeout_count]
    points,            \* PeerScore
    feedback,          \* number of feedbacks applied
    liveness,          \* [last_activity, outstanding_ping, next_ping_nonce]
    open,              \* FALSE once the owner was told to disconnect
    polled,            \* liveness was polled at this instant
    owed,              \* key -> when each unanswered request was sent
    excused            \* keys asked again while owed, or evicted from grace

requests == <<outstanding, grace, next_generation, performance, owed, excused>>
session_vars == <<now, requests, points, feedback, liveness, open, polled>>

SessionInit ==
    /\ now = 0
    /\ outstanding = <<>>
    /\ grace = {}
    /\ next_generation = 0
    /\ performance = [success_count |-> 0, timeout_count |-> 0]
    /\ points = 0
    /\ feedback = 0
    /\ liveness = [last_activity |-> 0, outstanding_ping |-> {}, next_ping_nonce |-> 1]
    /\ open = TRUE
    /\ polled = FALSE
    /\ owed = [k \in Key |-> {}]
    /\ excused = {}
-----------------------------------------------------------------------------
(* PeerScore                                                               *)
points_for(offense) ==
    CASE offense \in {"InvalidResponse", "UnsolicitedObject", "RequestAbuse"} -> 10
      [] offense = "SyncTimeout" -> 5
      [] offense \in {"InvalidHeader", "InvalidBlock"} -> 50

disconnect_required == points >= 100

(* The owner acts on the session while it keeps it.                        *)
Live == open /\ ~disconnect_required
-----------------------------------------------------------------------------
(* RequestRegistry                                                         *)
Pruned(g) == {e \in g : now < e.expires_at}
Without(f, K) == [k \in DOMAIN f \ K |-> f[k]]
Earlier(a, b) ==
    \/ a.expires_at < b.expires_at
    \/ a.expires_at = b.expires_at /\ a.generation < b.generation
Earliest(g) == CHOOSE e \in g : \A f \in g \ {e} : Earlier(e, f)

insert_grace(g, entry) ==
    LET others == {e \in g : e.key # entry.key}
    IN  {entry} \cup
        IF Cardinality(others) = MAX_RECENTLY_EXPIRED_REQUESTS_PER_PEER
        THEN others \ {Earliest(others)} ELSE others

(* expect, when the key is not outstanding; the caller sends the request.  *)
expect_at(k) ==
    /\ Live /\ next_generation < MaxRequests
    /\ k \notin DOMAIN outstanding
    /\ grace' = {e \in grace : e.key # k}
    /\ excused' = IF owed[k] = {} THEN excused ELSE excused \cup {k}
    /\ outstanding' = [j \in DOMAIN outstanding \cup {k} |->
           IF j = k THEN [started_at |-> now, generation |-> next_generation] ELSE outstanding[j]]
    /\ next_generation' = next_generation + 1
    /\ owed' = [owed EXCEPT ![k] = @ \cup {<<now, next_generation>>}]
    /\ UNCHANGED <<now, performance, points, feedback, liveness, open, polled>>

(* Mutant: an answer is matched against what has not timed out.            *)
MatchInTime(k) ==
    /\ UNCHANGED next_generation
    /\ grace' = Pruned(grace)
    /\ IF k \in DOMAIN outstanding /\ now < outstanding[k].started_at + RESPONSE_START_TIMEOUT
       THEN /\ outstanding' = Without(outstanding, {k})
            /\ performance' = [performance EXCEPT !.success_count = @ + 1]
            /\ UNCHANGED points
       ELSE /\ points' = points + points_for("UnsolicitedObject")
            /\ UNCHANGED <<outstanding, performance>>

(* classify_key_at and what classify_message_at does with its answer: the  *)
(* request is matched, the late answer dropped, or the object scored.      *)
classify_key_at(k) ==
    /\ UNCHANGED next_generation
    /\ IF k \in DOMAIN outstanding
       THEN /\ grace' = Pruned(grace)
            /\ outstanding' = Without(outstanding, {k})
            /\ performance' = [performance EXCEPT !.success_count = @ + 1]
            /\ UNCHANGED points
       ELSE /\ grace' = {e \in Pruned(grace) : e.key # k}
            /\ points' = IF grace' # Pruned(grace) THEN points
                         ELSE points + points_for("UnsolicitedObject")
            /\ UNCHANGED <<outstanding, performance>>

(* read_event of an object or headers message with key k: note_activity,   *)
(* then classify.  A message with a key the remote owes answers the oldest *)
(* request of it; what it sends unasked is bounded.                        *)
Receive(k) ==
    /\ Live
    /\ owed[k] # {} \/ points < MaxPoints
    /\ owed' = [owed EXCEPT ![k] = {r \in @ : \E q \in @ : q[2] < r[2]}]
    /\ liveness' = [liveness EXCEPT !.last_activity = now]
    /\ classify_key_at(k)
    /\ UNCHANGED <<now, feedback, open, polled, excused>>

(* expire_at: the requests past their deadline, in the order of deadlines  *)
(* and generations, each with its grace entry.                             *)
Expired == {k \in DOMAIN outstanding : now >= outstanding[k].started_at + RESPONSE_START_TIMEOUT}
GraceEntry(k) ==
    [key |-> k, generation |-> outstanding[k].generation,
     expires_at |-> outstanding[k].started_at + RESPONSE_START_TIMEOUT + EXPIRED_REQUEST_GRACE]
WithGrace[K \in SUBSET Key] ==
    IF K = {} THEN Pruned(grace)
    ELSE LET last == CHOOSE k \in K : \A j \in K \ {k} : Earlier(GraceEntry(j), GraceEntry(k))
         IN  IF now < GraceEntry(last).expires_at
             THEN insert_grace(WithGrace[K \ {last}], GraceEntry(last))
             ELSE WithGrace[K \ {last}]

(* request_timeouts: expire_at, and a score for each expired key.          *)
request_timeouts ==
    /\ Live
    /\ outstanding' = Without(outstanding, Expired)
    /\ performance' = [performance EXCEPT !.timeout_count = @ + Cardinality(Expired)]
    /\ grace' = WithGrace[Expired]
    /\ excused' = excused \cup
           {k \in Expired \cup {e.key : e \in Pruned(grace)} : \A e \in grace' : e.key # k}
    /\ points' = points + Cardinality(Expired) * points_for("SyncTimeout")
    /\ UNCHANGED <<now, next_generation, feedback, liveness, open, polled, owed>>

(* PeerFeedback of the caller.                                             *)
apply_feedback(offense) ==
    /\ Live /\ feedback < MaxFeedback
    /\ points' = points + points_for(offense)
    /\ feedback' = feedback + 1
    /\ UNCHANGED <<now, requests, liveness, open, polled>>
-----------------------------------------------------------------------------
(* LivenessState                                                           *)
NextNonce(n) == IF (n + 1) % NonceModulus = 0 THEN 1 ELSE (n + 1) % NonceModulus


(* LivenessState::poll_at: what it answers and the state after.            *)
poll_at ==
    LET Waited == \A p \in liveness.outstanding_ping : now - p[2] >= PONG_TIMEOUT
    IN  IF now - liveness.last_activity >= IDLE_TIMEOUT
        THEN [action |-> "Disconnect", state |-> liveness]
        ELSE IF liveness.outstanding_ping # {}
        THEN [action |-> IF Waited THEN "Disconnect" ELSE "None", state |-> liveness]
        ELSE IF now - liveness.last_activity >= PING_INTERVAL
        THEN [action |-> "SendPing",
              state |-> [liveness EXCEPT !.next_ping_nonce = NextNonce(@),
                                         !.outstanding_ping = {<<liveness.next_ping_nonce, now>>}]]
        ELSE [action |-> "None", state |-> liveness]

liveness_action ==
    /\ Live /\ ~polled
    /\ polled' = TRUE
    /\ liveness' = poll_at.state
    /\ open' = (poll_at.action # "Disconnect")
    /\ UNCHANGED <<now, requests, points, feedback>>

on_pong(nonce) ==
    IF \E p \in liveness.outstanding_ping : p[1] = nonce
    THEN [liveness EXCEPT !.outstanding_ping = {}, !.last_activity = now]
    ELSE liveness

(* read_event of a Pong: note_activity and on_pong.  The remote may send   *)
(* any nonce, an old one again too.                                        *)
ReceivePong(nonce) ==
    /\ Live
    /\ liveness' = [on_pong(nonce) EXCEPT !.last_activity = now]
    /\ UNCHANGED <<now, requests, points, feedback, open, polled>>

(* read_event of any other message: inventory, a request, a ping.          *)
ReceiveOther ==
    /\ Live
    /\ liveness' = [liveness EXCEPT !.last_activity = now]
    /\ UNCHANGED <<now, requests, points, feedback, open, polled>>

(* Time passes once the owner has polled liveness: what a session promises *)
(* about silence it promises to an owner that does so at every instant.    *)
Tick ==
    /\ now < MaxTime
    /\ polled \/ ~open
    /\ now' = now + 1
    /\ polled' = FALSE
    /\ UNCHANGED <<requests, points, feedback, liveness, open>>
-----------------------------------------------------------------------------
SessionNext ==
    \/ Tick \/ request_timeouts \/ liveness_action \/ ReceiveOther
    \/ \E k \in Key : expect_at(k) \/ Receive(k)
    \/ \E offense \in {"InvalidHeader", "InvalidBlock", "RequestAbuse"} : apply_feedback(offense)
    \/ \E nonce \in 1..NonceModulus - 1 : ReceivePong(nonce)

SessionSpec == SessionInit /\ [][SessionNext]_session_vars

-----------------------------------------------------------------------------
InTime(k) ==
    \E r \in owed[k] : now < r[1] + RESPONSE_START_TIMEOUT + EXPIRED_REQUEST_GRACE

(* An answer that the remote owes and sends before its grace is over is    *)
(* not held against it, whenever it comes, unless the key was asked for    *)
(* again meanwhile or its grace entry was evicted.                         *)
LateAnswerForgiven ==
    [][\A k \in Key : owed'[k] # owed[k] /\ InTime(k) /\ k \notin excused /\ Receive(k)
          => points' = points]_session_vars


=============================================================================
