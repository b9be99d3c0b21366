---------------------------- MODULE QueueBudget ----------------------------
(***************************************************************************)
(* The byte and frame budget of outgoing queues: one state per peer, one   *)
(* shared by all, and a notification that wakes every waiting sender when  *)
(* a permit is dropped.  Tasks reserve, hold the permit while they write,  *)
(* and drop it.  Looking at the budget, releasing, and notifying are       *)
(* separate steps: the locks are dropped before notify_waiters is called.  *)
(***************************************************************************)
EXTENDS Integers, FiniteSets

CONSTANTS
    Task, PeerOf,            \* sending tasks, and the peer each sends to
    Size,                    \* frame sizes in bytes
    MAX_QUEUE_FRAMES_PEER, MAX_QUEUE_BYTES_PEER, MAX_QUEUE_BYTES_GLOBAL,
    CONTROL_RESERVED_FRAMES, CONTROL_RESERVED_BYTES

ASSUME BudgetAssumption ==
    /\ IsFiniteSet(Task) /\ Size \subseteq Nat
    /\ {MAX_QUEUE_FRAMES_PEER, MAX_QUEUE_BYTES_PEER, MAX_QUEUE_BYTES_GLOBAL} \subseteq Nat
    /\ CONTROL_RESERVED_FRAMES \in 0..MAX_QUEUE_FRAMES_PEER
    /\ CONTROL_RESERVED_BYTES \in 0..MAX_QUEUE_BYTES_PEER

VARIABLES
    global,     \* GlobalState: bytes
    peer,       \* PeerState of each peer
    task,       \* of each task: what it wants to send and how far it is
    notified    \* tasks whose Notified future has been woken

budget_vars == <<global, peer, task, notified>>

QueuePeer == {PeerOf[t] : t \in Task}
Class == {"Control", "RequiredData", "Gossip"}
NewPeerState == [frames |-> 0, bytes |-> 0, non_control_frames |-> 0, non_control_bytes |-> 0]
Idle == [at |-> "idle", class |-> "Control", bytes |-> 0, listening |-> FALSE]

BudgetInit ==
    /\ global = 0
    /\ peer = [p \in QueuePeer |-> NewPeerState]
    /\ task = [t \in Task |-> Idle]
    /\ notified = {}
-----------------------------------------------------------------------------
TooLarge(bytes) == bytes > MAX_QUEUE_BYTES_PEER \/ bytes > MAX_QUEUE_BYTES_GLOBAL

TotalFits(p, bytes) ==
    /\ peer[p].frames < MAX_QUEUE_FRAMES_PEER
    /\ peer[p].bytes + bytes <= MAX_QUEUE_BYTES_PEER
    /\ global + bytes <= MAX_QUEUE_BYTES_GLOBAL

ClassFits(p, class, bytes) ==
    class # "Control" =>
        /\ peer[p].non_control_frames < MAX_QUEUE_FRAMES_PEER - CONTROL_RESERVED_FRAMES
        /\ peer[p].non_control_bytes + bytes <= MAX_QUEUE_BYTES_PEER - CONTROL_RESERVED_BYTES

Fits(t) ==
    /\ TotalFits(PeerOf[t], task[t].bytes)
    /\ ClassFits(PeerOf[t], task[t].class, task[t].bytes)

Charged(p, class, bytes) ==
    LET c == IF class = "Control" THEN 0 ELSE 1
    IN  [p EXCEPT !.frames = @ + 1, !.bytes = @ + bytes,
                  !.non_control_frames = @ + c, !.non_control_bytes = @ + c * bytes]

Minus(a, b) == IF a < b THEN 0 ELSE a - b

Discharged(p, class, bytes) ==
    LET c == IF class = "Control" THEN 0 ELSE 1
    IN  [p EXCEPT !.frames = Minus(@, 1), !.bytes = Minus(@, bytes),
                  !.non_control_frames = Minus(@, c), !.non_control_bytes = Minus(@, c * bytes)]
-----------------------------------------------------------------------------
(* Mutant: a sender registers for the notification only once it waits.     *)
LookFirst(t, class, bytes) ==
    /\ task[t].at = "idle"
    /\ task' = [task EXCEPT ![t] =
           [at |-> "look", class |-> class, bytes |-> bytes, listening |-> FALSE]]
    /\ UNCHANGED <<global, peer, notified>>

(* reserve is called; a sender that may have to wait creates its Notified  *)
(* future before it looks at the budget.                                   *)
reserve(t, class, bytes) ==
    /\ task[t].at = "idle"
    /\ task' = [task EXCEPT ![t] =
           [at |-> "look", class |-> class, bytes |-> bytes, listening |-> class # "Gossip"]]
    /\ notified' = notified \ {t}
    /\ UNCHANGED <<global, peer>>

(* try_reserve, under both locks: a permit, a refusal, or a wait.          *)
try_reserve(t) ==
    /\ task[t].at = "look"
    /\ UNCHANGED notified
    /\ IF ~TooLarge(task[t].bytes) /\ Fits(t)
       THEN /\ task' = [task EXCEPT ![t].at = "permit", ![t].listening = FALSE]
            /\ peer' = [peer EXCEPT ![PeerOf[t]] = Charged(@, task[t].class, task[t].bytes)]
            /\ global' = global + task[t].bytes
       ELSE /\ task' = [task EXCEPT ![t] =
                  IF TooLarge(@.bytes) \/ @.class = "Gossip" THEN Idle
                  ELSE [@ EXCEPT !.at = "parking"]]
            /\ UNCHANGED <<global, peer>>

(* The future is awaited, until the deadline.                              *)
Park(t) ==
    /\ task[t].at = "parking"
    /\ task' = [task EXCEPT ![t].at = "wait", ![t].listening = TRUE]
    /\ UNCHANGED <<global, peer, notified>>

(* The wait ends with a notification, and the loop starts over.            *)
Wake(t) ==
    /\ task[t].at = "wait"
    /\ t \in notified
    /\ task' = [task EXCEPT ![t].at = "look"]
    /\ notified' = notified \ {t}
    /\ UNCHANGED <<global, peer>>

(* Mutant: the deadline is forgotten.                                      *)
WaitForever(t) == FALSE /\ UNCHANGED budget_vars

(* The deadline passes before a notification.                              *)
EnqueueTimeout(t) ==
    /\ task[t].at = "wait"
    /\ task' = [task EXCEPT ![t] = Idle]
    /\ UNCHANGED <<global, peer, notified>>

(* The permit is dropped: release, up to the unlock.                       *)
release(t) ==
    /\ task[t].at = "permit"
    /\ peer' = [peer EXCEPT ![PeerOf[t]] = Discharged(@, task[t].class, task[t].bytes)]
    /\ global' = Minus(global, task[t].bytes)
    /\ task' = [task EXCEPT ![t].at = "released"]
    /\ UNCHANGED notified

notify_waiters(t) ==
    /\ task[t].at = "released"
    /\ notified' = notified \cup {u \in Task : task[u].listening}
    /\ task' = [task EXCEPT ![t] = Idle]
    /\ UNCHANGED <<global, peer>>

BudgetNext ==
    \E t \in Task :
        \/ \E class \in Class, bytes \in Size : reserve(t, class, bytes)
        \/ try_reserve(t) \/ Park(t) \/ Wake(t) \/ EnqueueTimeout(t) \/ release(t) \/ notify_waiters(t)

(* Tasks are scheduled, and a write ends: FRAME_WRITE_TIMEOUT bounds it.   *)
(* The deadline is fixed when the reservation starts, so a sender that is  *)
(* woken again and again and still finds no room reaches it: strong        *)
(* fairness.                                                               *)
Fairness ==
    \A t \in Task :
        /\ WF_budget_vars(try_reserve(t)) /\ WF_budget_vars(Park(t)) /\ WF_budget_vars(Wake(t))
        /\ WF_budget_vars(release(t)) /\ WF_budget_vars(notify_waiters(t))
        /\ SF_budget_vars(EnqueueTimeout(t))

BudgetSpec == BudgetInit /\ [][BudgetNext]_budget_vars
BudgetFairSpec == BudgetSpec /\ Fairness
-----------------------------------------------------------------------------
(* No wakeup is lost: a sender never sleeps beside room for its frame,     *)
(* unless the notification of the release that made the room is on its     *)
(* way (budget.rs reserve: notified is created before try_reserve).        *)
NoLostWakeup ==
    \A t \in Task :
        task[t].at \in {"parking", "wait"} /\ t \notin notified /\ Fits(t)
            => \E u \in Task : task[u].at = "released"

(* Every reservation ends: with a permit, a refusal or the timeout.        *)
ReservationEnds ==
    \A t \in Task : task[t].at \in {"look", "parking", "wait"} ~> task[t].at \in {"idle", "permit"}
=============================================================================
