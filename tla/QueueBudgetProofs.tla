------------------------- MODULE QueueBudgetProofs -------------------------
(***************************************************************************)
(* No wakeup is lost, for any number of tasks and peers, any frame sizes   *)
(* and any limits.                                                         *)
(***************************************************************************)
EXTENDS QueueBudget, TLAPS

Counter == [frames : Nat, bytes : Nat, non_control_frames : Nat, non_control_bytes : Nat]
Place == {"idle", "look", "parking", "wait", "permit", "released"}
Sender == [at : Place, class : Class, bytes : Nat, listening : BOOLEAN]

Types ==
  /\ global \in Nat
  /\ peer \in [QueuePeer -> Counter]
  /\ task \in [Task -> Sender]

(* The future of a sender that may sleep exists since before it looked.     *)
Listens ==
  \A t \in Task :
    /\ task[t].at \in {"parking", "wait"} => task[t].class # "Gossip"
    /\ task[t].at \in {"look", "parking", "wait"} /\ task[t].class # "Gossip"
          => task[t].listening

IInv == Types /\ Listens /\ NoLostWakeup

(* One frame more in the counters, or one less.                             *)
LEMMA CountersMove ==
  ASSUME NEW p \in Counter, NEW class \in Class, NEW bytes \in Nat
  PROVE  /\ Charged(p, class, bytes) \in Counter
         /\ Discharged(p, class, bytes) \in Counter
         /\ p.frames <= Charged(p, class, bytes).frames
         /\ p.bytes <= Charged(p, class, bytes).bytes
         /\ p.non_control_frames <= Charged(p, class, bytes).non_control_frames
         /\ p.non_control_bytes <= Charged(p, class, bytes).non_control_bytes
<1> DEFINE c == IF class = "Control" THEN 0 ELSE 1
           d == c * bytes
<1>1. c \in Nat /\ d \in Nat
  OBVIOUS
<1>2. \A a, b \in Nat : Minus(a, b) \in Nat
  BY DEF Minus
<1>3. /\ p.frames \in Nat /\ p.bytes \in Nat
      /\ p.non_control_frames \in Nat /\ p.non_control_bytes \in Nat
  BY DEF Counter
<1>4. Charged(p, class, bytes) =
        [p EXCEPT !.frames = @ + 1, !.bytes = @ + bytes,
                  !.non_control_frames = @ + c, !.non_control_bytes = @ + d]
  BY DEF Charged
<1>5. Discharged(p, class, bytes) =
        [p EXCEPT !.frames = Minus(@, 1), !.bytes = Minus(@, bytes),
                  !.non_control_frames = Minus(@, c), !.non_control_bytes = Minus(@, d)]
  BY DEF Discharged
<1> HIDE DEF c, d
<1>6. Charged(p, class, bytes) \in Counter
  <2>1. Charged(p, class, bytes) =
          [frames |-> p.frames + 1, bytes |-> p.bytes + bytes,
           non_control_frames |-> p.non_control_frames + c,
           non_control_bytes |-> p.non_control_bytes + d]
    BY <1>4 DEF Counter
  <2> QED
    BY <1>1, <1>3, <2>1 DEF Counter
<1>7. Discharged(p, class, bytes) \in Counter
  <2>1. Discharged(p, class, bytes) =
          [frames |-> Minus(p.frames, 1), bytes |-> Minus(p.bytes, bytes),
           non_control_frames |-> Minus(p.non_control_frames, c),
           non_control_bytes |-> Minus(p.non_control_bytes, d)]
    BY <1>5 DEF Counter
  <2> QED
    BY <1>1, <1>2, <1>3, <2>1 DEF Counter
<1>8. /\ p.frames <= Charged(p, class, bytes).frames
      /\ p.bytes <= Charged(p, class, bytes).bytes
      /\ p.non_control_frames <= Charged(p, class, bytes).non_control_frames
      /\ p.non_control_bytes <= Charged(p, class, bytes).non_control_bytes
  BY <1>1, <1>3, <1>4 DEF Counter
<1> QED
  BY <1>6, <1>7, <1>8

LEMMA IdleIsSender == Idle \in Sender
  BY DEF Idle, Sender, Place, Class

LEMMA InitIInv == BudgetInit => IInv
<1> SUFFICES ASSUME BudgetInit PROVE IInv
  OBVIOUS
<1>1. Types
  BY IdleIsSender DEF BudgetInit, Types, Counter, NewPeerState
<1>2. Listens /\ NoLostWakeup
  BY DEF BudgetInit, Listens, NoLostWakeup, Idle
<1> QED
  BY <1>1, <1>2 DEF IInv

LEMMA TypesStep ==
  ASSUME Types, [BudgetNext]_budget_vars
  PROVE  Types'
<1> USE DEF Types
<1>1. ASSUME NEW t \in Task, NEW class \in Class, NEW bytes \in Size,
             reserve(t, class, bytes)
      PROVE  Types'
  BY <1>1, BudgetAssumption DEF reserve, Sender, Place
<1>2. ASSUME NEW t \in Task, try_reserve(t)
      PROVE  Types'
  <2> DEFINE Next1(u) == [u EXCEPT !.at = "permit", !.listening = FALSE]
             Next2(u) == IF TooLarge(u.bytes) \/ u.class = "Gossip" THEN Idle
                         ELSE [u EXCEPT !.at = "parking"]
  <2>0. Next1(task[t]) \in Sender /\ Next2(task[t]) \in Sender
    BY IdleIsSender DEF Sender, Place
  <2>1. task' \in [Task -> Sender]
    BY <1>2, <2>0 DEF try_reserve
  <2>2. PeerOf[t] \in QueuePeer
    BY DEF QueuePeer
  <2>3. Charged(peer[PeerOf[t]], task[t].class, task[t].bytes) \in Counter
    BY <2>2, CountersMove DEF Sender
  <2>4. peer' \in [QueuePeer -> Counter] /\ global' \in Nat
    BY <1>2, <2>2, <2>3 DEF try_reserve, Sender
  <2> QED
    BY <2>1, <2>4
<1>3. ASSUME NEW t \in Task, Park(t) \/ Wake(t) \/ EnqueueTimeout(t) \/ notify_waiters(t)
      PROVE  Types'
  BY <1>3, IdleIsSender DEF Park, Wake, EnqueueTimeout, notify_waiters, Sender, Place
<1>4. ASSUME NEW t \in Task, release(t)
      PROVE  Types'
  <2>1. task' \in [Task -> Sender]
    BY <1>4 DEF release, Sender, Place
  <2>2. PeerOf[t] \in QueuePeer
    BY DEF QueuePeer
  <2>3. Discharged(peer[PeerOf[t]], task[t].class, task[t].bytes) \in Counter
    BY <2>2, CountersMove DEF Sender
  <2>4. peer' \in [QueuePeer -> Counter] /\ global' \in Nat
    BY <1>4, <2>2, <2>3 DEF release, Minus, Sender
  <2> QED
    BY <2>1, <2>4
<1>5. CASE UNCHANGED budget_vars
  BY <1>5 DEF budget_vars
<1> QED
  BY <1>1, <1>2, <1>3, <1>4, <1>5 DEF BudgetNext

LEMMA ListensStep ==
  ASSUME Types, Listens, [BudgetNext]_budget_vars
  PROVE  Listens'
<1> USE DEF Types, Listens, Sender
<1>1. ASSUME NEW t \in Task, NEW class \in Class, NEW bytes \in Size,
             reserve(t, class, bytes)
      PROVE  Listens'
  BY <1>1 DEF reserve
<1>2. ASSUME NEW t \in Task, try_reserve(t)
      PROVE  Listens'
  BY <1>2 DEF try_reserve, Idle
<1>3. ASSUME NEW t \in Task,
             Park(t) \/ Wake(t) \/ EnqueueTimeout(t) \/ release(t) \/ notify_waiters(t)
      PROVE  Listens'
  BY <1>3 DEF Park, Wake, EnqueueTimeout, release, notify_waiters, Idle
<1>4. CASE UNCHANGED budget_vars
  BY <1>4 DEF budget_vars
<1> QED
  BY <1>1, <1>2, <1>3, <1>4 DEF BudgetNext

(* A reservation takes room and makes none: what fits after it fitted       *)
(* before.                                                                  *)
LEMMA ChargeMakesNoRoom ==
  ASSUME Types, NEW t \in Task, NEW u \in Task,
         task'[u].bytes = task[u].bytes, task'[u].class = task[u].class,
         peer' = [peer EXCEPT ![PeerOf[t]] = Charged(@, task[t].class, task[t].bytes)],
         global' = global + task[t].bytes,
         Fits(u)'
  PROVE  Fits(u)
<1> DEFINE p == PeerOf[u]
<1>1. /\ task[t].bytes \in Nat /\ task[u].bytes \in Nat /\ task[t].class \in Class
      /\ p \in QueuePeer /\ PeerOf[t] \in QueuePeer
  BY DEF Types, Sender, QueuePeer
<1>2. peer[p] \in Counter /\ global \in Nat
  BY <1>1 DEF Types
<1>3. peer'[p] = IF p = PeerOf[t] THEN Charged(peer[p], task[t].class, task[t].bytes)
                 ELSE peer[p]
  BY <1>1 DEF Types
<1>4. /\ peer'[p] \in Counter
      /\ peer[p].frames <= peer'[p].frames
      /\ peer[p].bytes <= peer'[p].bytes
      /\ peer[p].non_control_frames <= peer'[p].non_control_frames
      /\ peer[p].non_control_bytes <= peer'[p].non_control_bytes
  <2>1. CASE p = PeerOf[t]
    <3>1. peer'[p] = Charged(peer[p], task[t].class, task[t].bytes)
      BY <1>3, <2>1
    <3> QED
      BY <1>1, <1>2, <3>1, CountersMove
  <2>2. CASE p # PeerOf[t]
    BY <1>2, <1>3, <2>2 DEF Counter
  <2> QED
    BY <2>1, <2>2
<1>5. global \in Nat /\ global <= global' /\ global' \in Nat
  BY <1>1 DEF Types, Sender
<1>6. TotalFits(p, task[u].bytes)
  <2>1. TotalFits(p, task[u].bytes)'
    BY DEF Fits
  <2> QED
    BY <1>1, <1>2, <1>4, <1>5, <2>1, BudgetAssumption DEF TotalFits, Counter
<1>7. ClassFits(p, task[u].class, task[u].bytes)
  <2>1. ClassFits(p, task[u].class, task[u].bytes)'
    BY DEF Fits
  <2> QED
    BY <1>1, <1>2, <1>4, <2>1, BudgetAssumption DEF ClassFits, Counter
<1> QED
  BY <1>6, <1>7 DEF Fits

(* Only a release makes room, and its notification is still to come; only a *)
(* notification ends that excuse, and it wakes every sender that listens.   *)
LEMMA WakeupStep ==
  ASSUME Types, Listens, NoLostWakeup, [BudgetNext]_budget_vars
  PROVE  NoLostWakeup'
<1> SUFFICES ASSUME NEW u \in Task, task'[u].at \in {"parking", "wait"},
                    u \notin notified', Fits(u)'
             PROVE  \E v \in Task : task'[v].at = "released"
  BY DEF NoLostWakeup
<1> USE DEF Types, Sender
<1>1. ASSUME task[u].at \in {"parking", "wait"}, u \notin notified, Fits(u),
             \A v \in Task : task[v].at = "released" => task'[v].at = "released"
      PROVE  \E v \in Task : task'[v].at = "released"
  BY <1>1 DEF NoLostWakeup
<1>2. ASSUME NEW t \in Task, NEW class \in Class, NEW bytes \in Size,
             reserve(t, class, bytes)
      PROVE  \E v \in Task : task'[v].at = "released"
  <2>1. u # t /\ task'[u] = task[u] /\ u \notin notified
    BY <1>2 DEF reserve
  <2>2. Fits(u)
    BY <1>2, <2>1 DEF reserve, Fits, TotalFits, ClassFits
  <2>3. \A v \in Task : task[v].at = "released" => task'[v].at = "released"
    BY <1>2 DEF reserve
  <2> QED
    BY <1>1, <2>1, <2>2, <2>3
<1>3. ASSUME NEW t \in Task, try_reserve(t)
      PROVE  \E v \in Task : task'[v].at = "released"
  <2>1. \A v \in Task : task[v].at = "released" => task'[v].at = "released"
    BY <1>3 DEF try_reserve
  <2>2. CASE ~TooLarge(task[t].bytes) /\ Fits(t)
    <3>1. u # t /\ task'[u] = task[u] /\ u \notin notified
      BY <1>3, <2>2 DEF try_reserve
    <3>2. Fits(u)
      BY <1>3, <2>2, <3>1, ChargeMakesNoRoom DEF try_reserve
    <3> QED
      BY <1>1, <2>1, <3>1, <3>2
  <2>3. CASE ~(~TooLarge(task[t].bytes) /\ Fits(t))
    <3>1. task'[u].bytes = task[u].bytes /\ task'[u].class = task[u].class
      BY <1>3, <2>3 DEF try_reserve, Idle
    <3>2. Fits(u) /\ u \notin notified
      BY <1>3, <2>3, <3>1 DEF try_reserve, Fits, TotalFits, ClassFits
    <3>3. u # t
      BY <1>3, <2>3, <3>2 DEF try_reserve, Idle
    <3> QED
      BY <1>1, <1>3, <2>1, <2>3, <3>2, <3>3 DEF try_reserve
  <2> QED
    BY <2>2, <2>3
<1>4. ASSUME NEW t \in Task, Park(t) \/ Wake(t) \/ EnqueueTimeout(t)
      PROVE  \E v \in Task : task'[v].at = "released"
  <2>1. /\ task'[u].bytes = task[u].bytes /\ task'[u].class = task[u].class
        /\ task[u].at \in {"parking", "wait"} /\ u \notin notified
    BY <1>4 DEF Park, Wake, EnqueueTimeout, Idle
  <2>2. Fits(u)
    BY <1>4, <2>1 DEF Park, Wake, EnqueueTimeout, Fits, TotalFits, ClassFits
  <2>3. \A v \in Task : task[v].at = "released" => task'[v].at = "released"
    BY <1>4 DEF Park, Wake, EnqueueTimeout
  <2> QED
    BY <1>1, <2>1, <2>2, <2>3
<1>5. ASSUME NEW t \in Task, release(t)
      PROVE  \E v \in Task : task'[v].at = "released"
  BY <1>5 DEF release
<1>6. ASSUME NEW t \in Task, notify_waiters(t)
      PROVE  \E v \in Task : task'[v].at = "released"
  <2>1. task[u].at \in {"parking", "wait"}
    BY <1>6 DEF notify_waiters, Idle
  <2>2. task[u].listening
    BY <2>1 DEF Listens
  <2> QED
    BY <1>6, <2>2 DEF notify_waiters
<1>7. CASE UNCHANGED budget_vars
  <2>1. Fits(u) /\ task'[u] = task[u] /\ u \notin notified
    BY <1>7 DEF budget_vars, Fits, TotalFits, ClassFits
  <2> QED
    BY <1>1, <1>7, <2>1 DEF budget_vars
<1> QED
  BY <1>2, <1>3, <1>4, <1>5, <1>6, <1>7 DEF BudgetNext

(* No sender sleeps beside room for its frame unless the notification of    *)
(* the release that made the room is on its way, whatever the tasks, peers, *)
(* sizes and limits (budget.rs reserve, try_reserve, release).              *)
THEOREM WakeupsArrive == BudgetSpec => []NoLostWakeup
<1>1. BudgetInit => IInv
  BY InitIInv
<1>2. IInv /\ [BudgetNext]_budget_vars => IInv'
  BY TypesStep, ListensStep, WakeupStep DEF IInv
<1>3. IInv => NoLostWakeup
  BY DEF IInv
<1> QED
  BY <1>1, <1>2, <1>3, PTL DEF BudgetSpec
=============================================================================
