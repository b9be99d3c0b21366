---------------------------- MODULE RelayProofs ----------------------------
(***************************************************************************)
(* The relay's properties for any peers, items and inventory sizes.        *)
(***************************************************************************)
EXTENDS Relay, TLAPS

(* An inventory holds the end of the history of what was put into it: all   *)
(* of it below its capacity, as many items as the capacity otherwise.       *)
Window(order, capacity, history) ==
  /\ order \in Seq(Item) /\ history \in Seq(Item)
  /\ Len(order) <= capacity /\ Len(order) <= Len(history)
  /\ Len(order) < capacity => Len(order) = Len(history)
  /\ \A i \in 1 .. Len(order) : order[i] = history[Len(history) - Len(order) + i]

(* BoundedInventory::insert keeps the window: the oldest item leaves.       *)
LEMMA InsertKeepsWindow ==
  ASSUME NEW capacity \in Nat \ {0}, NEW order, NEW history, NEW item \in Item,
         Window(order, capacity, history), ~Contains(order, item)
  PROVE  Window(insert(order, capacity, item), capacity, Append(history, item))
<1> DEFINE kept == IF Len(order) = capacity THEN Tail(order) ELSE order
           new == Append(kept, item)
           long == Append(history, item)
<1>1. order \in Seq(Item) /\ history \in Seq(Item)
  BY DEF Window
<1>2. insert(order, capacity, item) = new
  BY DEF insert
<1>3. /\ kept \in Seq(Item)
      /\ Len(kept) = IF Len(order) = capacity THEN Len(order) - 1 ELSE Len(order)
      /\ \A i \in 1 .. Len(kept) :
            kept[i] = IF Len(order) = capacity THEN order[i + 1] ELSE order[i]
  <2>1. CASE Len(order) = capacity
    <3>1. order # <<>>
      BY <1>1, <2>1
    <3> QED
      BY <1>1, <2>1, <3>1
  <2>2. CASE Len(order) # capacity
    BY <1>1, <2>2
  <2> QED
    BY <2>1, <2>2
<1> HIDE DEF kept
<1>4. /\ new \in Seq(Item) /\ Len(new) = Len(kept) + 1
      /\ \A i \in 1 .. Len(kept) : new[i] = kept[i]
      /\ new[Len(kept) + 1] = item
  BY <1>3
<1>5. /\ long \in Seq(Item) /\ Len(long) = Len(history) + 1
      /\ \A i \in 1 .. Len(history) : long[i] = history[i]
      /\ long[Len(history) + 1] = item
  BY <1>1
<1> HIDE DEF new, long
<1>6. /\ Len(order) \in Nat /\ Len(history) \in Nat /\ Len(kept) \in Nat
      /\ Len(order) <= capacity /\ Len(order) <= Len(history)
      /\ Len(order) < capacity => Len(order) = Len(history)
  BY <1>1, <1>3 DEF Window
<1>10. /\ Len(long) = Len(history) + 1
      /\ Len(new) = IF Len(order) = capacity THEN Len(order) ELSE Len(order) + 1
  <2>1. Len(kept) = IF Len(order) = capacity THEN Len(order) - 1 ELSE Len(order)
    BY <1>3
  <2>2. Len(new) = Len(kept) + 1 /\ Len(long) = Len(history) + 1
    BY <1>4, <1>5
  <2> QED
    BY <1>6, <2>1, <2>2
<1>7. /\ Len(new) <= capacity /\ Len(new) <= Len(long)
      /\ Len(new) < capacity => Len(new) = Len(long)
  BY <1>6, <1>10
<1>8. ASSUME NEW i \in 1 .. Len(new)
      PROVE  new[i] = long[Len(long) - Len(new) + i]
  <2>1. CASE i = Len(kept) + 1
    BY <1>4, <1>5, <1>6, <2>1
  <2>2. CASE i \in 1 .. Len(kept)
    <3>1. CASE Len(order) = capacity
      <4>1. i + 1 \in 1 .. Len(order)
        BY <1>3, <1>6, <2>2, <3>1
      <4>2. new[i] = history[Len(history) - Len(order) + (i + 1)]
        BY <1>3, <1>4, <2>2, <3>1, <4>1 DEF Window
      <4>3. Len(long) - Len(new) + i = Len(history) - Len(order) + (i + 1)
        BY <1>6, <1>10, <2>2, <3>1
      <4>4. Len(history) - Len(order) + (i + 1) \in 1 .. Len(history)
        BY <1>6, <4>1
      <4> QED
        BY <1>5, <4>2, <4>3, <4>4
    <3>2. CASE Len(order) # capacity
      <4>1. i \in 1 .. Len(order)
        BY <1>3, <2>2, <3>2
      <4>2. new[i] = history[Len(history) - Len(order) + i]
        BY <1>3, <1>4, <2>2, <3>2, <4>1 DEF Window
      <4>3. Len(long) - Len(new) + i = Len(history) - Len(order) + i
        <5>1. Len(new) = Len(order) + 1 /\ Len(long) = Len(history) + 1
          BY <1>10, <3>2
        <5>2. Len(order) \in Int /\ Len(history) \in Int /\ i \in Int
          BY <1>6, <4>1
        <5> QED
          BY <5>1, <5>2
      <4>4. Len(history) - Len(order) + i \in 1 .. Len(history)
        BY <1>6, <4>1
      <4> QED
        BY <1>5, <4>2, <4>3, <4>4
    <3> QED
      BY <3>1, <3>2
  <2> QED
    BY <1>4, <1>6, <2>1, <2>2
<1> QED
  BY <1>2, <1>4, <1>5, <1>7, <1>8 DEF Window, long

(* What the inventory does not hold is not among the last items put in.     *)
LEMMA AbsentFromWindow ==
  ASSUME NEW capacity \in Nat \ {0}, NEW order, NEW history, NEW item,
         Window(order, capacity, history), ~Contains(order, item),
         NEW i \in DOMAIN history, i > Len(history) - capacity
  PROVE  history[i] # item
<1>1. Len(order) \in Nat /\ Len(history) \in Nat /\ i \in 1 .. Len(history)
  BY DEF Window
<1> DEFINE k == i - (Len(history) - Len(order))
<1>2. k \in 1 .. Len(order) /\ Len(history) - Len(order) + k = i
  BY <1>1 DEF Window
<1> HIDE DEF k
<1>3. order[k] = history[i]
  BY <1>2 DEF Window
<1> QED
  BY <1>2, <1>3 DEF Contains

(* Each inventory is the window of its history, only accepted items are     *)
(* authorized, and equal items in the history of relays are far apart.      *)
IInv ==
  /\ known \in [Peer -> Seq(Item)] /\ noted \in [Peer -> Seq(Item)]
  /\ \A p \in Peer : Window(known[p], MAX_KNOWN_INVENTORY_PER_PEER, noted[p])
  /\ Window(recent, MAX_RECENT_RELAY_CACHE, relayed)
  /\ RelayedOnce
  /\ ValidatedBeforeRelay

LEMMA InitIInv == RelayInit => IInv
<1> SUFFICES ASSUME RelayInit PROVE IInv
  OBVIOUS
<1>1. ASSUME NEW capacity \in Nat \ {0}
      PROVE  Window(<<>>, capacity, <<>>)
  BY DEF Window
<1>2. ValidatedBeforeRelay /\ RelayedOnce
  BY DEF RelayInit, ValidatedBeforeRelay, RelayedOnce
<1> QED
  BY <1>1, <1>2, CapacityAssumption DEF RelayInit, IInv

(* note_peer_inventory keeps the windows of all peers.                      *)
LEMMA NoteKeepsWindows ==
  ASSUME IInv, NEW ps, NEW item \in Item, note_peer_inventory(ps, item)
  PROVE  /\ known' \in [Peer -> Seq(Item)] /\ noted' \in [Peer -> Seq(Item)]
         /\ \A p \in Peer :
               Window(known'[p], MAX_KNOWN_INVENTORY_PER_PEER, noted'[p])
<1> DEFINE capacity == MAX_KNOWN_INVENTORY_PER_PEER
<1>1. ASSUME NEW p \in Peer
      PROVE  Window(known'[p], capacity, noted'[p])
  <2>1. Window(known[p], capacity, noted[p])
    BY DEF IInv
  <2>2. CASE p \in ps /\ ~Contains(known[p], item)
    <3>1. /\ known'[p] = insert(known[p], capacity, item)
          /\ noted'[p] = Append(noted[p], item)
      BY <2>2 DEF note_peer_inventory
    <3> QED
      BY <2>1, <2>2, <3>1, InsertKeepsWindow, CapacityAssumption
  <2>3. CASE p \in ps /\ Contains(known[p], item)
    <3>1. known'[p] = known[p] /\ noted'[p] = noted[p]
      BY <2>3 DEF note_peer_inventory, insert
    <3> QED
      BY <2>1, <3>1
  <2>4. CASE p \notin ps
    <3>1. known'[p] = known[p] /\ noted'[p] = noted[p]
      BY <2>4 DEF note_peer_inventory
    <3> QED
      BY <2>1, <3>1
  <2> QED
    BY <2>2, <2>3, <2>4
<1>2. \A p \in Peer : known'[p] \in Seq(Item) /\ noted'[p] \in Seq(Item)
  BY <1>1 DEF Window
<1>3. /\ known' = [p \in Peer |-> known'[p]]
      /\ noted' = [p \in Peer |-> noted'[p]]
  BY DEF note_peer_inventory
<1> QED
  BY <1>1, <1>2, <1>3

(* An item that is not in the cache may be relayed: the last relay of it is *)
(* a whole cache away.                                                      *)
LEMMA RelayKeepsDistance ==
  ASSUME IInv, NEW item \in Item, ~Contains(recent, item),
         recent' = note_recent_relay(item), relayed' = Append(relayed, item)
  PROVE  Window(recent, MAX_RECENT_RELAY_CACHE, relayed)' /\ RelayedOnce'
<1> DEFINE capacity == MAX_RECENT_RELAY_CACHE
<1>1. Window(recent, capacity, relayed) /\ relayed \in Seq(Item) /\ capacity \in Nat \ {0}
  BY CapacityAssumption DEF IInv, Window
<1>2. Window(recent', capacity, relayed')
  BY <1>1, InsertKeepsWindow DEF note_recent_relay
<1>3. ASSUME NEW i \in DOMAIN relayed', NEW j \in DOMAIN relayed',
             i < j, relayed'[i] = relayed'[j]
      PROVE  j - i > capacity
  <2>1. /\ Len(relayed) \in Nat
        /\ DOMAIN relayed' = 1 .. Len(relayed) + 1 /\ DOMAIN relayed = 1 .. Len(relayed)
        /\ \A k \in 1 .. Len(relayed) : relayed'[k] = relayed[k]
        /\ relayed'[Len(relayed) + 1] = item
    BY <1>1
  <2>2. i \in 1 .. Len(relayed) /\ j \in 1 .. Len(relayed) + 1
    BY <1>3, <2>1
  <2>3. CASE j \in 1 .. Len(relayed)
    BY <1>3, <2>1, <2>2, <2>3 DEF IInv, RelayedOnce
  <2>4. CASE j = Len(relayed) + 1
    <3>1. relayed[i] = item
      BY <1>3, <2>1, <2>2, <2>4
    <3>2. ~(i > Len(relayed) - capacity)
      BY <1>1, <2>1, <2>2, <3>1, AbsentFromWindow
    <3> QED
      BY <1>1, <2>1, <2>2, <2>4, <3>2
  <2> QED
    BY <2>1, <2>2, <2>3, <2>4
<1> QED
  BY <1>2, <1>3 DEF RelayedOnce

(* Every step keeps the invariant and announces to nobody who knows.        *)
LEMMA NextIInv ==
  ASSUME IInv, [RelayNext]_relay_vars
  PROVE  /\ IInv'
         /\ [\A p \in Peer, item \in Item :
                <<p, item>> \in sent' =>
                   item \notin LastOf(noted[p], MAX_KNOWN_INVENTORY_PER_PEER)]_relay_vars
<1> DEFINE Quiet == \A p \in Peer, item \in Item :
                      <<p, item>> \in sent' =>
                         item \notin LastOf(noted[p], MAX_KNOWN_INVENTORY_PER_PEER)
<1>1. ASSUME NEW item \in Item, NEW p \in Peer, Announced(p, item)
      PROVE  IInv' /\ Quiet
  <2>1. /\ known' \in [Peer -> Seq(Item)] /\ noted' \in [Peer -> Seq(Item)]
        /\ \A q \in Peer : Window(known'[q], MAX_KNOWN_INVENTORY_PER_PEER, noted'[q])
    BY <1>1, NoteKeepsWindows DEF Announced
  <2>2. Window(recent, MAX_RECENT_RELAY_CACHE, relayed)' /\ RelayedOnce'
    BY <1>1 DEF Announced, IInv, RelayedOnce
  <2>3. ValidatedBeforeRelay' /\ Quiet
    BY <1>1 DEF Announced, IInv, ValidatedBeforeRelay
  <2> QED
    BY <2>1, <2>2, <2>3 DEF IInv
<1>2. ASSUME NEW item \in Item, NEW ok \in BOOLEAN, Submitted(item, ok)
      PROVE  IInv' /\ Quiet
  <2>1. /\ known' \in [Peer -> Seq(Item)] /\ noted' \in [Peer -> Seq(Item)]
        /\ \A q \in Peer : Window(known'[q], MAX_KNOWN_INVENTORY_PER_PEER, noted'[q])
        /\ Window(recent, MAX_RECENT_RELAY_CACHE, relayed)' /\ RelayedOnce'
    BY <1>2 DEF Submitted, IInv, RelayedOnce
  <2>2. ValidatedBeforeRelay' /\ Quiet
    BY <1>2 DEF Submitted, validated_relay, IInv, ValidatedBeforeRelay
  <2> QED
    BY <2>1, <2>2 DEF IInv
<1>3. ASSUME NEW item \in Item, NEW source, NEW ps, relay_inventory(source, ps, item)
      PROVE  IInv' /\ Quiet
  <2>1. PICK noting : note_peer_inventory(noting, item)
    BY <1>3 DEF relay_inventory
  <2>2. /\ known' \in [Peer -> Seq(Item)] /\ noted' \in [Peer -> Seq(Item)]
        /\ \A q \in Peer : Window(known'[q], MAX_KNOWN_INVENTORY_PER_PEER, noted'[q])
    BY <2>1, NoteKeepsWindows
  <2>3. Window(recent, MAX_RECENT_RELAY_CACHE, relayed)' /\ RelayedOnce'
    <3>1. CASE Contains(recent, item)
      BY <1>3, <3>1 DEF relay_inventory, IInv, RelayedOnce
    <3>2. CASE ~Contains(recent, item)
      <4>1. recent' = note_recent_relay(item) /\ relayed' = Append(relayed, item)
        BY <1>3, <3>2 DEF relay_inventory
      <4> QED
        BY <3>2, <4>1, RelayKeepsDistance
    <3> QED
      BY <3>1, <3>2
  <2>4. /\ sent' \subseteq Targets(source, ps, item) \X {item}
        /\ item \in permits /\ permits' = permits \ {item} /\ valid' = valid
    BY <1>3 DEF relay_inventory
  <2>5. ValidatedBeforeRelay'
    BY <2>4 DEF IInv, ValidatedBeforeRelay
  <2>6. ASSUME NEW q \in Peer, NEW it \in Item, <<q, it>> \in sent'
        PROVE  it \notin LastOf(noted[q], MAX_KNOWN_INVENTORY_PER_PEER)
    <3>1. it = item /\ ~Contains(known[q], it)
      BY <2>4, <2>6 DEF Targets, peer_knows
    <3>2. Window(known[q], MAX_KNOWN_INVENTORY_PER_PEER, noted[q])
      BY DEF IInv
    <3> QED
      BY <3>1, <3>2, AbsentFromWindow, CapacityAssumption DEF LastOf
  <2> QED
    BY <2>2, <2>3, <2>5, <2>6 DEF IInv
<1>4. CASE UNCHANGED relay_vars
  BY <1>4 DEF relay_vars, IInv, RelayedOnce, ValidatedBeforeRelay
<1> QED
  BY <1>1, <1>2, <1>3, <1>4 DEF RelayNext

(* An item is announced again only after a whole cache of others, however   *)
(* often it is submitted (relay_inventory, note_recent_relay).              *)
THEOREM RelaysAreDistinct == RelaySpec => []RelayedOnce
<1>1. RelayInit => IInv
  BY InitIInv
<1>2. IInv /\ [RelayNext]_relay_vars => IInv'
  BY NextIInv
<1>3. IInv => RelayedOnce
  BY DEF IInv
<1> QED
  BY <1>1, <1>2, <1>3, PTL DEF RelaySpec

(* Only what the core accepted is announced (validated_relay).              *)
THEOREM RelaysAreValidated == RelaySpec => []ValidatedBeforeRelay
<1>1. RelayInit => IInv
  BY InitIInv
<1>2. IInv /\ [RelayNext]_relay_vars => IInv'
  BY NextIInv
<1>3. IInv => ValidatedBeforeRelay
  BY DEF IInv
<1> QED
  BY <1>1, <1>2, <1>3, PTL DEF RelaySpec

(* A peer is not told of what it is known to have, for any inventory size   *)
(* (peer_knows, note_peer_inventory, BoundedInventory::insert).             *)
THEOREM RelaysDoNotEcho == RelaySpec => NoEcho
<1>1. RelayInit => IInv
  BY InitIInv
<1>2. IInv /\ [RelayNext]_relay_vars
        => /\ IInv'
           /\ [\A p \in Peer, item \in Item :
                  <<p, item>> \in sent' =>
                     item \notin LastOf(noted[p], MAX_KNOWN_INVENTORY_PER_PEER)]_relay_vars
  BY NextIInv
<1> QED
  BY <1>1, <1>2, PTL DEF RelaySpec, NoEcho
=============================================================================
