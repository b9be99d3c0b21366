------------------------------- MODULE Relay -------------------------------
(***************************************************************************)
(* The relay of validated blocks and transactions (crate oregon-node,      *)
(* relay.rs and the submit calls of OregonNode).  A submission the core    *)
(* accepted yields an authorization; with it the node announces the item   *)
(* once to every peer that is not known to have it.  What a peer knows and *)
(* what was relayed are kept in bounded first-in first-out inventories.    *)
(***************************************************************************)
EXTENDS Naturals, Sequences, SequencesExt

CONSTANTS
    Peer,
    Item,                           \* inventory items
    MAX_KNOWN_INVENTORY_PER_PEER,
    MAX_RECENT_RELAY_CACHE,
    MaxNotes                        \* bound: notes of all peers, and relays

ASSUME CapacityAssumption ==
    /\ MAX_KNOWN_INVENTORY_PER_PEER \in Nat \ {0}
    /\ MAX_RECENT_RELAY_CACHE \in Nat \ {0}

VARIABLES
    known,       \* RelayState.known_by_peer, oldest first
    recent,      \* RelayState.recent_relay
    permits,     \* ValidatedRelay values not yet used
    valid,       \* history: items the core accepted
    sent,        \* history: Inv commands <<peer, item>> of the last step
    noted,       \* history: every item noted for a peer, in order
    relayed      \* history: every item relayed, in order

relay_vars == <<known, recent, permits, valid, sent, noted, relayed>>

\* Mutant: at capacity the newest item makes room.
InsertOverNewest(order, capacity, item) ==
    IF Contains(order, item) THEN order
    ELSE Append(IF Len(order) = capacity THEN Front(order) ELSE order, item)

\* BoundedInventory::insert; members is the range of order.
insert(order, capacity, item) ==
    IF Contains(order, item) THEN order
    ELSE Append(IF Len(order) = capacity THEN Tail(order) ELSE order, item)

\* note_peer_inventory for every peer of ps.
note_peer_inventory(ps, item) ==
    /\ known' = [p \in Peer |->
         IF p \in ps
         THEN insert(known[p], MAX_KNOWN_INVENTORY_PER_PEER, item)
         ELSE known[p]]
    /\ noted' = [p \in Peer |->
         IF p \in ps /\ ~Contains(known[p], item)
         THEN Append(noted[p], item) ELSE noted[p]]

\* note_recent_relay of an item that is not in the cache.
note_recent_relay(item) == insert(recent, MAX_RECENT_RELAY_CACHE, item)

peer_knows(p, item) == Contains(known[p], item)

\* What the bound counts.
NotesTaken == MapThenSumSet(LAMBDA p : Len(noted[p]), Peer)

\* A peer announces an item.
Announced(p, item) ==
    /\ NotesTaken < MaxNotes
    /\ note_peer_inventory({p}, item)
    /\ sent' = {}
    /\ UNCHANGED <<recent, permits, valid, relayed>>

\* validated_relay: an authorization exists for an accepted result only.
validated_relay(item, ok) == IF ok THEN {item} ELSE {}

\* submit_block and submit_transaction: the core accepts the item or not.
Submitted(item, ok) ==
    /\ permits' = permits \cup validated_relay(item, ok)
    /\ valid' = IF ok THEN valid \cup {item} ELSE valid
    /\ sent' = {}
    /\ UNCHANGED <<known, recent, noted, relayed>>

\* The peers relay_inventory announces to.
Targets(source, ps, item) ==
    {p \in ps \ source : ~peer_knows(p, item)}

\* relay_inventory: source is an option, ps the peers the caller passes.  The
\* item is marked as relayed even if there is nobody to tell.
relay_inventory(source, ps, item) ==
    /\ item \in permits
    /\ permits' = permits \ {item}
    /\ NotesTaken < MaxNotes /\ Len(relayed) < MaxNotes
    /\ IF Contains(recent, item)
       THEN /\ note_peer_inventory(source, item)
            /\ sent' = {}
            /\ UNCHANGED <<recent, relayed>>
       ELSE /\ recent' = note_recent_relay(item)
            /\ relayed' = Append(relayed, item)
            /\ note_peer_inventory(source \cup Targets(source, ps, item), item)
            /\ sent' = Targets(source, ps, item) \X {item}
    /\ UNCHANGED valid

RelayInit ==
    /\ known = [p \in Peer |-> <<>>]
    /\ recent = <<>>
    /\ permits = {} /\ valid = {} /\ sent = {}
    /\ noted = [p \in Peer |-> <<>>]
    /\ relayed = <<>>

RelayNext ==
    \E item \in Item :
        \/ \E p \in Peer : Announced(p, item)
        \/ \E ok \in BOOLEAN : Submitted(item, ok)
        \/ \E source \in {{}} \cup {{p} : p \in Peer}, ps \in SUBSET Peer :
              relay_inventory(source, ps, item)

RelaySpec == RelayInit /\ [][RelayNext]_relay_vars

-----------------------------------------------------------------------------
(* Properties. *)

\* The last n elements of a sequence, as a set.
LastOf(s, n) == {s[i] : i \in {j \in DOMAIN s : j > Len(s) - n}}

\* A peer is never told of an item it announced, submitted or was told of,
\* unless a whole inventory of other items was noted for it since
\* (relay_inventory and the eviction of BoundedInventory).
NoEcho ==
    [][\A p \in Peer, item \in Item :
         <<p, item>> \in sent' =>
            item \notin LastOf(noted[p], MAX_KNOWN_INVENTORY_PER_PEER)]_relay_vars

\* An item submitted again, by several peers or by one, is announced once as
\* long as it is among the last relayed items.
RelayedOnce ==
    \A i, j \in DOMAIN relayed :
        i < j /\ relayed[i] = relayed[j] => j - i > MAX_RECENT_RELAY_CACHE

\* Nothing is announced before the core accepted it.
ValidatedBeforeRelay ==
    /\ permits \subseteq valid
    /\ \A m \in sent : m[2] \in valid

=============================================================================
