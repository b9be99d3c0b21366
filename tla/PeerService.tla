---------------------------- MODULE PeerService ----------------------------
(***************************************************************************)
(* Connections between nodes: dialling and accepting, the handshake of     *)
(* both ends over an ordered byte stream, and each node's registry of      *)
(* established peers, which keeps one connection per remote process.  Two  *)
(* nodes may dial each other at the same time; both must then keep the     *)
(* same connection.  A node is its process nonce.  A step is what a task   *)
(* does between two awaits, or under the registry lock.  The pending guard *)
(* is dropped with the step that ends an attempt: nothing reads the        *)
(* registry's peers and the pending count together.                        *)
(***************************************************************************)
EXTENDS Integers, FiniteSets, Sequences

CONSTANTS
    Node,                    \* process nonces, compared as numbers
    Hello,                   \* what each node says of itself
    KNOWN,                   \* FeatureSet::KNOWN
    Conn,                    \* the connections that may be dialled
    Dialer, Acceptor,        \* the node at each end of a connection
    Faulty,                  \* connections that may time out, break or be dropped
    Coolable,                \* pairs <<n, m>>: n may put m's address in cooldown
    max_peers, max_outbound, max_inbound,
    MAX_PENDING_HANDSHAKES,
    MaxPeerId,               \* u64::MAX
    MaxSends                 \* bound: sending stops once an end has sent so many

(* PeerConfig::new *)
ASSUME ConfigAssumption ==
    /\ max_peers \in Nat \ {0} /\ max_outbound \in Nat /\ max_inbound \in Nat
    /\ max_outbound + max_inbound <= max_peers
    /\ MAX_PENDING_HANDSHAKES \in Nat /\ MaxPeerId \in Nat \ {0}

ASSUME ConnAssumption ==
    /\ Node \subseteq Nat /\ IsFiniteSet(Conn)
    /\ \A c \in Conn : Dialer[c] \in Node /\ Acceptor[c] \in Node

VARIABLES
    registry,   \* of each node, behind its lock
    end,        \* of each end of a connection: where its task is
    wire,       \* messages on their way to an end
    replaced,   \* <<node, peer id>> handed to the caller as replaced_peer
    cooling     \* <<n, m>>: m's address is in n's cooldown table

vars == <<registry, end, wire, replaced, cooling>>

Inbound == "Inbound"
Outbound == "Outbound"
End == Conn \X {Outbound, Inbound}
Self(e) == IF e[2] = Outbound THEN Dialer[e[1]] ELSE Acceptor[e[1]]
Other(e) == <<e[1], IF e[2] = Outbound THEN Inbound ELSE Outbound>>
Remote(e) == Self(Other(e))

NewRegistry ==
    [pending |-> 0, inbound |-> 0, outbound |-> 0, next_peer_id |-> 1, by_nonce |-> <<>>]

(* The states of an end: the handshake's, and around them "idle" (not      *)
(* dialled), "connecting", "arrived" (to be accepted), "session" (given to *)
(* the caller with a peer id), "closed" (with the error that closed it).   *)
At(state) == [state |-> state, negotiated |-> {}, peer_id |-> 0, error |-> "none", sent |-> 0]
Closed(error) == [At("closed") EXCEPT !.error = error]
Handshaking(e) == end[e].state \in {"HelloSent", "AckSent"}
Pending(e) == end[e].state \in {"connecting", "HelloSent", "AckSent"}

Init ==
    /\ registry = [n \in Node |-> NewRegistry]
    /\ end = [e \in End |-> At("idle")]
    /\ wire = [e \in End |-> <<>>]
    /\ replaced = {}
    /\ cooling = {}
-----------------------------------------------------------------------------
(* Feature and version negotiation; both ends must compute the same.       *)
validate_hello(h) == h.min > 0 /\ h.min <= h.max /\ h.required \subseteq h.offered
Lower(a, b) == IF a < b THEN a ELSE b
Higher(a, b) == IF a > b THEN a ELSE b

Compatible(l, r) ==
    /\ validate_hello(l) /\ validate_hello(r)
    /\ Higher(l.min, r.min) <= Lower(l.max, r.max)
    /\ l.required \subseteq r.offered /\ r.required \subseteq l.offered
    /\ l.required \subseteq KNOWN /\ r.required \subseteq KNOWN

(* Mutant: the version a node offers, not the highest both speak.          *)
OwnVersion(l, r) == [version |-> l.max, features |-> l.offered \cap r.offered \cap KNOWN]

(* The highest version and the features both speak.                        *)
negotiate(l, r) ==
    [version |-> Lower(l.max, r.max), features |-> l.offered \cap r.offered \cap KNOWN]

HelloAck(negotiated, remote) ==
    [type |-> "HelloAck", negotiated |-> negotiated, echo |-> remote]

HelloError(l, r) ==
    IF r.chain_id # l.chain_id THEN "WrongChain"
    ELSE IF r.nonce = l.nonce THEN "SelfPeer"
    ELSE IF ~Compatible(l, r) THEN "Negotiation"
    ELSE "none"


(* The connection dialled by the lower nonce is kept.                      *)
preferred_direction(local, remote) == IF local < remote THEN Outbound ELSE Inbound
-----------------------------------------------------------------------------
(* The registry, one lock per operation.                                   *)
Decrement(r, direction) ==
    IF direction = Inbound THEN [r EXCEPT !.inbound = IF @ = 0 THEN 0 ELSE @ - 1]
    ELSE [r EXCEPT !.outbound = IF @ = 0 THEN 0 ELSE @ - 1]

Increment(r, direction) ==
    IF direction = Inbound THEN [r EXCEPT !.inbound = @ + 1]
    ELSE [r EXCEPT !.outbound = @ + 1]

Count(r, direction) == IF direction = Inbound THEN r.inbound ELSE r.outbound
DirectionLimit(direction) == IF direction = Inbound THEN max_inbound ELSE max_outbound

acquire(r) == [r EXCEPT !.pending = @ + 1]
release(r) == [r EXCEPT !.pending = IF @ = 0 THEN 0 ELSE @ - 1]

RegisterError(r, n, remote, direction) ==
    LET preferred == preferred_direction(n, remote)
        known == remote \in DOMAIN r.by_nonce
    IN  IF known /\ (r.by_nonce[remote].direction = preferred \/ direction # preferred)
        THEN "DuplicatePeer"
        ELSE IF Count(r, direction) >= DirectionLimit(direction) THEN "DirectionLimit"
        ELSE IF ~known /\ Cardinality(DOMAIN r.by_nonce) >= max_peers THEN "PeerLimit"
        ELSE IF r.next_peer_id = MaxPeerId THEN "PeerIdExhausted"
        ELSE "none"

Registered(r, remote, direction) ==
    LET known == remote \in DOMAIN r.by_nonce
        freed == IF known THEN Decrement(r, r.by_nonce[remote].direction) ELSE r
        peer == [peer_id |-> r.next_peer_id, direction |-> direction]
    IN  [Increment(freed, direction) EXCEPT
            !.next_peer_id = @ + 1,
            !.by_nonce = [m \in DOMAIN @ \cup {remote} |-> IF m = remote THEN peer ELSE @[m]]]

(* Mutant: a registration removes whatever is under its nonce.             *)
DropAny(r, remote, peer_id) ==
    IF remote \in DOMAIN r.by_nonce
    THEN [Decrement(r, r.by_nonce[remote].direction) EXCEPT
              !.by_nonce = [m \in DOMAIN @ \ {remote} |-> @[m]]]
    ELSE r

(* Registration::drop: only the registration that is still in the table    *)
(* removes its entry.                                                      *)
Unregistered(r, remote, peer_id) ==
    IF remote \in DOMAIN r.by_nonce /\ r.by_nonce[remote].peer_id = peer_id
    THEN [Decrement(r, r.by_nonce[remote].direction) EXCEPT
              !.by_nonce = [m \in DOMAIN @ \ {remote} |-> @[m]]]
    ELSE r
-----------------------------------------------------------------------------
(* The task of end e finishes with an error: the connection and the        *)
(* pending guard are dropped.                                              *)
Fails(e, error) ==
    /\ end' = [end EXCEPT ![e] = Closed(error)]
    /\ wire' = [wire EXCEPT ![e] = <<>>]
    /\ registry' = [registry EXCEPT ![Self(e)] = release(@)]

Send(w, e, message) ==
    IF end[Other(e)].state = "closed" THEN w ELSE [w EXCEPT ![Other(e)] = Append(@, message)]

(* connect, up to the transport *)
Connect(c) ==
    LET e == <<c, Outbound>>
        n == Self(e)
    IN  /\ end[e].state = "idle"
        /\ end' = [end EXCEPT ![e] =
              IF <<n, Remote(e)>> \in cooling THEN Closed("Cooldown")
              ELSE IF registry[n].pending >= MAX_PENDING_HANDSHAKES
              THEN Closed("PendingHandshakeLimit")
              ELSE At("connecting")]
        /\ registry' = IF end'[e].state = "connecting"
                       THEN [registry EXCEPT ![n] = acquire(@)] ELSE registry
        /\ UNCHANGED <<wire, replaced, cooling>>

(* The transport connected: perform_handshake starts with Hello.           *)
Connected(c) ==
    LET e == <<c, Outbound>>
    IN  /\ end[e].state = "connecting"
        /\ end' = [end EXCEPT ![e] = At("HelloSent"), ![Other(e)] = At("arrived")]
        /\ wire' = [wire EXCEPT ![Other(e)] = <<[type |-> "Hello", hello |-> Hello[Self(e)]]>>]
        /\ UNCHANGED <<registry, replaced, cooling>>

ConnectFails(c) ==
    /\ c \in Faulty
    /\ end[<<c, Outbound>>].state = "connecting"
    /\ Fails(<<c, Outbound>>, "Network")
    /\ UNCHANGED <<replaced, cooling>>

accept_connection(c) ==
    LET e == <<c, Inbound>>
        n == Self(e)
        refused == \/ <<n, Remote(e)>> \in cooling
                   \/ registry[n].pending >= MAX_PENDING_HANDSHAKES
    IN  /\ end[e].state = "arrived"
        /\ UNCHANGED <<replaced, cooling>>
        /\ IF refused
           THEN /\ end' = [end EXCEPT ![e] = Closed("Refused")]
                /\ wire' = [wire EXCEPT ![e] = <<>>]
                /\ UNCHANGED registry
           ELSE /\ end' = [end EXCEPT ![e] = At("HelloSent")]
                /\ wire' = Send(wire, e, [type |-> "Hello", hello |-> Hello[n]])
                /\ registry' = [registry EXCEPT ![n] = acquire(@)]
-----------------------------------------------------------------------------
(* perform_handshake: the next message in its turn.                        *)
OnHello(e, remote) ==
    LET error == HelloError(Hello[Self(e)], remote)
        agreed == negotiate(Hello[Self(e)], remote)
    IN  IF end[e].state # "HelloSent" THEN Fails(e, "HandshakeViolation")
        ELSE IF error # "none" THEN Fails(e, error)
        ELSE /\ end' = [end EXCEPT ![e] = [@ EXCEPT !.state = "AckSent", !.negotiated = {agreed}]]
             /\ wire' = Send([wire EXCEPT ![e] = Tail(@)], e, HelloAck(agreed, remote.nonce))
             /\ UNCHANGED registry

(* The last message: the machine is Established and the peer registered.   *)
Establish(e) ==
    LET n == Self(e)
        error == RegisterError(registry[n], n, Remote(e), e[2])
    IN  IF error # "none" THEN Fails(e, error) /\ UNCHANGED replaced
        ELSE /\ end' = [end EXCEPT ![e] =
                  [@ EXCEPT !.state = "session", !.peer_id = registry[n].next_peer_id]]
             /\ wire' = [wire EXCEPT ![e] = Tail(@)]
             /\ replaced' = replaced \cup
                    {<<n, registry[n].by_nonce[m].peer_id>> :
                        m \in {Remote(e)} \cap DOMAIN registry[n].by_nonce}
             /\ registry' = [registry EXCEPT
                    ![n] = release(Registered(@, Remote(e), e[2]))]

OnHelloAck(e, ack) ==
    IF end[e].state # "AckSent"
    THEN Fails(e, "HandshakeViolation") /\ UNCHANGED replaced
    ELSE IF {ack.negotiated} # end[e].negotiated \/ ack.echo # Hello[Self(e)].nonce
    THEN Fails(e, "AckMismatch") /\ UNCHANGED replaced
    ELSE Establish(e)

OnPing(w, e, message) ==
    IF message.type = "Ping" THEN Send(w, e, [type |-> "Pong"]) ELSE w

on_message(e) ==
    LET message == Head(wire[e])
    IN  /\ Handshaking(e)
        /\ wire[e] # <<>>
        /\ IF message.type = "HelloAck" THEN OnHelloAck(e, message)
           ELSE /\ UNCHANGED replaced
                /\ IF message.type = "Hello" THEN OnHello(e, message.hello)
                   ELSE IF message.type = "Data" THEN Fails(e, "HandshakeViolation")
                   ELSE /\ wire' = OnPing([wire EXCEPT ![e] = Tail(@)], e, message)
                        /\ UNCHANGED <<registry, end>>
        /\ UNCHANGED cooling

HandshakeTimeout(e) ==
    /\ e[1] \in Faulty
    /\ Handshaking(e)
    /\ Fails(e, "HandshakeTimeout")
    /\ UNCHANGED <<replaced, cooling>>
-----------------------------------------------------------------------------
(* A session sends and reads; what it reads is the caller's business.      *)
SendMessage(e, type) ==
    /\ end[e].state = "session"
    /\ \A d \in End : end[d].sent < MaxSends
    /\ end' = [end EXCEPT ![e].sent = @ + 1]
    /\ wire' = Send(wire, e, [type |-> type])
    /\ UNCHANGED <<registry, replaced, cooling>>

read_event(e) ==
    /\ end[e].state = "session"
    /\ wire[e] # <<>>
    /\ wire' = [wire EXCEPT ![e] = Tail(@)]
    /\ UNCHANGED <<registry, end, replaced, cooling>>

DropSession(e, error) ==
    /\ end' = [end EXCEPT ![e] = Closed(error)]
    /\ wire' = [wire EXCEPT ![e] = <<>>]
    /\ registry' = [registry EXCEPT
           ![Self(e)] = Unregistered(@, Remote(e), end[e].peer_id)]
    /\ UNCHANGED <<replaced, cooling>>

(* The caller drops a session: one it was told was replaced, or, on a      *)
(* faulty connection, any (liveness timeout, misbehaviour, its own wish).  *)
Disconnect(e) ==
    /\ end[e].state = "session"
    /\ e[1] \in Faulty \/ <<Self(e), end[e].peer_id>> \in replaced
    /\ DropSession(e, "Requested")

(* The other end is gone: a read fails, at once or after what was sent.    *)
PeerGone(e) ==
    /\ end[Other(e)].state = "closed"
    /\ \/ Handshaking(e) /\ Fails(e, "Network") /\ UNCHANGED <<replaced, cooling>>
       \/ end[e].state = "session" /\ DropSession(e, "Network")

cooldown_remote(n, m) ==
    /\ <<n, m>> \in Coolable \ cooling
    /\ cooling' = cooling \cup {<<n, m>>}
    /\ UNCHANGED <<registry, end, wire, replaced>>

CooldownOver(n, m) ==
    /\ <<n, m>> \in cooling
    /\ cooling' = cooling \ {<<n, m>>}
    /\ UNCHANGED <<registry, end, wire, replaced>>
-----------------------------------------------------------------------------
Next ==
    \/ \E c \in Conn : Connect(c) \/ Connected(c) \/ ConnectFails(c) \/ accept_connection(c)
    \/ \E e \in End :
        \/ on_message(e) \/ HandshakeTimeout(e) \/ read_event(e)
        \/ Disconnect(e) \/ PeerGone(e)
        \/ \E type \in {"Ping", "Data"} : SendMessage(e, type)
    \/ \E n, m \in Node : cooldown_remote(n, m) \/ CooldownOver(n, m)

(* A transport that is up connects, an accept loop accepts, and a task     *)
(* whose connection has bytes or an error to read is scheduled.            *)
Fairness ==
    /\ \A c \in Conn : WF_vars(Connected(c)) /\ WF_vars(accept_connection(c))
    /\ \A e \in End : WF_vars(on_message(e)) /\ WF_vars(PeerGone(e))

Spec == Init /\ [][Next]_vars
FairSpec == Spec /\ Fairness
-----------------------------------------------------------------------------
Session(e) == end[e].state = "session"
InTable(e) ==
    /\ Session(e)
    /\ Remote(e) \in DOMAIN registry[Self(e)].by_nonce
    /\ registry[Self(e)].by_nonce[Remote(e)] = [peer_id |-> end[e].peer_id, direction |-> e[2]]

(* The counts that the limits are compared with are the counts of the      *)
(* table and of the attempts under way, after any order of registrations,  *)
(* replacements and late drops (service.rs register, Registration::drop).  *)
CountsFollowTable ==
    \A n \in Node :
        LET r == registry[n]
            Of(direction) == {m \in DOMAIN r.by_nonce : r.by_nonce[m].direction = direction}
        IN  /\ r.inbound = Cardinality(Of(Inbound))
            /\ r.outbound = Cardinality(Of(Outbound))
            /\ r.pending = Cardinality({e \in End : Self(e) = n /\ Pending(e)})

(* No node has more peers, in either direction or together, or more        *)
(* attempts under way than its configuration allows.                       *)
WithinLimits ==
    \A n \in Node :
        /\ registry[n].inbound <= max_inbound
        /\ registry[n].outbound <= max_outbound
        /\ Cardinality(DOMAIN registry[n].by_nonce) <= max_peers
        /\ registry[n].pending <= MAX_PENDING_HANDSHAKES

(* The table lists sessions that live, and a live session that is not in   *)
(* it is one the caller was told is replaced: the late drop of a replaced  *)
(* session never takes its successor out of the table.                     *)
TableIsLive ==
    /\ \A e \in End : Session(e) => InTable(e) \/ <<Self(e), end[e].peer_id>> \in replaced
    /\ \A n \in Node : \A m \in DOMAIN registry[n].by_nonce :
        \E e \in End : Self(e) = n /\ Remote(e) = m /\ InTable(e)

(* Two nodes that both run this handshake never accuse each other: no      *)
(* Hello, HelloAck or message of an established peer arrives out of turn,  *)
(* and each end's acknowledgement is what the other end computed.          *)
NeverAccused ==
    \A e \in End : end[e].error \notin {"HandshakeViolation", "AckMismatch"}

Kept(c) == InTable(<<c, Outbound>>) /\ InTable(<<c, Inbound>>)
SamePair(c) == {d \in Conn : {Dialer[d], Acceptor[d]} = {Dialer[c], Acceptor[c]}}
Preferred(c) == preferred_direction(Dialer[c], Acceptor[c]) = Outbound

=============================================================================
