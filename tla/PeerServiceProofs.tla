------------------------- MODULE PeerServiceProofs -------------------------
(***************************************************************************)
(* The registry's properties for any nodes, connections and limits.        *)
(***************************************************************************)
EXTENDS PeerService, FiniteSetTheorems, TLAPS

Direction == {Inbound, Outbound}
Entry == [peer_id : Nat, direction : Direction]
Table == UNION {[D -> Entry] : D \in SUBSET Node}
Registry == [pending : Nat, inbound : Nat, outbound : Nat, next_peer_id : Nat,
             by_nonce : Table]

Of(r, direction) == {m \in DOMAIN r.by_nonce : r.by_nonce[m].direction = direction}

(* The two counts of a registry are those of its table.                     *)
Counted(r) ==
  /\ r \in Registry /\ IsFiniteSet(DOMAIN r.by_nonce)
  /\ r.inbound = Cardinality(Of(r, Inbound))
  /\ r.outbound = Cardinality(Of(r, Outbound))

LEMMA TableShape ==
  ASSUME NEW t \in Table
  PROVE  /\ t = [m \in DOMAIN t |-> t[m]]
         /\ DOMAIN t \subseteq Node
         /\ \A m \in DOMAIN t : t[m] \in Entry
<1>1. PICK D \in SUBSET Node : t \in [D -> Entry]
  BY DEF Table
<1> QED
  BY <1>1

LEMMA TableBuilt ==
  ASSUME NEW D \in SUBSET Node, NEW t \in [D -> Entry]
  PROVE  t \in Table
BY DEF Table

(* A peer leaves the table and its direction's count.                       *)
LEMMA TakeOut ==
  ASSUME NEW r, Counted(r), NEW remote \in DOMAIN r.by_nonce,
         NEW o \in Registry,
         o.by_nonce = [m \in DOMAIN r.by_nonce \ {remote} |-> r.by_nonce[m]],
         \A d \in Direction :
            Count(o, d) = IF d = r.by_nonce[remote].direction
                          THEN IF Count(r, d) = 0 THEN 0 ELSE Count(r, d) - 1
                          ELSE Count(r, d)
  PROVE  Counted(o) /\ Cardinality(DOMAIN o.by_nonce) = Cardinality(DOMAIN r.by_nonce) - 1
<1>1. IsFiniteSet(DOMAIN r.by_nonce)
  BY DEF Counted
<1>2. DOMAIN o.by_nonce = DOMAIN r.by_nonce \ {remote}
  OBVIOUS
<1>3. /\ IsFiniteSet(DOMAIN o.by_nonce)
      /\ Cardinality(DOMAIN o.by_nonce) = Cardinality(DOMAIN r.by_nonce) - 1
  BY <1>1, <1>2, FS_RemoveElement
<1>4. ASSUME NEW d \in Direction
      PROVE  Count(o, d) = Cardinality(Of(o, d))
  <2>1. Count(r, d) = Cardinality(Of(r, d))
    BY DEF Counted, Count, Direction, Inbound, Outbound
  <2>2. IsFiniteSet(Of(r, d))
    <3>1. Of(r, d) \in SUBSET DOMAIN r.by_nonce
      BY DEF Of
    <3> QED
      BY <1>1, <3>1, FS_Subset
  <2>3. CASE d = r.by_nonce[remote].direction
    <3>1. remote \in Of(r, d) /\ Of(o, d) = Of(r, d) \ {remote}
      BY <1>2, <2>3 DEF Of
    <3>2. Cardinality(Of(o, d)) = Cardinality(Of(r, d)) - 1
      BY <2>2, <3>1, FS_RemoveElement
    <3>3. Cardinality(Of(r, d)) # 0
      BY <2>2, <3>1, FS_EmptySet
    <3> QED
      BY <2>1, <2>3, <3>2, <3>3
  <2>4. CASE d # r.by_nonce[remote].direction
    <3>1. Of(o, d) = Of(r, d)
      BY <1>2, <2>4 DEF Of
    <3> QED
      BY <2>1, <2>4, <3>1
  <2> QED
    BY <2>3, <2>4
<1>5. o.inbound = Cardinality(Of(o, Inbound)) /\ o.outbound = Cardinality(Of(o, Outbound))
  BY <1>4 DEF Count, Direction, Inbound, Outbound
<1> QED
  BY <1>3, <1>5 DEF Counted

(* A new peer enters the table and its direction's count.                   *)
LEMMA PutIn ==
  ASSUME NEW r, Counted(r), NEW remote, remote \notin DOMAIN r.by_nonce,
         NEW peer \in Entry, NEW o \in Registry,
         o.by_nonce = [m \in DOMAIN r.by_nonce \cup {remote} |->
                          IF m = remote THEN peer ELSE r.by_nonce[m]],
         \A d \in Direction :
            Count(o, d) = IF d = peer.direction THEN Count(r, d) + 1 ELSE Count(r, d)
  PROVE  Counted(o) /\ Cardinality(DOMAIN o.by_nonce) = Cardinality(DOMAIN r.by_nonce) + 1
<1>1. IsFiniteSet(DOMAIN r.by_nonce)
  BY DEF Counted
<1>2. DOMAIN o.by_nonce = DOMAIN r.by_nonce \cup {remote}
  OBVIOUS
<1>3. /\ IsFiniteSet(DOMAIN o.by_nonce)
      /\ Cardinality(DOMAIN o.by_nonce) = Cardinality(DOMAIN r.by_nonce) + 1
  BY <1>1, <1>2, FS_AddElement
<1>4. ASSUME NEW d \in Direction
      PROVE  Count(o, d) = Cardinality(Of(o, d))
  <2>1. Count(r, d) = Cardinality(Of(r, d))
    BY DEF Counted, Count, Direction, Inbound, Outbound
  <2>2. IsFiniteSet(Of(r, d))
    <3>1. Of(r, d) \in SUBSET DOMAIN r.by_nonce
      BY DEF Of
    <3> QED
      BY <1>1, <3>1, FS_Subset
  <2>3. CASE d = peer.direction
    <3>1. remote \notin Of(r, d) /\ Of(o, d) = Of(r, d) \cup {remote}
      BY <1>2, <2>3 DEF Of
    <3>2. Cardinality(Of(o, d)) = Cardinality(Of(r, d)) + 1
      BY <2>2, <3>1, FS_AddElement
    <3> QED
      BY <2>1, <2>3, <3>2
  <2>4. CASE d # peer.direction
    <3>1. Of(o, d) = Of(r, d)
      BY <1>2, <2>4 DEF Of
    <3> QED
      BY <2>1, <2>4, <3>1
  <2> QED
    BY <2>3, <2>4
<1>5. o.inbound = Cardinality(Of(o, Inbound)) /\ o.outbound = Cardinality(Of(o, Outbound))
  BY <1>4 DEF Count, Direction, Inbound, Outbound
<1> QED
  BY <1>3, <1>5 DEF Counted

(* Registration::drop keeps the counts, whichever entry it finds.           *)
LEMMA UnregisteredCounts ==
  ASSUME NEW r, Counted(r), NEW remote, NEW peer_id,
         NEW o, o = Unregistered(r, remote, peer_id)
  PROVE  /\ Counted(o)
         /\ o.pending = r.pending /\ o.next_peer_id = r.next_peer_id
         /\ o.inbound <= r.inbound /\ o.outbound <= r.outbound
         /\ Cardinality(DOMAIN o.by_nonce) <= Cardinality(DOMAIN r.by_nonce)
<1> DEFINE found == remote \in DOMAIN r.by_nonce /\ r.by_nonce[remote].peer_id = peer_id
<1>1. r \in Registry /\ IsFiniteSet(DOMAIN r.by_nonce)
  BY DEF Counted
<1>2. Cardinality(DOMAIN r.by_nonce) \in Nat
  BY <1>1, FS_CardinalityType
<1>3. CASE ~found
  BY <1>1, <1>2, <1>3 DEF Unregistered, Registry
<1>4. CASE found
  <2> DEFINE direction == r.by_nonce[remote].direction
             rest == [m \in DOMAIN r.by_nonce \ {remote} |-> r.by_nonce[m]]
  <2>1. direction \in Direction
    BY <1>1, <1>4, TableShape DEF Registry, Entry
  <2>2. rest \in Table
    <3>1. DOMAIN r.by_nonce \ {remote} \in SUBSET Node /\ rest \in [DOMAIN r.by_nonce \ {remote} -> Entry]
      BY <1>1, TableShape DEF Registry
    <3> QED
      BY <3>1, TableBuilt
  <2>3. o = [Decrement(r, direction) EXCEPT !.by_nonce = rest]
    BY <1>1, <1>4 DEF Unregistered, Decrement, Registry
  <2> HIDE DEF direction, rest
  <2>4. /\ o \in Registry /\ o.by_nonce = rest
        /\ o.pending = r.pending /\ o.next_peer_id = r.next_peer_id
        /\ o.inbound <= r.inbound /\ o.outbound <= r.outbound
        /\ \A d \in Direction :
              Count(o, d) = IF d = direction
                            THEN IF Count(r, d) = 0 THEN 0 ELSE Count(r, d) - 1
                            ELSE Count(r, d)
    <3>1. CASE direction = Inbound
      <4>1. o = [pending |-> r.pending,
                 inbound |-> IF r.inbound = 0 THEN 0 ELSE r.inbound - 1,
                 outbound |-> r.outbound,
                 next_peer_id |-> r.next_peer_id, by_nonce |-> rest]
        BY <1>1, <2>3, <3>1 DEF Decrement, Registry, Inbound, Outbound
      <4>2. o \in Registry
        BY <1>1, <2>2, <4>1 DEF Registry
      <4> QED
        BY <1>1, <3>1, <4>1, <4>2 DEF Registry, Count, Direction, Inbound, Outbound
    <3>2. CASE direction = Outbound
      <4>1. o = [pending |-> r.pending,
                 inbound |-> r.inbound,
                 outbound |-> IF r.outbound = 0 THEN 0 ELSE r.outbound - 1,
                 next_peer_id |-> r.next_peer_id, by_nonce |-> rest]
        BY <1>1, <2>3, <3>2 DEF Decrement, Registry, Inbound, Outbound
      <4>2. o \in Registry
        BY <1>1, <2>2, <4>1 DEF Registry
      <4> QED
        BY <1>1, <3>2, <4>1, <4>2 DEF Registry, Count, Direction, Inbound, Outbound
    <3> QED
      BY <2>1, <3>1, <3>2 DEF Direction
  <2>5. Counted(o) /\ Cardinality(DOMAIN o.by_nonce) = Cardinality(DOMAIN r.by_nonce) - 1
    BY <1>4, <2>4, TakeOut DEF rest, direction
  <2> QED
    BY <1>2, <1>4, <2>4, <2>5 DEF rest
<1> QED
  BY <1>3, <1>4

(* register keeps the counts, for a new peer and for a replaced one.        *)
LEMMA RegisteredCounts ==
  ASSUME NEW r, Counted(r), NEW remote \in Node, NEW direction \in Direction,
         NEW o, o = Registered(r, remote, direction)
  PROVE  /\ Counted(o)
         /\ o.pending = r.pending /\ o.next_peer_id = r.next_peer_id + 1
         /\ \A d \in Direction :
               Count(o, d) <= IF d = direction THEN Count(r, d) + 1 ELSE Count(r, d)
         /\ Cardinality(DOMAIN o.by_nonce) =
               IF remote \in DOMAIN r.by_nonce THEN Cardinality(DOMAIN r.by_nonce)
               ELSE Cardinality(DOMAIN r.by_nonce) + 1
<1> DEFINE peer == [peer_id |-> r.next_peer_id, direction |-> direction]
           known == remote \in DOMAIN r.by_nonce
           old == r.by_nonce[remote].direction
           rest == [m \in DOMAIN r.by_nonce \ {remote} |-> r.by_nonce[m]]
           more == [m \in DOMAIN r.by_nonce \cup {remote} |->
                       IF m = remote THEN peer ELSE r.by_nonce[m]]
           freed == IF known THEN Decrement(r, old) ELSE r
           mid == [freed EXCEPT !.by_nonce = rest]
<1>1. r \in Registry /\ IsFiniteSet(DOMAIN r.by_nonce)
  BY DEF Counted
<1>2. peer \in Entry /\ (known => old \in Direction)
  BY <1>1, TableShape DEF Registry, Entry
<1>3. rest \in Table /\ more \in Table
  <2>1. /\ DOMAIN r.by_nonce \ {remote} \in SUBSET Node
        /\ rest \in [DOMAIN r.by_nonce \ {remote} -> Entry]
        /\ DOMAIN r.by_nonce \cup {remote} \in SUBSET Node
        /\ more \in [DOMAIN r.by_nonce \cup {remote} -> Entry]
    BY <1>1, <1>2, TableShape DEF Registry
  <2> QED
    BY <2>1, TableBuilt
<1>4. Cardinality(DOMAIN r.by_nonce) \in Nat
  BY <1>1, FS_CardinalityType
<1>5. /\ freed \in Registry /\ freed.by_nonce = r.by_nonce
      /\ freed.pending = r.pending /\ freed.next_peer_id = r.next_peer_id
      /\ \A d \in Direction :
            Count(freed, d) = IF known /\ d = old
                              THEN IF Count(r, d) = 0 THEN 0 ELSE Count(r, d) - 1
                              ELSE Count(r, d)
  <2>1. CASE ~known
    BY <1>1, <2>1
  <2>2. CASE known /\ old = Inbound
    BY <1>1, <2>2 DEF Decrement, Registry, Count, Direction, Inbound, Outbound
  <2>3. CASE known /\ old = Outbound
    BY <1>1, <2>3 DEF Decrement, Registry, Count, Direction, Inbound, Outbound
  <2> QED
    BY <1>2, <2>1, <2>2, <2>3 DEF Direction
<1>6. o = [Increment(freed, direction) EXCEPT !.next_peer_id = @ + 1, !.by_nonce = more]
  <2>1. Increment(freed, direction).by_nonce = r.by_nonce
    BY <1>5 DEF Increment, Registry
  <2> QED
    BY <2>1 DEF Registered
<1> HIDE DEF rest, more, freed
<1>7. /\ mid \in Registry /\ mid.by_nonce = rest
      /\ \A d \in Direction : Count(mid, d) = Count(freed, d)
  BY <1>3, <1>5 DEF Registry, Count
<1> HIDE DEF mid
<1>8. /\ o \in Registry /\ o.by_nonce = more
      /\ o.pending = r.pending /\ o.next_peer_id = r.next_peer_id + 1
      /\ \A d \in Direction :
            Count(o, d) = IF d = direction THEN Count(freed, d) + 1 ELSE Count(freed, d)
  <2>1. CASE direction = Inbound
    <3>1. o = [pending |-> freed.pending, inbound |-> freed.inbound + 1,
               outbound |-> freed.outbound, next_peer_id |-> freed.next_peer_id + 1,
               by_nonce |-> more]
      BY <1>5, <1>6, <2>1 DEF Increment, Registry, Inbound, Outbound
    <3>2. o \in Registry
      BY <1>3, <1>5, <3>1 DEF Registry
    <3> QED
      BY <1>5, <2>1, <3>1, <3>2 DEF Count, Direction, Inbound, Outbound
  <2>2. CASE direction = Outbound
    <3>1. o = [pending |-> freed.pending, inbound |-> freed.inbound,
               outbound |-> freed.outbound + 1, next_peer_id |-> freed.next_peer_id + 1,
               by_nonce |-> more]
      BY <1>5, <1>6, <2>2 DEF Increment, Registry, Inbound, Outbound
    <3>2. o \in Registry
      BY <1>3, <1>5, <3>1 DEF Registry
    <3> QED
      BY <1>5, <2>2, <3>1, <3>2 DEF Count, Direction, Inbound, Outbound
  <2> QED
    BY <2>1, <2>2 DEF Direction
<1>9. /\ Counted(mid)
      /\ Cardinality(DOMAIN mid.by_nonce) =
            IF known THEN Cardinality(DOMAIN r.by_nonce) - 1 ELSE Cardinality(DOMAIN r.by_nonce)
      /\ remote \notin DOMAIN mid.by_nonce
  <2>1. CASE known
    <3>1. \A d \in Direction :
            Count(mid, d) = IF d = r.by_nonce[remote].direction
                            THEN IF Count(r, d) = 0 THEN 0 ELSE Count(r, d) - 1
                            ELSE Count(r, d)
      BY <1>5, <1>7, <2>1
    <3>2. /\ Counted(mid)
          /\ Cardinality(DOMAIN mid.by_nonce) = Cardinality(DOMAIN r.by_nonce) - 1
      BY <1>7, <2>1, <3>1, TakeOut DEF rest
    <3> QED
      BY <1>7, <2>1, <3>2 DEF rest
  <2>2. CASE ~known
    <3>1. rest = r.by_nonce
      <4>1. r.by_nonce = [m \in DOMAIN r.by_nonce |-> r.by_nonce[m]]
        BY <1>1, TableShape DEF Registry
      <4>2. DOMAIN r.by_nonce \ {remote} = DOMAIN r.by_nonce
        BY <2>2
      <4> QED
        BY <4>1, <4>2 DEF rest
    <3>2. Of(mid, Inbound) = Of(r, Inbound) /\ Of(mid, Outbound) = Of(r, Outbound)
      BY <1>7, <3>1 DEF Of
    <3>3. mid.inbound = r.inbound /\ mid.outbound = r.outbound
      BY <1>5, <1>7, <2>2 DEF Count, Direction, Inbound, Outbound
    <3> QED
      BY <1>1, <1>7, <2>2, <3>1, <3>2, <3>3 DEF Counted
  <2> QED
    BY <2>1, <2>2
<1>10. more = [m \in DOMAIN mid.by_nonce \cup {remote} |->
                  IF m = remote THEN peer ELSE mid.by_nonce[m]]
  BY <1>7 DEF more, rest
<1>11. /\ Counted(o)
       /\ Cardinality(DOMAIN o.by_nonce) = Cardinality(DOMAIN mid.by_nonce) + 1
  <2>1. \A d \in Direction :
          Count(o, d) = IF d = peer.direction THEN Count(mid, d) + 1 ELSE Count(mid, d)
    BY <1>7, <1>8
  <2> QED
    BY <1>2, <1>8, <1>9, <1>10, <2>1, PutIn
<1>12. \A d \in Direction :
          Count(o, d) <= IF d = direction THEN Count(r, d) + 1 ELSE Count(r, d)
  <2>1. \A d \in Direction : Count(r, d) \in Nat
    BY <1>1 DEF Registry, Count
  <2> QED
    BY <1>5, <1>8, <2>1
<1>13. Cardinality(DOMAIN o.by_nonce) =
          IF known THEN Cardinality(DOMAIN r.by_nonce) ELSE Cardinality(DOMAIN r.by_nonce) + 1
  BY <1>4, <1>9, <1>11
<1> QED
  BY <1>8, <1>11, <1>12, <1>13 DEF more
LEMMA RegisteredTable ==
  ASSUME NEW r \in Registry, NEW remote, NEW direction,
         NEW o, o = Registered(r, remote, direction)
  PROVE  /\ DOMAIN o.by_nonce = DOMAIN r.by_nonce \cup {remote}
         /\ o.by_nonce[remote] = [peer_id |-> r.next_peer_id, direction |-> direction]
         /\ \A m \in DOMAIN r.by_nonce \ {remote} : o.by_nonce[m] = r.by_nonce[m]
<1>1. o.by_nonce =
        [m \in DOMAIN r.by_nonce \cup {remote} |->
           IF m = remote THEN [peer_id |-> r.next_peer_id, direction |-> direction]
           ELSE r.by_nonce[m]]
  BY DEF Registered, Increment, Decrement, Registry
<1> QED
  BY <1>1
-----------------------------------------------------------------------------
PendingAt(n) == {e \in End : Self(e) = n /\ Pending(e)}

IsEnd(x) ==
  \E state, negotiated, error, sent : \E peer_id \in Nat :
    x = [state |-> state, negotiated |-> negotiated, peer_id |-> peer_id,
         error |-> error, sent |-> sent]

(* An accepting end waits for its connection.                               *)
EndShape ==
  /\ end = [e \in End |-> end[e]]
  /\ \A e \in End : IsEnd(end[e])
  /\ \A c \in Conn :
        end[<<c, Outbound>>].state \in {"idle", "connecting"}
            => end[<<c, Inbound>>].state = "idle"

Counts ==
  /\ registry = [n \in Node |-> registry[n]]
  /\ \A n \in Node :
        /\ Counted(registry[n])
        /\ registry[n].pending = Cardinality(PendingAt(n))

(* Peer ids are not given twice, so that a late drop knows its own entry.   *)
Ids ==
  /\ \A e \in End : Session(e) => end[e].peer_id < registry[Self(e)].next_peer_id
  /\ \A e, f \in End :
        Session(e) /\ Session(f) /\ Self(e) = Self(f) /\ end[e].peer_id = end[f].peer_id
            => e = f

IInv == EndShape /\ Counts /\ WithinLimits /\ Ids /\ TableIsLive

LEMMA MakeEnd ==
  ASSUME NEW state, NEW negotiated, NEW peer_id \in Nat, NEW error, NEW sent
  PROVE  IsEnd([state |-> state, negotiated |-> negotiated, peer_id |-> peer_id,
                error |-> error, sent |-> sent])
BY Zenon DEF IsEnd

LEMMA EndId ==
  ASSUME NEW x, IsEnd(x)
  PROVE  x.peer_id \in Nat
<1>1. PICK state, negotiated, error, sent : \E peer_id \in Nat :
        x = [state |-> state, negotiated |-> negotiated, peer_id |-> peer_id,
             error |-> error, sent |-> sent]
  BY DEF IsEnd
<1>2. PICK peer_id \in Nat :
        x = [state |-> state, negotiated |-> negotiated, peer_id |-> peer_id,
             error |-> error, sent |-> sent]
  BY <1>1
<1> QED
  BY <1>2

(* The three ways an end is updated.                                        *)
Welcomed(x, i) == [x EXCEPT !.state = "session", !.peer_id = i]
Acked(x, g) == [x EXCEPT !.state = "AckSent", !.negotiated = g]
Sent(x, t) == [x EXCEPT !.sent = t]

LEMMA SessionEnd ==
  ASSUME NEW x, IsEnd(x), NEW i \in Nat
  PROVE  LET y == Welcomed(x, i) IN IsEnd(y) /\ y.state = "session" /\ y.peer_id = i
<1>1. PICK state, negotiated, error, sent : \E peer_id \in Nat :
        x = [state |-> state, negotiated |-> negotiated, peer_id |-> peer_id,
             error |-> error, sent |-> sent]
  BY DEF IsEnd
<1>2. PICK peer_id \in Nat :
        x = [state |-> state, negotiated |-> negotiated, peer_id |-> peer_id,
             error |-> error, sent |-> sent]
  BY <1>1
<1> DEFINE z == [x EXCEPT !.state = "session"]
<1>3. z = [state |-> "session", negotiated |-> negotiated, peer_id |-> peer_id,
           error |-> error, sent |-> sent]
  BY <1>2
<1> HIDE DEF z
<1>4. [z EXCEPT !.peer_id = i] =
        [state |-> "session", negotiated |-> negotiated, peer_id |-> i, error |-> error, sent |-> sent]
  BY <1>3
<1>5. Welcomed(x, i) =
        [state |-> "session", negotiated |-> negotiated, peer_id |-> i, error |-> error, sent |-> sent]
  BY <1>4 DEF z, Welcomed
<1> QED
  BY <1>2, <1>5, MakeEnd

LEMMA AckEnd ==
  ASSUME NEW x, IsEnd(x), NEW g
  PROVE  LET y == Acked(x, g) IN IsEnd(y) /\ y.state = "AckSent"
<1>1. PICK state, negotiated, error, sent : \E peer_id \in Nat :
        x = [state |-> state, negotiated |-> negotiated, peer_id |-> peer_id,
             error |-> error, sent |-> sent]
  BY DEF IsEnd
<1>2. PICK peer_id \in Nat :
        x = [state |-> state, negotiated |-> negotiated, peer_id |-> peer_id,
             error |-> error, sent |-> sent]
  BY <1>1
<1> DEFINE z == [x EXCEPT !.state = "AckSent"]
<1>3. z = [state |-> "AckSent", negotiated |-> negotiated, peer_id |-> peer_id,
           error |-> error, sent |-> sent]
  BY <1>2
<1> HIDE DEF z
<1>4. [z EXCEPT !.negotiated = g] =
        [state |-> "AckSent", negotiated |-> g, peer_id |-> peer_id, error |-> error, sent |-> sent]
  BY <1>3
<1>5. Acked(x, g) =
        [state |-> "AckSent", negotiated |-> g, peer_id |-> peer_id, error |-> error, sent |-> sent]
  BY <1>4 DEF z, Acked
<1> QED
  BY <1>2, <1>5, MakeEnd

LEMMA SentEnd ==
  ASSUME NEW x, IsEnd(x), NEW t
  PROVE  LET y == Sent(x, t) IN IsEnd(y) /\ y.state = x.state /\ y.peer_id = x.peer_id
<1>1. PICK state, negotiated, error, sent : \E peer_id \in Nat :
        x = [state |-> state, negotiated |-> negotiated, peer_id |-> peer_id,
             error |-> error, sent |-> sent]
  BY DEF IsEnd
<1>2. PICK peer_id \in Nat :
        x = [state |-> state, negotiated |-> negotiated, peer_id |-> peer_id,
             error |-> error, sent |-> sent]
  BY <1>1
<1>5. Sent(x, t) =
        [state |-> state, negotiated |-> negotiated, peer_id |-> peer_id, error |-> error,
         sent |-> t]
  BY <1>2 DEF Sent
<1> QED
  BY <1>2, <1>5, MakeEnd

LEMMA EndsAreNodes ==
  ASSUME NEW e \in End
  PROVE  /\ Self(e) \in Node /\ Remote(e) \in Node /\ Other(e) \in End
         /\ e[2] \in Direction /\ e[1] \in Conn /\ e = <<e[1], e[2]>>
BY ConnAssumption DEF End, Self, Remote, Other, Direction, Inbound, Outbound

LEMMA EndsAreFinite == \A n : IsFiniteSet(PendingAt(n))
<1>1. IsFiniteSet({Outbound, Inbound})
  <2>1. IsFiniteSet({Outbound})
    BY FS_EmptySet, FS_AddElement
  <2> QED
    BY <2>1, FS_AddElement
<1>2. IsFiniteSet(End)
  BY <1>1, ConnAssumption, FS_Product DEF End
<1>3. \A n : PendingAt(n) \in SUBSET End
  BY DEF PendingAt
<1> QED
  BY <1>2, <1>3, FS_Subset

LEMMA InitIInv == Init => IInv
<1> SUFFICES ASSUME Init PROVE IInv
  OBVIOUS
<1>1. \A e \in End : end[e] = At("idle")
  BY DEF Init
<1>2. EndShape
  <2>1. IsEnd(At("idle"))
    BY MakeEnd DEF At
  <2>2. \A c \in Conn : <<c, Inbound>> \in End
    BY DEF End
  <2> QED
    BY <1>1, <2>1, <2>2 DEF Init, EndShape, At
<1>3. \A e \in End : ~Pending(e) /\ ~Session(e)
  BY <1>1 DEF Pending, Session, At
<1>4. \A n : PendingAt(n) = {}
  BY <1>3 DEF PendingAt
<1>5. <<>> \in Table /\ DOMAIN <<>> = {}
  <2>1. <<>> \in [{} -> Entry]
    OBVIOUS
  <2> QED
    BY <2>1, TableBuilt
<1>6. Counted(NewRegistry) /\ NewRegistry.pending = 0
  <2>1. NewRegistry \in Registry
    BY <1>5 DEF NewRegistry, Registry
  <2>2. DOMAIN NewRegistry.by_nonce = {}
    BY <1>5 DEF NewRegistry
  <2>3. Of(NewRegistry, Inbound) = {} /\ Of(NewRegistry, Outbound) = {}
    BY <2>2 DEF Of
  <2> QED
    BY <2>1, <2>2, <2>3, FS_EmptySet DEF Counted, NewRegistry
<1>7. Counts
  BY <1>4, <1>6, FS_EmptySet DEF Init, Counts
<1>8. WithinLimits
  <2>1. NewRegistry.inbound = 0 /\ NewRegistry.outbound = 0 /\ NewRegistry.pending = 0
    BY DEF NewRegistry
  <2>2. Cardinality(DOMAIN NewRegistry.by_nonce) = 0
    BY <1>5, FS_EmptySet DEF NewRegistry
  <2> QED
    BY <2>1, <2>2, ConfigAssumption DEF Init, WithinLimits
<1>9. Ids /\ TableIsLive
  <2>1. \A n \in Node : DOMAIN registry[n].by_nonce = {}
    BY <1>5 DEF Init, NewRegistry
  <2> QED
    BY <1>3, <2>1 DEF Ids, TableIsLive
<1> QED
  BY <1>2, <1>7, <1>8, <1>9 DEF IInv
-----------------------------------------------------------------------------
(* What the actions do to the registries, by kind.                          *)
Others(e) == \A f \in End \ {e} : end'[f] = end[f]

Same ==
  /\ UNCHANGED <<registry, replaced>>
  /\ \A e \in End :
        /\ Pending(e)' <=> Pending(e)
        /\ Session(e)' <=> Session(e)
        /\ Session(e) => end'[e].peer_id = end[e].peer_id

Enter(e) ==
  /\ ~Pending(e) /\ Pending(e)' /\ ~Session(e) /\ ~Session(e)' /\ Others(e)
  /\ registry[Self(e)].pending < MAX_PENDING_HANDSHAKES
  /\ registry' = [registry EXCEPT ![Self(e)] = acquire(@)]
  /\ UNCHANGED replaced

Leave(e) ==
  /\ Pending(e) /\ ~Pending(e)' /\ ~Session(e) /\ ~Session(e)' /\ Others(e)
  /\ registry' = [registry EXCEPT ![Self(e)] = release(@)]
  /\ UNCHANGED replaced

Settle(e) ==
  /\ Pending(e) /\ ~Pending(e)' /\ ~Session(e) /\ Session(e)' /\ Others(e)
  /\ end'[e].peer_id = registry[Self(e)].next_peer_id
  /\ RegisterError(registry[Self(e)], Self(e), Remote(e), e[2]) = "none"
  /\ registry' = [registry EXCEPT ![Self(e)] = release(Registered(@, Remote(e), e[2]))]
  /\ replaced' = replaced \cup
        {<<Self(e), registry[Self(e)].by_nonce[m].peer_id>> :
            m \in {Remote(e)} \cap DOMAIN registry[Self(e)].by_nonce}

Gone(e) ==
  /\ ~Pending(e) /\ ~Pending(e)' /\ Session(e) /\ ~Session(e)' /\ Others(e)
  /\ registry' = [registry EXCEPT
        ![Self(e)] = Unregistered(@, Remote(e), end[e].peer_id)]
  /\ UNCHANGED replaced

(* One end moves to a state past its connection.                            *)
LEMMA OneEndMoves ==
  ASSUME EndShape, NEW e \in End, NEW x, IsEnd(x),
         end' = [end EXCEPT ![e] = x],
         end[e].state # "idle", x.state \notin {"idle", "connecting"}
  PROVE  EndShape' /\ Others(e) /\ end'[e] = x
<1>1. end'[e] = x /\ Others(e) /\ end' = [f \in End |-> end'[f]]
  BY DEF EndShape, Others
<1>2. \A f \in End : IsEnd(end'[f])
  BY <1>1 DEF EndShape, Others
<1>3. ASSUME NEW c \in Conn, end'[<<c, Outbound>>].state \in {"idle", "connecting"}
      PROVE  end'[<<c, Inbound>>].state = "idle"
  <2>1. <<c, Outbound>> \in End /\ <<c, Inbound>> \in End
    BY DEF End
  <2>2. e # <<c, Outbound>>
    BY <1>1, <1>3
  <2>3. end[<<c, Inbound>>].state = "idle"
    BY <1>1, <1>3, <2>1, <2>2 DEF EndShape, Others
  <2>4. e # <<c, Inbound>>
    BY <2>3
  <2> QED
    BY <1>1, <2>1, <2>3, <2>4 DEF Others
<1> QED
  BY <1>1, <1>2, <1>3 DEF EndShape

LEMMA ClosedIsEnd ==
  \A error : IsEnd(Closed(error)) /\ Closed(error).state = "closed"
<1>1. \A error : Closed(error) = [state |-> "closed", negotiated |-> {}, peer_id |-> 0,
                                  error |-> error, sent |-> 0]
  BY DEF Closed, At
<1> QED
  BY <1>1, MakeEnd

LEMMA FailsLeaves ==
  ASSUME EndShape, NEW e \in End, NEW error, Pending(e), Fails(e, error), UNCHANGED replaced
  PROVE  EndShape' /\ Leave(e)
<1>1. end[e].state # "idle" /\ ~Session(e)
  BY DEF Pending, Session
<1>2. EndShape' /\ Others(e) /\ end'[e] = Closed(error)
  BY <1>1, ClosedIsEnd, OneEndMoves DEF Fails
<1>3. ~Pending(e)' /\ ~Session(e)'
  BY <1>2, ClosedIsEnd DEF Pending, Session
<1> QED
  BY <1>1, <1>2, <1>3 DEF Leave, Fails

LEMMA DropGoes ==
  ASSUME EndShape, NEW e \in End, NEW error, Session(e), DropSession(e, error)
  PROVE  EndShape' /\ Gone(e)
<1>1. end[e].state # "idle" /\ ~Pending(e)
  BY DEF Pending, Session
<1>2. EndShape' /\ Others(e) /\ end'[e] = Closed(error)
  BY <1>1, ClosedIsEnd, OneEndMoves DEF DropSession
<1>3. ~Pending(e)' /\ ~Session(e)'
  BY <1>2, ClosedIsEnd DEF Pending, Session
<1> QED
  BY <1>1, <1>2, <1>3 DEF Gone, DropSession

Kind == Same \/ \E e \in End : Enter(e) \/ Leave(e) \/ Settle(e) \/ Gone(e)

(* The ends that do not move leave everything as it is.                     *)
LEMMA NothingMoves ==
  ASSUME EndShape, UNCHANGED <<registry, end, replaced>>
  PROVE  EndShape' /\ Kind
BY DEF EndShape, Kind, Same, Pending, Session

LEMMA PendingIsNat ==
  ASSUME Counts, NEW e \in End
  PROVE  registry[Self(e)].pending \in Nat
BY EndsAreNodes DEF Counts, Counted, Registry

LEMMA ConnectKind ==
  ASSUME EndShape, Counts, NEW c \in Conn, Connect(c)
  PROVE  EndShape' /\ Kind
<1> DEFINE e == <<c, Outbound>>
           n == Self(e)
           x == IF <<n, Remote(e)>> \in cooling THEN Closed("Cooldown")
                ELSE IF registry[n].pending >= MAX_PENDING_HANDSHAKES
                THEN Closed("PendingHandshakeLimit")
                ELSE At("connecting")
<1>1. e \in End /\ <<c, Inbound>> \in End /\ <<c, Inbound>> # e
  BY DEF End, Inbound, Outbound
<1>2. /\ end[e].state = "idle" /\ end' = [end EXCEPT ![e] = x]
      /\ registry' = IF end'[e].state = "connecting"
                     THEN [registry EXCEPT ![n] = acquire(@)] ELSE registry
      /\ replaced' = replaced
  BY DEF Connect
<1>3. IsEnd(x)
  BY ClosedIsEnd, MakeEnd DEF At
<1>4. end'[e] = x /\ Others(e) /\ end' = [f \in End |-> end'[f]]
  BY <1>1, <1>2 DEF EndShape, Others
<1> HIDE DEF e
<1>5. ASSUME NEW d \in Conn, end'[<<d, Outbound>>].state \in {"idle", "connecting"}
      PROVE  end'[<<d, Inbound>>].state = "idle"
  <2>1. <<d, Outbound>> \in End /\ <<d, Inbound>> \in End /\ <<d, Inbound>> # e
    BY DEF End, e, Inbound, Outbound
  <2>2. end'[<<d, Inbound>>] = end[<<d, Inbound>>]
    BY <1>4, <2>1 DEF Others
  <2>3. end[<<d, Outbound>>].state \in {"idle", "connecting"}
    BY <1>2, <1>4, <1>5, <2>1 DEF Others
  <2> QED
    BY <2>2, <2>3 DEF EndShape
<1>6. EndShape'
  BY <1>3, <1>4, <1>5 DEF EndShape, Others
<1>7. ~Pending(e) /\ ~Session(e)
  BY <1>2 DEF Pending, Session
<1>8. CASE x.state = "connecting"
  <2>1. registry[n].pending < MAX_PENDING_HANDSHAKES
    BY <1>1, <1>8, ClosedIsEnd, PendingIsNat, ConfigAssumption
  <2>2. Pending(e)' /\ ~Session(e)'
    BY <1>4, <1>8 DEF Pending, Session
  <2> QED
    BY <1>1, <1>2, <1>4, <1>6, <1>7, <1>8, <2>1, <2>2 DEF Kind, Enter
<1>9. CASE x.state # "connecting"
  <2>1. x.state = "closed"
    <3>1. At("connecting").state = "connecting"
      BY DEF At
    <3>2. x \in {Closed("Cooldown"), Closed("PendingHandshakeLimit"), At("connecting")}
      OBVIOUS
    <3> HIDE DEF x
    <3> QED
      BY <1>9, <3>1, <3>2, ClosedIsEnd
  <2>2. ~Pending(e)' /\ ~Session(e)' /\ registry' = registry
    BY <1>2, <1>4, <2>1 DEF Pending, Session
  <2>3. Same
    BY <1>2, <1>4, <1>7, <2>2 DEF Same, Others, Pending, Session
  <2> QED
    BY <1>6, <2>3 DEF Kind
<1> QED
  BY <1>8, <1>9

LEMMA ConnectedKind ==
  ASSUME EndShape, NEW c \in Conn, Connected(c)
  PROVE  EndShape' /\ Kind
<1> DEFINE e == <<c, Outbound>>
           o == <<c, Inbound>>
<1>1. e \in End /\ o \in End /\ o # e /\ Other(e) = o
  BY DEF End, Other, Inbound, Outbound
<1>2. /\ end[e].state = "connecting" /\ end[o].state = "idle"
      /\ end' = [end EXCEPT ![e] = At("HelloSent"), ![o] = At("arrived")]
      /\ UNCHANGED <<registry, replaced>>
  BY <1>1 DEF Connected, EndShape
<1> HIDE DEF e, o
<1>3. /\ end'[e] = At("HelloSent") /\ end'[o] = At("arrived")
      /\ \A f \in End \ {e, o} : end'[f] = end[f]
      /\ end' = [f \in End |-> end'[f]]
  BY <1>1, <1>2 DEF EndShape
<1>4. \A f \in End : IsEnd(end'[f])
  BY <1>3, MakeEnd DEF EndShape, At
<1>5. ASSUME NEW d \in Conn, end'[<<d, Outbound>>].state \in {"idle", "connecting"}
      PROVE  end'[<<d, Inbound>>].state = "idle"
  <2>1. <<d, Outbound>> \in End /\ <<d, Inbound>> \in End
    BY DEF End
  <2>2. d # c
    BY <1>3, <1>5 DEF At, e
  <2>3. <<d, Outbound>> \notin {e, o} /\ <<d, Inbound>> \notin {e, o}
    BY <2>2 DEF e, o
  <2> QED
    BY <1>3, <1>5, <2>1, <2>3 DEF EndShape
<1>6. EndShape'
  BY <1>3, <1>4, <1>5 DEF EndShape
<1>7. ASSUME NEW f \in End
      PROVE  /\ Pending(f)' <=> Pending(f)
             /\ Session(f)' <=> Session(f)
             /\ Session(f) => end'[f].peer_id = end[f].peer_id
  <2>1. CASE f = e
    BY <1>2, <1>3, <2>1 DEF Pending, Session, At
  <2>2. CASE f = o
    BY <1>2, <1>3, <2>2 DEF Pending, Session, At
  <2>3. CASE f \notin {e, o}
    BY <1>3, <2>3 DEF Pending, Session
  <2> QED
    BY <2>1, <2>2, <2>3
<1> QED
  BY <1>2, <1>6, <1>7 DEF Kind, Same

LEMMA AcceptKind ==
  ASSUME EndShape, Counts, NEW c \in Conn, accept_connection(c)
  PROVE  EndShape' /\ Kind
<1> DEFINE e == <<c, Inbound>>
           n == Self(e)
<1>1. e \in End
  BY DEF End
<1>2. /\ end[e].state = "arrived" /\ replaced' = replaced
      /\ \/ end' = [end EXCEPT ![e] = Closed("Refused")] /\ registry' = registry
         \/ /\ ~(registry[n].pending >= MAX_PENDING_HANDSHAKES)
            /\ end' = [end EXCEPT ![e] = At("HelloSent")]
            /\ registry' = [registry EXCEPT ![n] = acquire(@)]
  BY DEF accept_connection
<1> HIDE DEF e
<1>3. end[e].state # "idle" /\ ~Pending(e) /\ ~Session(e)
  BY <1>2 DEF Pending, Session
<1>4. CASE end' = [end EXCEPT ![e] = Closed("Refused")] /\ registry' = registry
  <2>1. EndShape' /\ Others(e) /\ end'[e] = Closed("Refused")
    BY <1>1, <1>3, <1>4, ClosedIsEnd, OneEndMoves
  <2>2. Same
    BY <1>2, <1>3, <1>4, <2>1, ClosedIsEnd DEF Same, Others, Pending, Session
  <2> QED
    BY <2>1, <2>2 DEF Kind
<1>5. CASE /\ ~(registry[n].pending >= MAX_PENDING_HANDSHAKES)
           /\ end' = [end EXCEPT ![e] = At("HelloSent")]
           /\ registry' = [registry EXCEPT ![n] = acquire(@)]
  <2>1. IsEnd(At("HelloSent")) /\ At("HelloSent").state = "HelloSent"
    BY MakeEnd DEF At
  <2>2. EndShape' /\ Others(e) /\ end'[e] = At("HelloSent")
    BY <1>1, <1>3, <1>5, <2>1, OneEndMoves
  <2>3. Pending(e)' /\ ~Session(e)'
    BY <2>1, <2>2 DEF Pending, Session
  <2>4. registry[n].pending < MAX_PENDING_HANDSHAKES
    BY <1>1, <1>5, PendingIsNat, ConfigAssumption
  <2> QED
    BY <1>1, <1>2, <1>3, <1>5, <2>2, <2>3, <2>4 DEF Kind, Enter
<1> QED
  BY <1>2, <1>4, <1>5

LEMMA MessageKind ==
  ASSUME EndShape, Counts, NEW e \in End, on_message(e)
  PROVE  EndShape' /\ Kind
<1> DEFINE message == Head(wire[e])
<1>1. Handshaking(e) /\ Pending(e) /\ end[e].state # "idle"
  BY DEF on_message, Handshaking, Pending
<1>2. ASSUME NEW error, Fails(e, error), UNCHANGED replaced
      PROVE  EndShape' /\ Kind
  BY <1>1, <1>2, FailsLeaves DEF Kind
<1>3. ASSUME Establish(e)
      PROVE  EndShape' /\ Kind
  <2> DEFINE n == Self(e)
             x == Welcomed(end[e], registry[n].next_peer_id)
  <2>1. CASE RegisterError(registry[n], n, Remote(e), e[2]) # "none"
    BY <1>2, <1>3, <2>1 DEF Establish
  <2>2. CASE RegisterError(registry[n], n, Remote(e), e[2]) = "none"
    <3>1. IsEnd(end[e])
      BY DEF EndShape
    <3>2. IsEnd(x) /\ x.state = "session" /\ x.peer_id = registry[n].next_peer_id
      <4>1. registry[n].next_peer_id \in Nat
        BY EndsAreNodes DEF Counts, Counted, Registry
      <4> QED
        BY <3>1, <4>1, SessionEnd
    <3>3. end' = [end EXCEPT ![e] = x]
      BY <1>3, <2>2 DEF Establish, EndShape, Welcomed
    <3>4. EndShape' /\ Others(e) /\ end'[e] = x
      BY <1>1, <3>2, <3>3, OneEndMoves
    <3>5. ~Pending(e)' /\ Session(e)' /\ ~Session(e)
      BY <1>1, <3>2, <3>4 DEF Pending, Session
    <3>6. Settle(e)
      BY <1>1, <1>3, <2>2, <3>2, <3>4, <3>5 DEF Settle, Establish
    <3> QED
      BY <3>4, <3>6 DEF Kind
  <2> QED
    BY <2>1, <2>2
<1>4. CASE message.type = "HelloAck"
  <2>1. OnHelloAck(e, message)
    BY <1>4 DEF on_message
  <2>2. CASE end[e].state # "AckSent"
    BY <1>2, <2>1, <2>2 DEF OnHelloAck
  <2>3. CASE /\ end[e].state = "AckSent"
             /\ {message.negotiated} # end[e].negotiated \/ message.echo # Hello[Self(e)].nonce
    BY <1>2, <2>1, <2>3 DEF OnHelloAck
  <2>4. CASE /\ end[e].state = "AckSent"
             /\ ~({message.negotiated} # end[e].negotiated \/ message.echo # Hello[Self(e)].nonce)
    BY <1>3, <2>1, <2>4 DEF OnHelloAck
  <2> QED
    BY <2>2, <2>3, <2>4
<1>5. CASE message.type = "Hello"
  <2>1. OnHello(e, message.hello) /\ UNCHANGED replaced
    BY <1>5 DEF on_message
  <2> DEFINE error == HelloError(Hello[Self(e)], message.hello)
             g == {negotiate(Hello[Self(e)], message.hello)}
  <2>2. CASE end[e].state # "HelloSent"
    BY <1>2, <2>1, <2>2 DEF OnHello
  <2>3. CASE end[e].state = "HelloSent" /\ error # "none"
    BY <1>2, <2>1, <2>3 DEF OnHello
  <2>4. CASE end[e].state = "HelloSent" /\ error = "none"
    <3>1. end' = [end EXCEPT ![e] = Acked(end[e], g)] /\ UNCHANGED <<registry, replaced>>
      BY <2>1, <2>4 DEF OnHello, Acked, EndShape
    <3> HIDE DEF g, error
    <3>2. IsEnd(Acked(end[e], g)) /\ Acked(end[e], g).state = "AckSent"
      BY AckEnd DEF EndShape
    <3>3. EndShape' /\ Others(e) /\ end'[e] = Acked(end[e], g)
      BY <1>1, <3>1, <3>2, OneEndMoves
    <3>4. Same
      BY <1>1, <3>1, <3>2, <3>3 DEF Same, Others, Pending, Session
    <3> QED
      BY <3>3, <3>4 DEF Kind
  <2> QED
    BY <2>2, <2>3, <2>4
<1>6. CASE message.type \notin {"HelloAck", "Hello"}
  <2>1. CASE message.type = "Data"
    BY <1>2, <1>6, <2>1 DEF on_message
  <2>2. CASE message.type # "Data"
    <3>1. UNCHANGED <<registry, end, replaced>>
      BY <1>6, <2>2 DEF on_message
    <3> QED
      BY <3>1, NothingMoves
  <2> QED
    BY <2>1, <2>2
<1> QED
  BY <1>4, <1>5, <1>6

LEMMA NextKind ==
  ASSUME EndShape, Counts, [Next]_vars
  PROVE  EndShape' /\ Kind
<1>1. ASSUME NEW c \in Conn, Connect(c) \/ Connected(c) \/ accept_connection(c)
      PROVE  EndShape' /\ Kind
  BY <1>1, ConnectKind, ConnectedKind, AcceptKind
<1>2. ASSUME NEW c \in Conn, ConnectFails(c)
      PROVE  EndShape' /\ Kind
  <2>1. <<c, Outbound>> \in End
    BY DEF End
  <2>2. Pending(<<c, Outbound>>)
    BY <1>2 DEF ConnectFails, Pending
  <2>3. EndShape' /\ Leave(<<c, Outbound>>)
    BY <1>2, <2>1, <2>2, FailsLeaves DEF ConnectFails
  <2> QED
    BY <2>1, <2>3 DEF Kind
<1>3. ASSUME NEW e \in End, on_message(e)
      PROVE  EndShape' /\ Kind
  BY <1>3, MessageKind
<1>4. ASSUME NEW e \in End, HandshakeTimeout(e)
      PROVE  EndShape' /\ Kind
  <2>1. Pending(e)
    BY <1>4 DEF HandshakeTimeout, Handshaking, Pending
  <2>2. EndShape' /\ Leave(e)
    BY <1>4, <2>1, FailsLeaves DEF HandshakeTimeout
  <2> QED
    BY <2>2 DEF Kind
<1>5. ASSUME NEW e \in End, NEW type, SendMessage(e, type)
      PROVE  EndShape' /\ Kind
  <2> DEFINE x == Sent(end[e], end[e].sent + 1)
  <2>1. /\ end[e].state = "session" /\ end' = [end EXCEPT ![e] = x]
        /\ UNCHANGED <<registry, replaced>>
    BY <1>5 DEF SendMessage, Sent, EndShape
  <2>2. IsEnd(x) /\ x.state = end[e].state /\ x.peer_id = end[e].peer_id
    BY SentEnd DEF EndShape
  <2> HIDE DEF x
  <2>3. EndShape' /\ Others(e) /\ end'[e] = x
    BY <2>1, <2>2, OneEndMoves
  <2>4. Same
    BY <2>1, <2>2, <2>3 DEF Same, Others, Pending, Session
  <2> QED
    BY <2>3, <2>4 DEF Kind
<1>6. ASSUME NEW e \in End, read_event(e)
      PROVE  EndShape' /\ Kind
  BY <1>6, NothingMoves DEF read_event
<1>7. ASSUME NEW e \in End, Disconnect(e) \/ PeerGone(e)
      PROVE  EndShape' /\ Kind
  <2>1. CASE Disconnect(e)
    BY <2>1, DropGoes DEF Disconnect, Session, Kind
  <2>2. CASE PeerGone(e) /\ Handshaking(e)
    <3>1. Pending(e) /\ ~Session(e)
      BY <2>2 DEF Handshaking, Pending, Session
    <3> QED
      BY <2>2, <3>1, FailsLeaves DEF PeerGone, Session, Kind
  <2>3. CASE PeerGone(e) /\ ~Handshaking(e)
    BY <2>3, DropGoes DEF PeerGone, Session, Kind
  <2> QED
    BY <1>7, <2>1, <2>2, <2>3
<1>8. ASSUME NEW n \in Node, NEW m \in Node, cooldown_remote(n, m) \/ CooldownOver(n, m)
      PROVE  EndShape' /\ Kind
  BY <1>8, NothingMoves DEF cooldown_remote, CooldownOver
<1>9. CASE UNCHANGED vars
  BY <1>9, NothingMoves DEF vars
<1> QED
  BY <1>1, <1>2, <1>3, <1>4, <1>5, <1>6, <1>7, <1>8, <1>9 DEF Next
-----------------------------------------------------------------------------
(* The attempts under way, when one end moves.                              *)
LEMMA PendingMoves ==
  ASSUME NEW e \in End, Others(e)
  PROVE  /\ \A n \in Node \ {Self(e)} : PendingAt(n)' = PendingAt(n)
         /\ ~Pending(e) /\ ~Pending(e)' => PendingAt(Self(e))' = PendingAt(Self(e))
         /\ ~Pending(e) /\ Pending(e)' =>
               Cardinality(PendingAt(Self(e))') = Cardinality(PendingAt(Self(e))) + 1
         /\ Pending(e) /\ ~Pending(e)' =>
               /\ Cardinality(PendingAt(Self(e))') = Cardinality(PendingAt(Self(e))) - 1
               /\ Cardinality(PendingAt(Self(e))) # 0
<1> DEFINE P == PendingAt(Self(e))
<1>1. \A f \in End \ {e} : Pending(f)' <=> Pending(f)
  BY DEF Others, Pending
<1>2. \A n \in Node \ {Self(e)} : PendingAt(n)' = PendingAt(n)
  BY <1>1 DEF PendingAt
<1>3. ASSUME ~Pending(e), ~Pending(e)'
      PROVE  P' = P
  BY <1>1, <1>3 DEF PendingAt
<1>4. ASSUME ~Pending(e), Pending(e)'
      PROVE  Cardinality(P') = Cardinality(P) + 1
  <2>1. P' = P \cup {e} /\ e \notin P
    BY <1>1, <1>4 DEF PendingAt
  <2>2. IsFiniteSet(P)
    BY EndsAreFinite
  <2> QED
    BY <2>1, <2>2, FS_AddElement
<1>5. ASSUME Pending(e), ~Pending(e)'
      PROVE  Cardinality(P') = Cardinality(P) - 1 /\ Cardinality(P) # 0
  <2>1. P' = P \ {e} /\ e \in P
    BY <1>1, <1>5 DEF PendingAt
  <2>2. IsFiniteSet(P)
    BY EndsAreFinite
  <2> QED
    BY <2>1, <2>2, FS_RemoveElement, FS_EmptySet
<1> QED
  BY <1>2, <1>3, <1>4, <1>5

(* acquire and release touch the pending count alone.                       *)
LEMMA GuardCounts ==
  ASSUME NEW r, Counted(r)
  PROVE  /\ Counted(acquire(r)) /\ acquire(r).pending = r.pending + 1
         /\ Counted(release(r))
         /\ release(r).pending = IF r.pending = 0 THEN 0 ELSE r.pending - 1
         /\ \A o \in {acquire(r), release(r)} :
               /\ o.by_nonce = r.by_nonce /\ o.next_peer_id = r.next_peer_id
               /\ o.inbound = r.inbound /\ o.outbound = r.outbound
<1>1. r \in Registry
  BY DEF Counted
<1>2. /\ acquire(r) \in Registry /\ acquire(r).pending = r.pending + 1
      /\ release(r) \in Registry
      /\ release(r).pending = IF r.pending = 0 THEN 0 ELSE r.pending - 1
  BY <1>1 DEF acquire, release, Registry
<1>3. ASSUME NEW o \in {acquire(r), release(r)}
      PROVE  /\ o.by_nonce = r.by_nonce /\ o.next_peer_id = r.next_peer_id
             /\ o.inbound = r.inbound /\ o.outbound = r.outbound
  BY <1>1 DEF acquire, release, Registry
<1>4. ASSUME NEW o \in {acquire(r), release(r)}
      PROVE  Counted(o)
  <2>1. Of(o, Inbound) = Of(r, Inbound) /\ Of(o, Outbound) = Of(r, Outbound)
    BY <1>3 DEF Of
  <2>2. o \in Registry
    BY <1>2
  <2> QED
    BY <1>3, <2>1, <2>2 DEF Counted
<1> QED
  BY <1>2, <1>3, <1>4

(* Counts and limits of one node's registry after a step of one of its      *)
(* ends.                                                                    *)
Within(r) ==
  /\ r.inbound <= max_inbound /\ r.outbound <= max_outbound
  /\ Cardinality(DOMAIN r.by_nonce) <= max_peers
  /\ r.pending <= MAX_PENDING_HANDSHAKES

LEMMA OneNodeCounts ==
  ASSUME Counts, WithinLimits, NEW e \in End, Others(e), NEW r,
         registry' = [registry EXCEPT ![Self(e)] = r],
         Counted(r), r.pending = Cardinality(PendingAt(Self(e))'), Within(r)
  PROVE  Counts' /\ WithinLimits'
<1>1. Self(e) \in Node
  BY EndsAreNodes
<1>2. /\ registry' = [n \in Node |-> registry'[n]]
      /\ registry'[Self(e)] = r /\ \A n \in Node \ {Self(e)} : registry'[n] = registry[n]
  BY <1>1 DEF Counts
<1>3. \A n \in Node \ {Self(e)} : PendingAt(n)' = PendingAt(n)
  BY PendingMoves
<1>4. ASSUME NEW n \in Node
      PROVE  /\ Counted(registry'[n])
             /\ registry'[n].pending = Cardinality(PendingAt(n)')
             /\ Within(registry'[n])
  <2>1. CASE n = Self(e)
    BY <1>2, <2>1
  <2>2. CASE n # Self(e)
    BY <1>2, <1>3, <2>2 DEF Counts, WithinLimits, Within
  <2> QED
    BY <2>1, <2>2
<1> QED
  BY <1>2, <1>4 DEF Counts, WithinLimits, Within

LEMMA CountsStep ==
  ASSUME Counts, WithinLimits, Kind
  PROVE  Counts' /\ WithinLimits'
<1> USE DEF Within
<1>1. CASE Same
  <2>1. \A n : PendingAt(n)' = PendingAt(n)
    BY <1>1 DEF Same, PendingAt
  <2> QED
    BY <1>1, <2>1 DEF Same, Counts, WithinLimits
<1>2. ASSUME NEW e \in End
      PROVE  /\ Counted(registry[Self(e)]) /\ Within(registry[Self(e)])
             /\ registry[Self(e)].pending = Cardinality(PendingAt(Self(e)))
             /\ registry[Self(e)] \in Registry
  BY EndsAreNodes DEF Counts, WithinLimits, Counted
<1>3. ASSUME NEW e \in End, Enter(e)
      PROVE  Counts' /\ WithinLimits'
  <2> DEFINE r == registry[Self(e)]
  <2>1. Counted(r) /\ Within(r) /\ r.pending = Cardinality(PendingAt(Self(e))) /\ r.pending \in Nat
    BY <1>2 DEF Registry
  <2>2. Others(e) /\ registry' = [registry EXCEPT ![Self(e)] = acquire(r)]
    BY <1>3 DEF Enter
  <2>3. Cardinality(PendingAt(Self(e))') = Cardinality(PendingAt(Self(e))) + 1
    BY <1>3, PendingMoves DEF Enter
  <2>4. r.pending < MAX_PENDING_HANDSHAKES
    BY <1>3 DEF Enter
  <2> HIDE DEF r
  <2>5. Counted(acquire(r)) /\ acquire(r).pending = r.pending + 1 /\ Within(acquire(r))
    BY <2>1, <2>4, GuardCounts, ConfigAssumption
  <2> QED
    BY <2>1, <2>2, <2>3, <2>5, OneNodeCounts
<1>4. ASSUME NEW e \in End, Leave(e)
      PROVE  Counts' /\ WithinLimits'
  <2> DEFINE r == registry[Self(e)]
  <2>1. Counted(r) /\ Within(r) /\ r.pending = Cardinality(PendingAt(Self(e))) /\ r.pending \in Nat
    BY <1>2 DEF Registry
  <2>2. Others(e) /\ registry' = [registry EXCEPT ![Self(e)] = release(r)]
    BY <1>4 DEF Leave
  <2>3. /\ Cardinality(PendingAt(Self(e))') = Cardinality(PendingAt(Self(e))) - 1
        /\ r.pending # 0
    BY <1>4, <2>1, PendingMoves DEF Leave
  <2> HIDE DEF r
  <2>4. Counted(release(r)) /\ release(r).pending = r.pending - 1 /\ Within(release(r))
    BY <2>1, <2>3, GuardCounts, ConfigAssumption
  <2> QED
    BY <2>1, <2>2, <2>3, <2>4, OneNodeCounts
<1>5. ASSUME NEW e \in End, Gone(e)
      PROVE  Counts' /\ WithinLimits'
  <2> DEFINE r == registry[Self(e)]
             o == Unregistered(r, Remote(e), end[e].peer_id)
  <2>1. Counted(r) /\ Within(r) /\ r.pending = Cardinality(PendingAt(Self(e))) /\ r \in Registry
    BY <1>2
  <2>2. Others(e) /\ registry' = [registry EXCEPT ![Self(e)] = o]
    BY <1>5 DEF Gone
  <2>3. PendingAt(Self(e))' = PendingAt(Self(e))
    BY <1>5, PendingMoves DEF Gone
  <2>7. o = Unregistered(r, Remote(e), end[e].peer_id)
    OBVIOUS
  <2> HIDE DEF r, o
  <2>4. /\ Counted(o) /\ o.pending = r.pending
        /\ o.inbound <= r.inbound /\ o.outbound <= r.outbound
        /\ Cardinality(DOMAIN o.by_nonce) <= Cardinality(DOMAIN r.by_nonce)
    BY <2>1, <2>7, UnregisteredCounts
  <2>5. /\ Cardinality(DOMAIN o.by_nonce) \in Nat /\ Cardinality(DOMAIN r.by_nonce) \in Nat
        /\ o.inbound \in Nat /\ r.inbound \in Nat /\ o.outbound \in Nat /\ r.outbound \in Nat
    BY <2>1, <2>4, FS_CardinalityType DEF Counted, Registry
  <2>6. Within(o)
    BY <2>1, <2>4, <2>5, ConfigAssumption
  <2> QED
    BY <2>1, <2>2, <2>3, <2>4, <2>6, OneNodeCounts
<1>6. ASSUME NEW e \in End, Settle(e)
      PROVE  Counts' /\ WithinLimits'
  <2> DEFINE r == registry[Self(e)]
             o == Registered(r, Remote(e), e[2])
  <2>1. Counted(r) /\ Within(r) /\ r.pending = Cardinality(PendingAt(Self(e))) /\ r \in Registry
    BY <1>2
  <2>2. Others(e) /\ registry' = [registry EXCEPT ![Self(e)] = release(o)]
    BY <1>6 DEF Settle
  <2>3. /\ Cardinality(PendingAt(Self(e))') = Cardinality(PendingAt(Self(e))) - 1
        /\ r.pending # 0
    BY <1>6, <2>1, PendingMoves DEF Settle
  <2>4. /\ ~(Count(r, e[2]) >= DirectionLimit(e[2]))
        /\ Remote(e) \notin DOMAIN r.by_nonce => ~(Cardinality(DOMAIN r.by_nonce) >= max_peers)
    <3>1. RegisterError(r, Self(e), Remote(e), e[2]) = "none"
      BY <1>6 DEF Settle
    <3> HIDE DEF r
    <3> QED
      BY <3>1 DEF RegisterError
  <2>10. o = Registered(r, Remote(e), e[2]) /\ Remote(e) \in Node /\ e[2] \in Direction
    BY EndsAreNodes
  <2> HIDE DEF r, o
  <2>5. /\ Counted(o) /\ o.pending = r.pending
        /\ \A d \in Direction :
              Count(o, d) <= IF d = e[2] THEN Count(r, d) + 1 ELSE Count(r, d)
        /\ Cardinality(DOMAIN o.by_nonce) =
             IF Remote(e) \in DOMAIN r.by_nonce THEN Cardinality(DOMAIN r.by_nonce)
             ELSE Cardinality(DOMAIN r.by_nonce) + 1
    BY <2>1, <2>10, RegisteredCounts
  <2>6. /\ Cardinality(DOMAIN o.by_nonce) \in Nat /\ Cardinality(DOMAIN r.by_nonce) \in Nat
        /\ o.inbound \in Nat /\ r.inbound \in Nat /\ o.outbound \in Nat /\ r.outbound \in Nat
        /\ o.pending \in Nat
    BY <2>1, <2>5, FS_CardinalityType DEF Counted, Registry
  <2>7. o.inbound <= max_inbound /\ o.outbound <= max_outbound
    <3>1. CASE e[2] = Inbound
      BY <2>1, <2>4, <2>5, <2>6, <3>1, ConfigAssumption
         DEF Count, DirectionLimit, Direction, Inbound, Outbound
    <3>2. CASE e[2] = Outbound
      BY <2>1, <2>4, <2>5, <2>6, <3>2, ConfigAssumption
         DEF Count, DirectionLimit, Direction, Inbound, Outbound
    <3> QED
      BY <3>1, <3>2, EndsAreNodes DEF Direction
  <2>8. Cardinality(DOMAIN o.by_nonce) <= max_peers
    BY <2>1, <2>4, <2>5, <2>6, ConfigAssumption
  <2>9. /\ Counted(release(o)) /\ release(o).pending = r.pending - 1
        /\ Within(release(o))
    <3>1. /\ Counted(release(o)) /\ release(o).pending = o.pending - 1
          /\ release(o).by_nonce = o.by_nonce
          /\ release(o).inbound = o.inbound /\ release(o).outbound = o.outbound
      BY <2>3, <2>5, GuardCounts
    <3>2. release(o).pending = r.pending - 1 /\ release(o).pending <= MAX_PENDING_HANDSHAKES
      BY <2>1, <2>5, <2>6, <3>1, ConfigAssumption
    <3> QED
      BY <2>7, <2>8, <3>1, <3>2
  <2> QED
    BY <2>1, <2>2, <2>3, <2>9, OneNodeCounts
<1> QED
  BY <1>1, <1>3, <1>4, <1>5, <1>6 DEF Kind
-----------------------------------------------------------------------------
(* A step that changes neither tables nor sessions.                         *)
LEMMA TablesStay ==
  ASSUME Ids, TableIsLive, UNCHANGED replaced,
         \A n \in Node : /\ registry'[n].by_nonce = registry[n].by_nonce
                         /\ registry'[n].next_peer_id = registry[n].next_peer_id,
         \A f \in End : /\ Session(f)' <=> Session(f)
                        /\ Session(f) => end'[f].peer_id = end[f].peer_id
  PROVE  Ids' /\ TableIsLive'
<1>1. Ids'
  BY EndsAreNodes DEF Ids
<1>2. \A f \in End : InTable(f)' <=> InTable(f)
  BY EndsAreNodes DEF InTable
<1>3. TableIsLive'
  BY <1>2, EndsAreNodes DEF TableIsLive
<1> QED
  BY <1>1, <1>3

(* The first ends of a connection take no part in the tables.               *)
LEMMA EnterLeaveLive ==
  ASSUME Counts, Ids, TableIsLive, NEW e \in End, Enter(e) \/ Leave(e)
  PROVE  Ids' /\ TableIsLive'
<1>1. Self(e) \in Node /\ Counted(registry[Self(e)])
  BY EndsAreNodes DEF Counts
<1>2. PICK o \in {acquire(registry[Self(e)]), release(registry[Self(e)])} :
        registry' = [registry EXCEPT ![Self(e)] = o]
  BY DEF Enter, Leave
<1>3. /\ o.by_nonce = registry[Self(e)].by_nonce
      /\ o.next_peer_id = registry[Self(e)].next_peer_id
  BY <1>1, <1>2, GuardCounts
<1>4. \A n \in Node : /\ registry'[n].by_nonce = registry[n].by_nonce
                      /\ registry'[n].next_peer_id = registry[n].next_peer_id
  BY <1>1, <1>2, <1>3 DEF Counts
<1>5. \A f \in End : /\ Session(f)' <=> Session(f)
                     /\ Session(f) => end'[f].peer_id = end[f].peer_id
  BY DEF Enter, Leave, Others, Session
<1> QED
  BY <1>4, <1>5, TablesStay DEF Enter, Leave

(* A late drop finds its own entry or none, because ids are not given       *)
(* twice.                                                                   *)
LEMMA GoneLive ==
  ASSUME Counts, Ids, TableIsLive, NEW e \in End, Gone(e)
  PROVE  Ids' /\ TableIsLive'
<1> DEFINE n == Self(e)
           r == registry[n]
           o == Unregistered(r, Remote(e), end[e].peer_id)
           mine == Remote(e) \in DOMAIN r.by_nonce /\ r.by_nonce[Remote(e)].peer_id = end[e].peer_id
<1>1. n \in Node /\ Counted(r) /\ r \in Registry
  BY EndsAreNodes DEF Counts, Counted
<1>2. /\ registry'[n] = o /\ \A k \in Node \ {n} : registry'[k] = registry[k]
      /\ Session(e) /\ ~Session(e)' /\ UNCHANGED replaced
      /\ \A f \in End \ {e} : end'[f] = end[f]
  BY <1>1 DEF Gone, Counts, Others
<1>10. o = Unregistered(r, Remote(e), end[e].peer_id)
  OBVIOUS
<1> HIDE DEF o
<1>3. o.next_peer_id = r.next_peer_id
  <2> HIDE DEF r, n, mine
  <2> QED
    BY <1>1, <1>10, UnregisteredCounts
<1>4. /\ DOMAIN o.by_nonce = IF mine THEN DOMAIN r.by_nonce \ {Remote(e)} ELSE DOMAIN r.by_nonce
      /\ \A m \in DOMAIN o.by_nonce : o.by_nonce[m] = r.by_nonce[m]
  <2> DEFINE id == end[e].peer_id
             remote == Remote(e)
  <2>1. o = Unregistered(r, remote, id) /\ r \in Registry
    BY <1>1, <1>10
  <2> HIDE DEF r, n, id, remote
  <2>2. /\ DOMAIN o.by_nonce =
              IF remote \in DOMAIN r.by_nonce /\ r.by_nonce[remote].peer_id = id
              THEN DOMAIN r.by_nonce \ {remote}
              ELSE DOMAIN r.by_nonce
        /\ \A m \in DOMAIN o.by_nonce : o.by_nonce[m] = r.by_nonce[m]
    <3>1. CASE remote \in DOMAIN r.by_nonce /\ r.by_nonce[remote].peer_id = id
      <4>1. o.by_nonce = [m \in DOMAIN r.by_nonce \ {remote} |-> r.by_nonce[m]]
        BY <2>1, <3>1 DEF Unregistered, Decrement, Registry
      <4> QED
        BY <3>1, <4>1
    <3>2. CASE ~(remote \in DOMAIN r.by_nonce /\ r.by_nonce[remote].peer_id = id)
      <4>1. o = r
        BY <2>1, <3>2 DEF Unregistered
      <4> QED
        BY <3>2, <4>1
    <3> QED
      BY <3>1, <3>2
  <2> QED
    BY <2>2 DEF id, remote
<1>5. \A f \in End : Session(f)' <=> f # e /\ Session(f)
  BY <1>2 DEF Session
<1>6. Ids'
  <2>1. \A k \in Node : registry'[k].next_peer_id = registry[k].next_peer_id
    BY <1>2, <1>3
  <2> QED
    BY <1>2, <1>5, <2>1, EndsAreNodes DEF Ids
<1>7. ASSUME NEW f \in End \ {e}, InTable(f)
      PROVE  InTable(f)'
  <2>1. Session(f) /\ Session(f)' /\ end'[f] = end[f]
    BY <1>2, <1>5, <1>7 DEF InTable
  <2>2. CASE Self(f) # n \/ Remote(f) # Remote(e) \/ ~mine
    <3>1. Remote(f) \in DOMAIN registry[Self(f)].by_nonce /\ Self(f) \in Node
      BY <1>7, EndsAreNodes DEF InTable
    <3>2. CASE Self(f) # n
      <4>1. registry'[Self(f)] = registry[Self(f)]
        BY <1>2, <3>1, <3>2
      <4> QED
        BY <1>7, <2>1, <4>1 DEF InTable
    <3>3. CASE Self(f) = n
      <4>1. Remote(f) \in DOMAIN o.by_nonce
        BY <1>4, <2>2, <3>1, <3>3
      <4>2. o.by_nonce[Remote(f)] = registry[Self(f)].by_nonce[Remote(f)]
        BY <1>4, <3>3, <4>1
      <4>3. registry'[Self(f)] = o
        BY <1>2, <3>3
      <4> QED
        BY <1>7, <2>1, <4>1, <4>2, <4>3 DEF InTable
    <3> QED
      BY <3>2, <3>3
  <2>3. CASE Self(f) = n /\ Remote(f) = Remote(e) /\ mine
    <3>1. end[f].peer_id = end[e].peer_id
      <4>1. r.by_nonce[Remote(e)] = [peer_id |-> end[f].peer_id, direction |-> f[2]]
        BY <1>7, <2>3 DEF InTable
      <4>2. r.by_nonce[Remote(e)].peer_id = end[f].peer_id
        <5> HIDE DEF r
        <5> QED
          BY <4>1
      <4> QED
        BY <2>3, <4>2
    <3>2. f = e
      BY <1>2, <2>1, <2>3, <3>1 DEF Ids
    <3> QED
      BY <1>7, <3>2
  <2> QED
    BY <2>2, <2>3
<1>8. ASSUME NEW f \in End, Session(f)'
      PROVE  InTable(f)' \/ <<Self(f), end'[f].peer_id>> \in replaced'
  <2>1. f # e /\ Session(f) /\ end'[f] = end[f]
    BY <1>2, <1>5, <1>8
  <2> QED
    BY <1>2, <1>7, <2>1 DEF TableIsLive
<1>9. ASSUME NEW k \in Node, NEW m \in DOMAIN registry'[k].by_nonce
      PROVE  \E f \in End : Self(f) = k /\ Remote(f) = m /\ InTable(f)'
  <2>1. m \in DOMAIN registry[k].by_nonce
    BY <1>2, <1>4, <1>9
  <2>2. PICK f \in End : Self(f) = k /\ Remote(f) = m /\ InTable(f)
    BY <2>1 DEF TableIsLive
  <2>3. f # e
    <3>1. CASE f = e
      <4>1. mine
        <5>1. /\ Remote(e) \in DOMAIN r.by_nonce
              /\ r.by_nonce[Remote(e)] = [peer_id |-> end[e].peer_id, direction |-> e[2]]
          BY <2>2, <3>1 DEF InTable
        <5> HIDE DEF r
        <5> QED
          BY <5>1
      <4>2. m \notin DOMAIN o.by_nonce
        BY <1>4, <2>2, <3>1, <4>1
      <4> QED
        BY <1>2, <1>9, <2>2, <3>1, <4>2
    <3> QED
      BY <3>1
  <2> QED
    BY <1>7, <2>2, <2>3
<1> QED
  BY <1>6, <1>8, <1>9 DEF TableIsLive

(* A new registration is alone under its id, and who it replaces is told.   *)
LEMMA SettleLive ==
  ASSUME EndShape, Counts, Ids, TableIsLive, NEW e \in End, Settle(e)
  PROVE  Ids' /\ TableIsLive'
<1> DEFINE n == Self(e)
           r == registry[n]
           o == Registered(r, Remote(e), e[2])
<1>1. n \in Node /\ Counted(r) /\ r \in Registry /\ Remote(e) \in Node /\ e[2] \in Direction
  BY EndsAreNodes DEF Counts, Counted
<1>14. o = Registered(r, Remote(e), e[2])
  OBVIOUS
<1> HIDE DEF o
<1>2. Counted(o) /\ o.next_peer_id = r.next_peer_id + 1
  <2> HIDE DEF r, n
  <2> QED
    BY <1>1, <1>14, RegisteredCounts
<1>3. /\ DOMAIN o.by_nonce = DOMAIN r.by_nonce \cup {Remote(e)}
      /\ o.by_nonce[Remote(e)] = [peer_id |-> r.next_peer_id, direction |-> e[2]]
      /\ \A m \in DOMAIN r.by_nonce \ {Remote(e)} : o.by_nonce[m] = r.by_nonce[m]
  <2> HIDE DEF r, n
  <2> QED
    BY <1>1, <1>14, RegisteredTable
<1>4. release(o).by_nonce = o.by_nonce /\ release(o).next_peer_id = o.next_peer_id
  BY <1>2, GuardCounts
<1>5. /\ registry'[n] = release(o) /\ \A k \in Node \ {n} : registry'[k] = registry[k]
      /\ ~Session(e) /\ Session(e)' /\ end'[e].peer_id = r.next_peer_id
      /\ \A f \in End \ {e} : end'[f] = end[f]
  BY <1>1 DEF Settle, Counts, Others, o
<1>6. /\ replaced \subseteq replaced'
      /\ Remote(e) \in DOMAIN r.by_nonce => <<n, r.by_nonce[Remote(e)].peer_id>> \in replaced'
  BY DEF Settle
<1>7. \A f \in End \ {e} : Session(f)' <=> Session(f)
  BY <1>5 DEF Session
<1>8. r.next_peer_id \in Nat
  BY <1>1 DEF Registry
<1>15. registry'[n].next_peer_id = r.next_peer_id + 1
  BY <1>2, <1>4, <1>5
<1>9. Ids'
  <2>1. ASSUME NEW f \in End, Session(f)'
        PROVE  end'[f].peer_id < registry'[Self(f)].next_peer_id
    <3>1. CASE f = e
      <4>1. end'[f].peer_id = r.next_peer_id /\ registry'[Self(f)].next_peer_id = r.next_peer_id + 1
        BY <1>5, <1>15, <3>1
      <4> HIDE DEF r
      <4> QED
        BY <1>8, <4>1
    <3>2. CASE f # e /\ Self(f) = n
      <4>1. end'[f].peer_id = end[f].peer_id /\ end[f].peer_id < r.next_peer_id
        BY <1>5, <1>7, <2>1, <3>2 DEF Ids
      <4>2. end[f].peer_id \in Nat
        <5>1. IsEnd(end[f])
          BY DEF EndShape
        <5> QED
          BY <5>1, EndId
      <4> QED
        BY <1>8, <1>15, <3>2, <4>1, <4>2
    <3>3. CASE f # e /\ Self(f) # n
      BY <1>5, <1>7, <2>1, <3>3, EndsAreNodes DEF Ids
    <3> QED
      BY <3>1, <3>2, <3>3
  <2>2. ASSUME NEW f \in End \ {e}, Session(f)', Self(f) = n
        PROVE  end'[f].peer_id # end'[e].peer_id
    <3>1. end'[f].peer_id = end[f].peer_id /\ end[f].peer_id < r.next_peer_id
      BY <1>5, <1>7, <2>2 DEF Ids
    <3>2. end'[e].peer_id = r.next_peer_id
      BY <1>5
    <3> QED
      BY <1>8, <3>1, <3>2
  <2>3. ASSUME NEW f \in End, NEW g \in End, Session(f)', Session(g)',
               Self(f) = Self(g), end'[f].peer_id = end'[g].peer_id
        PROVE  f = g
    <3>1. CASE f # e /\ g # e
      BY <1>5, <1>7, <2>3, <3>1 DEF Ids
    <3>2. CASE f = e \/ g = e
      BY <2>2, <2>3, <3>2
    <3> QED
      BY <3>1, <3>2
  <2> QED
    BY <2>1, <2>3 DEF Ids
<1>10. InTable(e)'
  <2>1. registry'[n].by_nonce = o.by_nonce
    BY <1>4, <1>5
  <2>2. Remote(e) \in DOMAIN registry'[n].by_nonce
    BY <1>3, <2>1
  <2>3. registry'[n].by_nonce[Remote(e)] = [peer_id |-> end'[e].peer_id, direction |-> e[2]]
    BY <1>3, <1>5, <2>1
  <2> QED
    BY <1>5, <2>2, <2>3 DEF InTable
<1>11. ASSUME NEW f \in End \ {e}, InTable(f), Self(f) # n \/ Remote(f) # Remote(e)
       PROVE  InTable(f)'
  <2>1. /\ Session(f)' /\ end'[f] = end[f] /\ Self(f) \in Node
        /\ Remote(f) \in DOMAIN registry[Self(f)].by_nonce
    BY <1>5, <1>7, <1>11, EndsAreNodes DEF InTable
  <2>2. CASE Self(f) # n
    <3>1. registry'[Self(f)] = registry[Self(f)]
      BY <1>5, <2>1, <2>2
    <3> QED
      BY <1>11, <2>1, <3>1 DEF InTable
  <2>3. CASE Self(f) = n
    <3>1. registry'[Self(f)].by_nonce = o.by_nonce
      BY <1>4, <1>5, <2>3
    <3>2. /\ Remote(f) \in DOMAIN o.by_nonce
          /\ o.by_nonce[Remote(f)] = registry[Self(f)].by_nonce[Remote(f)]
      BY <1>3, <1>11, <2>1, <2>3
    <3> QED
      BY <1>11, <2>1, <3>1, <3>2 DEF InTable
  <2> QED
    BY <2>2, <2>3
<1>12. ASSUME NEW f \in End, Session(f)'
       PROVE  InTable(f)' \/ <<Self(f), end'[f].peer_id>> \in replaced'
  <2>1. CASE f = e
    BY <1>10, <2>1
  <2>2. CASE f # e
    <3>1. Session(f) /\ end'[f] = end[f]
      BY <1>5, <1>7, <1>12, <2>2
    <3>2. CASE ~InTable(f)
      BY <1>6, <3>1, <3>2 DEF TableIsLive
    <3>3. CASE InTable(f) /\ (Self(f) # n \/ Remote(f) # Remote(e))
      BY <1>11, <2>2, <3>3
    <3>4. CASE InTable(f) /\ Self(f) = n /\ Remote(f) = Remote(e)
      <4>1. /\ Remote(e) \in DOMAIN r.by_nonce
            /\ r.by_nonce[Remote(e)] = [peer_id |-> end[f].peer_id, direction |-> f[2]]
        BY <3>4 DEF InTable
      <4>2. r.by_nonce[Remote(e)].peer_id = end[f].peer_id
        <5> HIDE DEF r
        <5> QED
          BY <4>1
      <4> QED
        BY <1>6, <3>1, <3>4, <4>1, <4>2
    <3> QED
      BY <3>2, <3>3, <3>4
  <2> QED
    BY <2>1, <2>2
<1>13. ASSUME NEW k \in Node, NEW m \in DOMAIN registry'[k].by_nonce
       PROVE  \E f \in End : Self(f) = k /\ Remote(f) = m /\ InTable(f)'
  <2>1. CASE k = n /\ m = Remote(e)
    BY <1>10, <2>1
  <2>2. CASE k # n \/ m # Remote(e)
    <3>1. m \in DOMAIN registry[k].by_nonce
      <4>1. CASE k # n
        BY <1>5, <1>13, <4>1
      <4>2. CASE k = n
        <5>1. m \in DOMAIN o.by_nonce
          BY <1>4, <1>5, <1>13, <4>2
        <5> QED
          BY <1>3, <2>2, <4>2, <5>1
      <4> QED
        BY <4>1, <4>2
    <3>2. PICK f \in End : Self(f) = k /\ Remote(f) = m /\ InTable(f)
      BY <3>1 DEF TableIsLive
    <3>3. f # e
      BY <1>5, <3>2 DEF InTable
    <3> QED
      BY <1>11, <2>2, <3>2, <3>3
  <2> QED
    BY <2>1, <2>2
<1> QED
  BY <1>9, <1>12, <1>13 DEF TableIsLive

LEMMA LiveStep ==
  ASSUME EndShape, Counts, Ids, TableIsLive, Kind
  PROVE  Ids' /\ TableIsLive'
<1>1. CASE Same
  BY <1>1, TablesStay DEF Same
<1> QED
  BY <1>1, EnterLeaveLive, GoneLive, SettleLive DEF Kind

LEMMA NextIInv ==
  ASSUME IInv, [Next]_vars
  PROVE  IInv'
<1>1. EndShape' /\ Kind
  BY NextKind DEF IInv
<1> QED
  BY <1>1, CountsStep, LiveStep DEF IInv

(* The counts the limits are compared with are those of the table and of    *)
(* the attempts under way, for any nodes, connections and limits            *)
(* (service.rs register, Registration::drop).                               *)
THEOREM RegistryCounts == Spec => []CountsFollowTable
<1>1. Init => IInv
  BY InitIInv
<1>2. IInv /\ [Next]_vars => IInv'
  BY NextIInv
<1>3. IInv => CountsFollowTable
  BY DEF IInv, Counts, Counted, CountsFollowTable, Of, PendingAt
<1> QED
  BY <1>1, <1>2, <1>3, PTL DEF Spec

(* No limit of the configuration is ever exceeded (RegisterError).          *)
THEOREM RegistryWithinLimits == Spec => []WithinLimits
<1>1. Init => IInv
  BY InitIInv
<1>2. IInv /\ [Next]_vars => IInv'
  BY NextIInv
<1>3. IInv => WithinLimits
  BY DEF IInv
<1> QED
  BY <1>1, <1>2, <1>3, PTL DEF Spec

(* Every entry of the table is a live session, and a live session that is   *)
(* not in it is one the caller was told is replaced (Registration::drop).   *)
THEOREM RegistryIsLive == Spec => []TableIsLive
<1>1. Init => IInv
  BY InitIInv
<1>2. IInv /\ [Next]_vars => IInv'
  BY NextIInv
<1>3. IInv => TableIsLive
  BY DEF IInv
<1> QED
  BY <1>1, <1>2, <1>3, PTL DEF Spec
=============================================================================
