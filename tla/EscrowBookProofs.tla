-------------------------- MODULE EscrowBookProofs --------------------------
(***************************************************************************)
(* The escrow book for every set of capabilities and terms.                *)
(***************************************************************************)
EXTENDS EscrowBook, FiniteSetTheorems, TLAPS

(* Products of naturals grow with their factors.                            *)
LEMMA ProductMonotone ==
  ASSUME NEW a \in Nat, NEW b \in Nat, NEW c \in Nat, NEW d \in Nat,
         a <= b, c <= d
  PROVE  /\ a * c \in Nat /\ b * d \in Nat
         /\ a * c <= b * d
<1>1. a * c \in Nat /\ b * d \in Nat /\ b * c \in Nat
  BY Z3
<1>2. a * c <= b * c
  <2>1. (b - a) * c >= 0
    BY Z3
  <2>. QED  BY <2>1, Z3
<1>3. b * c <= b * d
  <2>1. b * (d - c) >= 0
    BY Z3
  <2>. QED  BY <2>1, Z3
<1>. QED  BY <1>1, <1>2, <1>3

(* The price lies between the base fee and the cap of the terms, and is no  *)
(* more than the base fee and the tip (effective_price).                    *)
LEMMA PriceBounds ==
  ASSUME NEW t \in Terms
  PROVE  /\ effective_price(t) \in Nat
         /\ t.base <= effective_price(t)
         /\ effective_price(t) <= t.max_fee
         /\ effective_price(t) <= t.base + t.priority
BY EscrowAssumption DEF effective_price, fee_terms_ok

(* Every weight the terms allow has amounts that add up and fit the         *)
(* supply.                                                                  *)
LEMMA SettlementBounds ==
  ASSUME NEW t \in Terms, NEW w \in Nat, w <= t.max_weight
  PROVE  LET s == Settlement(t, w)
         IN /\ max_escrow(t) \in Nat /\ max_escrow(t) <= MaxSupply
            /\ s.charged \in Nat /\ s.base \in Nat
            /\ s.priority \in Nat /\ s.refund \in Nat
            /\ s.base <= s.charged /\ s.charged <= max_escrow(t)
            /\ s.charged <= w * (t.base + t.priority)
            /\ s.charged <= w * t.max_fee
            /\ s.charged + s.refund = max_escrow(t)
            /\ s.weight = w
<1>. DEFINE price == effective_price(t)
<1>1. /\ t.base \in Nat /\ t.max_fee \in Nat /\ t.priority \in Nat
      /\ t.max_weight \in Nat /\ fee_terms_ok(t)
  BY EscrowAssumption
<1>2. /\ price \in Nat /\ t.base <= price /\ price <= t.max_fee
      /\ price <= t.base + t.priority
  BY PriceBounds
<1>. HIDE DEF price
<1>3. w * t.base \in Nat /\ w * price \in Nat /\ w * t.base <= w * price
  BY <1>1, <1>2, ProductMonotone
<1>4. t.max_weight * t.max_fee \in Nat /\ w * price <= t.max_weight * t.max_fee
  BY <1>1, <1>2, ProductMonotone
<1>5. w * price <= w * t.max_fee
  BY <1>1, <1>2, ProductMonotone
<1>6. w * price <= w * (t.base + t.priority)
  <2>1. t.base + t.priority \in Nat
    BY <1>1
  <2>. QED  BY <2>1, <1>2, ProductMonotone
<1>7. max_escrow(t) = t.max_weight * t.max_fee /\ max_escrow(t) <= MaxSupply
  BY <1>1 DEF max_escrow, fee_terms_ok
<1>8. Settlement(t, w) =
        [weight |-> w, charged |-> w * price, base |-> w * t.base,
         priority |-> w * price - w * t.base,
         refund |-> max_escrow(t) - w * price]
  BY DEF Settlement, price
<1>. DEFINE ch == w * price
            ba == w * t.base
            me == max_escrow(t)
<1>9. ch \in Nat /\ ba \in Nat /\ me \in Nat /\ ba <= ch /\ ch <= me
  BY <1>3, <1>4, <1>7
<1>10. /\ Settlement(t, w).charged = ch /\ Settlement(t, w).base = ba
       /\ Settlement(t, w).priority = ch - ba
       /\ Settlement(t, w).refund = me - ch
       /\ Settlement(t, w).weight = w
  BY <1>8
<1>11. ch <= w * (t.base + t.priority) /\ ch <= w * t.max_fee
  BY <1>5, <1>6
<1>12. me <= MaxSupply
  BY <1>7
<1>. HIDE DEF ch, ba, me
<1>13. ch - ba \in Nat /\ me - ch \in Nat /\ ch + (me - ch) = me
  BY <1>9
<1>14. me = max_escrow(t)
  BY DEF me
<1>. QED  BY <1>9, <1>10, <1>11, <1>12, <1>13, <1>14

(* Two tickets with one escrow id are one ticket.                           *)
LEMMA EscrowIdInjective ==
  ASSUME NEW x \in [txid : TxId, capability : Capability, terms : Terms],
         NEW y \in [txid : TxId, capability : Capability, terms : Terms],
         escrow_id(x) = escrow_id(y)
  PROVE  x = y
BY DEF escrow_id, capability_id

(* Adding a new element and taking one out of a finite set.                 *)
LEMMA AddNew ==
  ASSUME NEW S, IsFiniteSet(S), NEW e, e \notin S
  PROVE  /\ IsFiniteSet(S \cup {e}) /\ Cardinality(S) \in Nat
         /\ Cardinality(S \cup {e}) = Cardinality(S) + 1
BY FS_AddElement, FS_CardinalityType

LEMMA TakeOne ==
  ASSUME NEW S, IsFiniteSet(S), NEW e \in S
  PROVE  /\ IsFiniteSet(S \ {e}) /\ Cardinality(S) \in Nat
         /\ Cardinality(S \ {e}) = Cardinality(S) - 1
BY FS_RemoveElement, FS_CardinalityType

-----------------------------------------------------------------------------
(* Every ticket ever opened has its source consumed; tickets are open or    *)
(* settled, not both; one capability was consumed for each of them.         *)
IInv ==
  /\ BookTypeOK
  /\ \A p \in paid :
       /\ p.ticket \in [txid : TxId, capability : Capability, terms : Terms]
       /\ escrow_id(p.ticket) \in book.settled
  /\ \A x \in book.open :
       /\ escrow_id(x) \notin book.settled
       /\ max_escrow(x.terms) <= x.capability.amount
  /\ \A x \in Tickets : source_id(x.capability) \in book.consumed_sources
  /\ Cardinality(book.open) + Cardinality(book.settled)
       = Cardinality(book.consumed_capabilities)
  /\ Cardinality(book.consumed_capabilities) <= MaxHistory
  /\ OneEscrowPerSource
  /\ ChargeIsFair

LEMMA InitIInv == BookInit => IInv
<1>. SUFFICES ASSUME BookInit PROVE IInv
  OBVIOUS
<1>1. book = book_new /\ paid = {} /\ Tickets = {}
  BY DEF BookInit, Tickets, book_new
<1>2. IsFiniteSet({}) /\ Cardinality({}) = 0
  BY FS_EmptySet
<1>. QED  BY <1>1, <1>2, FeeAssumption
         DEF IInv, BookTypeOK, OneEscrowPerSource, ChargeIsFair, book_new

LEMMA OpenIInv ==
  ASSUME IInv, NEW txid \in TxId, NEW c \in Capability, NEW t \in Terms,
         Open(txid, c, t)
  PROVE  IInv'
<1>. DEFINE n == Ticket(txid, c, t)
<1>1. /\ n \in [txid : TxId, capability : Capability, terms : Terms]
      /\ n.capability = c /\ n.terms = t
  BY DEF Ticket
<1>2. /\ book'.open = book.open \cup {n}
      /\ book'.consumed_capabilities = book.consumed_capabilities \cup {c}
      /\ book'.consumed_sources = book.consumed_sources \cup {source_id(c)}
      /\ book'.settled = book.settled
      /\ paid' = paid
  BY DEF Open, open, capability_id, IInv, BookTypeOK
<1>3. /\ c \notin book.consumed_capabilities
      /\ source_id(c) \notin book.consumed_sources
      /\ Cardinality(book.consumed_capabilities) < MaxHistory
      /\ c.amount >= max_escrow(t)
      /\ \A x \in book.open : escrow_id(x) # escrow_id(n)
      /\ escrow_id(n) \notin book.settled
  BY DEF Open, open_ok, capability_id
<1>. HIDE DEF n
<1>4. n \notin book.open
  BY <1>3
<1>5a. /\ IsFiniteSet(book.open \cup {n})
       /\ Cardinality(book.open) \in Nat
       /\ Cardinality(book.open \cup {n}) = Cardinality(book.open) + 1
  BY <1>4, AddNew DEF IInv, BookTypeOK
<1>5b. LET cc == book.consumed_capabilities
       IN /\ IsFiniteSet(cc \cup {c}) /\ Cardinality(cc) \in Nat
          /\ Cardinality(cc \cup {c}) = Cardinality(cc) + 1
  BY <1>3, AddNew DEF IInv, BookTypeOK
<1>5c. IsFiniteSet(book.consumed_sources \cup {source_id(c)})
  BY <1>3, AddNew DEF IInv, BookTypeOK
<1>5. BookTypeOK'
  BY <1>1, <1>2, <1>5a, <1>5b, <1>5c DEF IInv, BookTypeOK
<1>6. Tickets' = Tickets \cup {n}
  BY <1>2 DEF Tickets
<1>7. /\ Cardinality(book'.open) = Cardinality(book.open) + 1
      /\ Cardinality(book'.consumed_capabilities)
           = Cardinality(book.consumed_capabilities) + 1
      /\ Cardinality(book.open) \in Nat
      /\ Cardinality(book.settled) \in Nat
      /\ Cardinality(book.consumed_capabilities) \in Nat
  BY <1>2, <1>5a, <1>5b, FS_CardinalityType DEF IInv, BookTypeOK
<1>8. /\ Cardinality(book'.open) + Cardinality(book'.settled)
           = Cardinality(book'.consumed_capabilities)
      /\ Cardinality(book'.consumed_capabilities) <= MaxHistory
  BY <1>2, <1>3, <1>7, FeeAssumption DEF IInv
<1>9. \A x \in Tickets' : source_id(x.capability) \in book'.consumed_sources
  BY <1>1, <1>2, <1>6 DEF IInv
<1>10. OneEscrowPerSource'
  <2>1. \A x \in Tickets : source_id(x.capability) # source_id(c)
    BY <1>3 DEF IInv
  <2>2. SUFFICES ASSUME NEW x \in Tickets', NEW y \in Tickets',
                        SameSource(x.capability, y.capability)
                 PROVE  x = y
    BY DEF OneEscrowPerSource, SameSource
  <2>3. source_id(x.capability) = source_id(y.capability)
    BY <2>2 DEF SameSource, source_id
  <2>. QED  BY <1>1, <1>6, <2>1, <2>2, <2>3 DEF IInv, OneEscrowPerSource
<1>11. \A x \in book'.open :
         /\ escrow_id(x) \notin book'.settled
         /\ max_escrow(x.terms) <= x.capability.amount
  <2>1. max_escrow(t) \in Nat /\ c.amount \in Nat
    BY EscrowAssumption, SettlementBounds DEF fee_terms_ok
  <2>. QED  BY <1>1, <1>2, <1>3, <2>1 DEF IInv
<1>12. ChargeIsFair'
  BY <1>2 DEF IInv, ChargeIsFair, max_escrow
<1>13. \A p \in paid' :
         /\ p.ticket \in [txid : TxId, capability : Capability, terms : Terms]
         /\ escrow_id(p.ticket) \in book'.settled
  BY <1>2 DEF IInv
<1>. QED  BY <1>5, <1>8, <1>9, <1>10, <1>11, <1>12, <1>13
         DEF IInv, escrow_id, max_escrow, source_id, capability_id

LEMMA SettleIInv ==
  ASSUME IInv, NEW x \in book.open, NEW w \in Nat, Settle(x, w)
  PROVE  IInv'
<1>. DEFINE q == [ticket |-> x, amounts |-> Settlement(x.terms, w)]
<1>1. /\ x \in [txid : TxId, capability : Capability, terms : Terms]
      /\ x.terms \in Terms /\ x.capability \in Capability
  BY DEF IInv, BookTypeOK
<1>2. /\ book'.open = book.open \ {x}
      /\ book'.settled = book.settled \cup {escrow_id(x)}
      /\ book'.consumed_capabilities = book.consumed_capabilities
      /\ book'.consumed_sources = book.consumed_sources
      /\ paid' = paid \cup {q}
  BY DEF Settle, settle, IInv, BookTypeOK
<1>3. escrow_id(x) \notin book.settled /\ w <= x.terms.max_weight
  BY DEF Settle, settle_ok
<1>4. q.ticket = x /\ q.amounts = Settlement(x.terms, w)
  OBVIOUS
<1>. HIDE DEF q
<1>5a. LET o == book.open
       IN /\ IsFiniteSet(o \ {x}) /\ Cardinality(o) \in Nat
          /\ Cardinality(o \ {x}) = Cardinality(o) - 1
  BY TakeOne DEF IInv, BookTypeOK
<1>5b. LET d == book.settled
       IN /\ IsFiniteSet(d \cup {escrow_id(x)}) /\ Cardinality(d) \in Nat
          /\ Cardinality(d \cup {escrow_id(x)}) = Cardinality(d) + 1
  BY <1>3, AddNew DEF IInv, BookTypeOK
<1>5. BookTypeOK'
  BY <1>2, <1>5a, <1>5b DEF IInv, BookTypeOK
<1>6. Tickets' = Tickets
  BY <1>2, <1>4 DEF Tickets
<1>7. /\ Cardinality(book'.open) = Cardinality(book.open) - 1
      /\ Cardinality(book'.settled) = Cardinality(book.settled) + 1
      /\ Cardinality(book.open) \in Nat
      /\ Cardinality(book.settled) \in Nat
  BY <1>2, <1>5a, <1>5b
<1>8. Cardinality(book'.open) + Cardinality(book'.settled)
        = Cardinality(book'.consumed_capabilities)
  BY <1>2, <1>7 DEF IInv
<1>9. \A y \in book'.open :
        /\ escrow_id(y) \notin book'.settled
        /\ max_escrow(y.terms) <= y.capability.amount
  BY <1>1, <1>2, EscrowIdInjective DEF IInv, BookTypeOK
<1>10. ChargeIsFair'
  <2>1. max_escrow(x.terms) <= x.capability.amount
    BY DEF IInv
  <2>2. x.capability.amount \in Nat
    BY <1>1, EscrowAssumption
  <2>3. LET s == q.amounts
            t == q.ticket.terms
        IN /\ s.charged + s.refund = max_escrow(t)
           /\ s.charged <= max_escrow(t)
           /\ s.charged \in Nat /\ max_escrow(t) \in Nat
           /\ s.base <= s.charged
           /\ s.charged <= s.weight * (t.base + t.priority)
           /\ s.charged <= s.weight * t.max_fee
    BY <1>1, <1>3, <1>4, SettlementBounds
  <2>4. q.amounts.charged <= q.ticket.capability.amount
    BY <1>4, <2>1, <2>2, <2>3
  <2>. QED  BY <1>2, <2>3, <2>4 DEF IInv, ChargeIsFair
<1>11. \A p \in paid' :
         /\ p.ticket \in [txid : TxId, capability : Capability, terms : Terms]
         /\ escrow_id(p.ticket) \in book'.settled
  BY <1>1, <1>2, <1>4 DEF IInv
<1>12. OneEscrowPerSource' /\ \A y \in Tickets' :
         source_id(y.capability) \in book'.consumed_sources
  BY <1>2, <1>6 DEF IInv, OneEscrowPerSource
<1>. QED  BY <1>2, <1>5, <1>8, <1>9, <1>10, <1>11, <1>12
         DEF IInv, escrow_id, max_escrow, source_id, capability_id

LEMMA NextIInv == IInv /\ [BookNext]_book_vars => IInv'
<1>. SUFFICES ASSUME IInv, [BookNext]_book_vars PROVE IInv'
  OBVIOUS
<1>1. ASSUME NEW txid \in TxId, NEW c \in Capability, NEW t \in Terms,
             Open(txid, c, t)
      PROVE  IInv'
  BY <1>1, OpenIInv
<1>2. ASSUME NEW x \in book.open, NEW w \in 0..(x.terms.max_weight + 1),
             Settle(x, w)
      PROVE  IInv'
  <2>1. w \in Nat
    BY EscrowAssumption DEF IInv, BookTypeOK
  <2>. QED  BY <1>2, <2>1, SettleIInv
<1>3. CASE UNCHANGED book_vars
  BY <1>3 DEF book_vars, IInv, BookTypeOK, Tickets, OneEscrowPerSource, ChargeIsFair
<1>. QED  BY <1>1, <1>2, <1>3 DEF BookNext

(* BookSpec keeps the inductive invariant.                                  *)
LEMMA SpecIInv == BookSpec => []IInv
BY InitIInv, NextIInv, PTL DEF BookSpec

-----------------------------------------------------------------------------
(* No funding source backs two escrows, however many times and with         *)
(* whatever amounts it is offered (EscrowBookV1::open).                     *)
THEOREM BookUsesSourceOnce == BookSpec => []OneEscrowPerSource
<1>1. IInv => OneEscrowPerSource
  BY DEF IInv
<1>. QED  BY <1>1, SpecIInv, PTL

(* Every settlement charges a fair price and splits the escrow exactly      *)
(* (EscrowBookV1::settle).                                                  *)
THEOREM BookChargesFairly == BookSpec => []ChargeIsFair
<1>1. IInv => ChargeIsFair
  BY DEF IInv
<1>. QED  BY <1>1, SpecIInv, PTL

(* An escrow the book opened can always be settled at a weight its terms    *)
(* allow (EscrowBookV1::settle).                                            *)
THEOREM BookNeverStuck == BookSpec => []SettleNeverStuck
<1>1. ASSUME IInv PROVE SettleNeverStuck
  <2>. SUFFICES ASSUME NEW x \in book.open, NEW w \in 1..MaxSupply,
                       w <= x.terms.max_weight
                PROVE  settle_ok(book, x, w)
    BY DEF SettleNeverStuck
  <2>1. x.terms \in Terms /\ w \in Nat /\ w # 0
    BY <1>1, FeeAssumption DEF IInv, BookTypeOK
  <2>. DEFINE t == x.terms
              s == Settlement(t, w)
  <2>2. /\ max_escrow(t) \in Nat /\ max_escrow(t) <= MaxSupply
        /\ s.charged \in Nat /\ s.base \in Nat
        /\ s.priority \in Nat /\ s.refund \in Nat
        /\ s.base <= s.charged /\ s.charged <= max_escrow(t)
        /\ s.charged + s.refund = max_escrow(t)
        /\ s.weight = w
    BY <2>1, SettlementBounds
  <2>3. s.priority = s.charged - s.base
    BY DEF Settlement
  <2>4. /\ t.base \in Nat /\ t.max_fee \in Nat /\ t.priority \in Nat
        /\ t.max_weight \in Nat /\ fee_terms_ok(t)
    BY <2>1, EscrowAssumption
  <2>5. s = Settlement(t, s.weight)
    BY <2>2
  <2>. HIDE DEF s, t
  <2>6. settlement_fits(s)
    BY <2>2, <2>3, FeeAssumption DEF settlement_fits
  <2>7. receipt_ok(t, s)
    BY <2>1, <2>2, <2>4, <2>5, FeeAssumption DEF receipt_ok, fee_terms_ok, t
  <2>8. Cardinality(book.settled) < MaxHistory
    <3>1. Cardinality(book.open) \in Nat /\ Cardinality(book.settled) \in Nat
      BY <1>1, FS_CardinalityType DEF IInv, BookTypeOK
    <3>2. Cardinality(book.open) # 0
      BY <1>1, FS_EmptySet DEF IInv, BookTypeOK
    <3>. QED  BY <1>1, <3>1, <3>2, FeeAssumption DEF IInv
  <2>. QED  BY <1>1, <2>1, <2>6, <2>7, <2>8 DEF IInv, settle_ok, s, t
<1>. QED  BY <1>1, SpecIInv, PTL

(* No ticket is settled twice (EscrowBookV1::settle).                       *)
THEOREM BookSettlesOnce == BookSpec => SettledOnce
<1>. DEFINE Once == \A p \in paid' \ paid : \A q \in paid : q.ticket # p.ticket
<1>1. ASSUME IInv, [BookNext]_book_vars PROVE [Once]_book_vars
  <2>1. ASSUME NEW txid \in TxId, NEW c \in Capability, NEW t \in Terms,
               Open(txid, c, t)
        PROVE  Once
    BY <2>1 DEF Open
  <2>2. ASSUME NEW x \in book.open, NEW w \in 0..(x.terms.max_weight + 1),
               Settle(x, w)
        PROVE  Once
    BY <1>1, <2>2 DEF Settle, IInv
  <2>. QED  BY <1>1, <2>1, <2>2 DEF BookNext
<1>2. IInv /\ [BookNext]_book_vars => [Once]_book_vars
  BY <1>1
<1>. QED  BY <1>2, SpecIInv, PTL DEF BookSpec, SettledOnce
=============================================================================
