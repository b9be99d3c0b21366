----------------------------- MODULE EscrowBook -----------------------------
(***************************************************************************)
(* The escrow book under any sequence of opens and settlements. A refused  *)
(* call leaves it as it was.                                               *)
(***************************************************************************)
EXTENDS Fees

CONSTANTS TxId, Capability, Terms

ASSUME EscrowAssumption ==
  /\ \A c \in Capability : c.amount \in Nat /\ capability_ok(c)
  /\ \A t \in Terms : /\ t.base \in Nat /\ t.max_fee \in Nat
                      /\ t.priority \in Nat /\ t.max_weight \in Nat
                      /\ fee_terms_ok(t)

VARIABLES book,
          paid          \* ghost: the tickets settled, with their amounts

book_vars == <<book, paid>>

BookInit == book = book_new /\ paid = {}

Open(txid, c, t) ==
  /\ open_ok(book, txid, c, t)
  /\ book' = open(book, txid, c, t)
  /\ UNCHANGED paid

Settle(ticket, weight) ==
  /\ settle_ok(book, ticket, weight)
  /\ book' = settle(book, ticket)
  /\ paid' = paid \cup {[ticket |-> ticket,
                         amounts |-> Settlement(ticket.terms, weight)]}

BookNext ==
  \/ \E txid \in TxId, c \in Capability, t \in Terms : Open(txid, c, t)
  \/ \E ticket \in book.open :
       \E weight \in 0..(ticket.terms.max_weight + 1) : Settle(ticket, weight)

BookSpec == BookInit /\ [][BookNext]_book_vars

-----------------------------------------------------------------------------
BookTypeOK ==
  /\ book.open \subseteq [txid : TxId, capability : Capability, terms : Terms]
  /\ IsFiniteSet(book.open) /\ IsFiniteSet(book.settled)
  /\ IsFiniteSet(book.consumed_capabilities)
  /\ IsFiniteSet(book.consumed_sources)

Tickets == book.open \cup {p.ticket : p \in paid}

SameSource(c, d) ==
  /\ c.kind = d.kind /\ c.payer = d.payer
  /\ c.commitment = d.commitment /\ c.sequence = d.sequence

(* A funding source backs one escrow in the life of the book, whatever the  *)
(* amount or the authorization it is offered with (source_id).              *)
OneEscrowPerSource ==
  \A x, y \in Tickets : SameSource(x.capability, y.capability) => x = y

(* An open escrow can be settled at every weight its terms allow: no        *)
(* amount underflows or overflows, the receipt's own check agrees, and the  *)
(* history that open was willing to start still has room (settle).          *)
SettleNeverStuck ==
  \A x \in book.open, w \in 1..MaxSupply :
    w <= x.terms.max_weight => settle_ok(book, x, w)

(* What was settled splits the escrow into a charge and a refund, and the   *)
(* charge into a base part and a tip; the payer is charged no more for a    *)
(* unit of weight than the base fee and the tip they offered.               *)
ChargeIsFair ==
  \A p \in paid :
    LET s == p.amounts
        t == p.ticket.terms
    IN /\ s.charged + s.refund = max_escrow(t)
       /\ s.charged <= p.ticket.capability.amount
       /\ s.base <= s.charged
       /\ s.charged <= s.weight * (t.base + t.priority)
       /\ s.charged <= s.weight * t.max_fee

(* A settled escrow stays settled and is never settled again: its amounts   *)
(* are fixed (settle).                                                      *)
SettledOnce ==
  [][\A p \in paid' \ paid : \A q \in paid : q.ticket # p.ticket]_book_vars
=============================================================================
