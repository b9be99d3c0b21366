-------------------------------- MODULE Fees --------------------------------
(***************************************************************************)
(* The fee arithmetic and the escrow book of oregon-execution (fees.rs)    *)
(* and the checks of a settlement receipt (oregon-primitives,              *)
(* fee_settlement.rs).                                                     *)
(*                                                                         *)
(*   terms       [base, max_fee, priority, max_weight]                     *)
(*   capability  [kind, payer, commitment, amount, sequence, authorization]*)
(*   ticket      [txid, capability, terms], which is also its escrow_id    *)
(*   book        [open, consumed_capabilities, consumed_sources, settled]  *)
(*                                                                         *)
(* The products are taken in 128 bits in the code, where those of two u64  *)
(* numbers fit; what is stored is converted to u64.                        *)
(***************************************************************************)
EXTENDS Integers, FiniteSets

CONSTANTS MaxU64,        \* the largest u64
          MaxSupply,     \* MAX_SUPPLY_BASE_UNITS
          MaxOpen,       \* EscrowBookV1.max_open
          MaxHistory     \* MAX_ESCROW_HISTORY_ENTRIES

ASSUME FeeAssumption ==
  /\ MaxU64 \in Nat /\ MaxSupply \in Nat /\ MaxSupply <= MaxU64
  /\ MaxOpen \in Nat \ {0}
  /\ MaxHistory \in Nat

max_escrow(t) == t.max_weight * t.max_fee

(* FeeTermsV1::new                                                          *)
fee_terms_ok(t) ==
  /\ t.max_weight # 0
  /\ t.max_fee >= t.base
  /\ t.priority <= t.max_fee
  /\ max_escrow(t) <= MaxSupply

(* The price paid for a unit of weight.                                     *)
effective_price(t) ==
  IF t.max_fee < t.base + t.priority THEN t.max_fee ELSE t.base + t.priority

(* The amounts of a settlement at a weight.                                 *)
Settlement(t, weight) ==
  LET charged == weight * effective_price(t)
      base == weight * t.base
  IN [weight |-> weight, charged |-> charged, base |-> base,
      priority |-> charged - base, refund |-> max_escrow(t) - charged]

(* No subtraction of settle underflows, and what it stores fits u64.        *)
settlement_fits(s) ==
  /\ s.priority >= 0 /\ s.refund >= 0
  /\ s.charged <= MaxU64 /\ s.base <= MaxU64
  /\ s.priority <= MaxU64 /\ s.refund <= MaxU64

(* validate_arithmetic computes the amounts again from the terms.           *)
receipt_ok(t, s) ==
  /\ t.max_weight # 0 /\ s.weight # 0 /\ s.weight <= t.max_weight
  /\ t.max_fee >= t.base /\ t.priority <= t.max_fee
  /\ max_escrow(t) <= MaxU64 /\ max_escrow(t) <= MaxSupply
  /\ s = Settlement(t, s.weight)
  /\ s.priority >= 0 /\ s.refund >= 0

-----------------------------------------------------------------------------
(* FundingCapabilityV1: the id covers every field, the source leaves out    *)
(* the amount and the authorization.                                        *)
capability_ok(c) == c.amount <= MaxSupply

capability_id(c) == c

source_id(c) == <<c.kind, c.payer, c.commitment, c.sequence>>

Ticket(txid, c, t) == [txid |-> txid, capability |-> c, terms |-> t]

escrow_id(ticket) ==
  <<ticket.txid, ticket.capability.payer, ticket.capability.kind,
    capability_id(ticket.capability), ticket.terms>>

book_new == [open |-> {}, consumed_capabilities |-> {},
             consumed_sources |-> {}, settled |-> {}]

(* Mutant: an escrow is opened that the history has no room for.            *)
OpenPastHistory(b, txid, c, t) ==
  /\ capability_id(c) \notin b.consumed_capabilities
  /\ source_id(c) \notin b.consumed_sources
  /\ Cardinality(b.open) < MaxOpen
  /\ c.amount >= max_escrow(t)

(* EscrowBookV1::open                                                       *)
open_ok(b, txid, c, t) ==
  /\ capability_id(c) \notin b.consumed_capabilities
  /\ source_id(c) \notin b.consumed_sources
  /\ Cardinality(b.open) < MaxOpen
  /\ Cardinality(b.consumed_capabilities) < MaxHistory
  /\ Cardinality(b.consumed_sources) < MaxHistory
  /\ c.amount >= max_escrow(t)
  /\ \A x \in b.open : escrow_id(x) # escrow_id(Ticket(txid, c, t))
  /\ escrow_id(Ticket(txid, c, t)) \notin b.settled

open(b, txid, c, t) ==
  [b EXCEPT !.open = @ \cup {Ticket(txid, c, t)},
            !.consumed_capabilities = @ \cup {capability_id(c)},
            !.consumed_sources = @ \cup {source_id(c)}]

(* EscrowBookV1::settle                                                     *)
settle_ok(b, ticket, weight) ==
  /\ escrow_id(ticket) \notin b.settled
  /\ ticket \in b.open
  /\ weight # 0 /\ weight <= ticket.terms.max_weight
  /\ Cardinality(b.settled) < MaxHistory
  /\ settlement_fits(Settlement(ticket.terms, weight))
  /\ receipt_ok(ticket.terms, Settlement(ticket.terms, weight))

settle(b, ticket) ==
  [b EXCEPT !.open = @ \ {ticket}, !.settled = @ \cup {escrow_id(ticket)}]
=============================================================================
