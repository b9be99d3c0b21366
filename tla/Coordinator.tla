----------------------------- MODULE Coordinator -----------------------------
(***************************************************************************)
(* The transaction coordinator of oregon-execution: it opens the escrow of *)
(* a transaction, runs its backend over the journal, the effects and the   *)
(* meter, and settles.  A backend is any program: in any order it makes    *)
(* host calls and returns any result, whatever signals the host gave it.   *)
(* When the coordinator returns an error the transaction's journal and     *)
(* staged book are dropped and nothing has changed.                        *)
(***************************************************************************)
EXTENDS CoordinatorHost

Init ==
  /\ state = InitState
  /\ receipts = {} /\ book = book_new
  /\ tx = NoTx /\ published = <<>>

-----------------------------------------------------------------------------
(* settlement.rs: the escrow, with the payer's balance debited in the root  *)
(* frame when it pays from its execution balance.                           *)
escrow_ok(r) ==
  /\ r.capability.amount >= max_escrow(r.terms)
  /\ open_ok(book, r.txid, r.capability, r.terms)
  /\ r.capability.kind = "execution" =>
       LET rest == read_balance(journal_new, r.capability.payer)
                     - max_escrow(r.terms)
       IN rest >= 0 /\ write_balance_ok(journal_new, r.capability.payer, rest)

reserve(r) ==
  IF r.capability.kind = "execution"
    THEN write_balance(journal_new, r.capability.payer,
           read_balance(journal_new, r.capability.payer) - max_escrow(r.terms))
    ELSE journal_new

top_level_context(r, j) ==
  [target |-> r.target, domain |-> Kind[r.target], depth |-> 1,
   read_only |-> r.read_only, entry |-> View(j), events |-> <<>>]

started(r) ==
  LET j == reserve(r)
  IN [request |-> r, book |-> open(book, r.txid, r.capability, r.terms),
      journal |-> begin_frame(j), effects |-> effects_begin(effects_new),
      meter |-> meter_new(r.terms.max_weight, Intrinsic),
      terminal |-> "running", calls |-> <<top_level_context(r, j)>>,
      answer |-> "none"]

-----------------------------------------------------------------------------
(* settle_top_level_execution_inner                                         *)
outcome_of(t, kind) ==
  IF t.terminal = "exhausted" \/ t.meter.exhausted THEN "exhausted"
  ELSE CASE kind = "success" -> "committed"
         [] kind = "revert" -> "reverted"
         [] kind = "trap" -> "trapped"

(* An exhausted transaction pays for its whole limit.                       *)
actual_weight(t, outcome) ==
  IF outcome = "exhausted" THEN t.meter.max_weight ELSE t.meter.consumed

(* Mutant: the charge leaves the payer and stays in the recorded total.     *)
TotalKept(t, s) ==
  LET payer == t.request.capability.payer
  IN [t EXCEPT !.journal =
        write_balance(@, payer, read_balance(@, payer) + s.refund)]

(* The payer's refund, and the charge taken out of the recorded total.      *)
apply_execution_funded_settlement(t, s) ==
  LET payer == t.request.capability.payer
      balance == read_balance(t.journal, payer) + s.refund
      total == Amount(read(t.journal, state, Total)) - s.charged
      paid == write_balance(t.journal, payer, balance)
  IN IF balance > U64 \/ total < 0 THEN Fatal(t)
     ELSE IF \/ ~write_balance_ok(t.journal, payer, balance)
             \/ ~stage_ok(paid, Total, {total})
       THEN Fatal(t)
     ELSE [t EXCEPT !.journal = stage_write(paid, Total, {total})]

finish_top_level_frames(t, outcome) ==
  IF outcome = "committed" THEN commit_child_frames(t)
  ELSE rollback_child_frames(t)

(* finish_top_level_frames, the settlement in the staged book and the       *)
(* payer's refund.                                                          *)
settle_top_level(t, outcome) ==
  LET r == t.request
      ticket == Ticket(r.txid, r.capability, r.terms)
      f == finish_top_level_frames(t, outcome)
      w == actual_weight(t, outcome)
  IN IF f.terminal = "fatal" THEN f
     ELSE IF ~settle_ok(f.book, ticket, w) THEN Fatal(f)
     ELSE LET s == [f EXCEPT !.book = settle(@, ticket)]
          IN IF r.capability.kind = "native" THEN s
             ELSE apply_execution_funded_settlement(s, Settlement(r.terms, w))

receipt(t, outcome, len) ==
  [txid |-> t.request.txid, outcome |-> outcome,
   weight |-> actual_weight(t, outcome),
   charged |-> Settlement(t.request.terms, actual_weight(t, outcome)).charged,
   delta |-> IF t.request.capability.kind = "native" THEN 0
             ELSE Settlement(t.request.terms, actual_weight(t, outcome)).charged,
   events |-> t.effects.frames[1].events, return_len |-> len]


(* compose_transaction_execution_proposal refuses a second receipt.         *)
receipt_is_new(t) == \A x \in receipts : x.txid # t.request.txid

(* The end of execute_transaction_v1: a proposal, which its caller makes    *)
(* the new state, or an error.                                              *)
finish(t, result) ==
  LET e == IF result.kind = "error" THEN Fatal(t) ELSE t
      len == IF e.terminal = "running" /\ result.len <= MaxReturn
               THEN result.len ELSE 0
      kept == len # 0 /\ retain_ok(e.effects, len)
      kind == IF \/ result.kind = "error" \/ result.len > MaxReturn
                 \/ len # 0 /\ ~kept
                THEN "trap" ELSE result.kind
      u == IF kept THEN [e EXCEPT !.effects = retain_return_bytes(@, len)] ELSE e
      outcome == outcome_of(u, kind)
      s == settle_top_level(u, outcome)
  IN /\ tx' = NoTx
     /\ IF /\ e.terminal # "fatal" /\ s.terminal # "fatal"
           /\ finalize_ok(s.journal) /\ receipt_is_new(s)
          THEN /\ state' = Applied(state, finalize(s.journal, "committed", state))
               /\ receipts' = receipts
                    \cup {receipt(s, outcome, IF kept THEN len ELSE 0)}
               /\ book' = s.book
               /\ published' = Append(published, s.request)
          ELSE UNCHANGED <<state, receipts, book, published>>

-----------------------------------------------------------------------------
(* execute_transaction_v1 up to the backend; without a backend for the      *)
(* target the transaction traps.                                            *)
Begin(r) ==
  /\ ~Running /\ Len(published) < MaxPublished
  /\ escrow_ok(r)
  /\ begin_ok(reserve(r)) /\ effects_begin_ok(effects_new)
  /\ IF r.target \in Dispatch
       THEN /\ tx' = started(r)
            /\ UNCHANGED <<state, receipts, book, published>>
       ELSE finish(started(r), [kind |-> "trap", len |-> 0])

Host(t) ==
  tx' = t /\ UNCHANGED <<state, receipts, book, published>>

Active == Running /\ tx.terminal = "running"

StateGet(key, readable) ==
  Active /\ storage_allowed(tx, key) /\ Host(state_get(tx, key, readable))

StatePut(key, value) ==
  /\ Active /\ storage_allowed(tx, key) /\ value_len(value) <= MaxValueLen
  /\ may_write(tx)
  /\ Host(state_put(tx, key, value))

StateDelete(key) ==
  /\ Active /\ storage_allowed(tx, key) /\ may_write(tx)
  /\ Host(state_delete(tx, key))

EmitEvent(bytes) ==
  Active /\ bytes <= MaxEventBytes /\ Host(emit_event(tx, bytes))

ChargeVm(units) == Active /\ Host(charge_vm_weight(tx, units))

ChargeCommon(weight) == Active /\ Host(charge_weight(tx, weight))

Call(spec) == Active /\ Host(call(tx, spec))

Result ==
  [kind : {"success", "revert"}, len : ReturnLen]
    \cup [kind : {"trap", "error"}, len : {0}]

Return(result) ==
  /\ Running
  /\ IF Len(tx.calls) > 1 THEN Host(nested_return(tx, result))
     ELSE finish(tx, result)

(* The next block starts with an escrow book of its own.                    *)
NewBlock ==
  /\ ~Running /\ book # book_new /\ Len(published) < MaxPublished
  /\ book' = book_new
  /\ UNCHANGED <<state, receipts, tx, published>>

Next ==
  \/ \E r \in Request : Begin(r)
  \/ \E k \in LocalKey, ok \in BOOLEAN : StateGet(k, ok)
  \/ \E k \in LocalKey, v \in StoredValue : StatePut(k, v)
  \/ \E k \in LocalKey : StateDelete(k)
  \/ \E b \in EventBytes : EmitEvent(b)
  \/ \E u \in VmUnits : ChargeVm(u) \/ ChargeCommon(u)
  \/ \E s \in CallSpec : Call(s)
  \/ \E r \in Result : Return(r)
  \/ NewBlock

Spec == Init /\ [][Next]_vars

-----------------------------------------------------------------------------
Sum(f(_), S) == MapThenSumSet(f, S)

Balances(view) == Sum(LAMBDA a : Amount(view[Balance(a)]), Address)

(* No execution balance is made or lost: the balances a call sees and the   *)
(* escrow add up to the total at every step, and the total falls by exactly *)
(* the fees paid from it (transfer_attached_value, reserve, settlement).    *)
ValueConserved ==
  /\ Balances(state) = Amount(state[Total])
  /\ Amount(state[Total]) + Sum(LAMBDA x : x.delta, receipts)
       = Amount(InitState[Total])
  /\ Running =>
       LET view == View(tx.journal)
           c == tx.request.capability
       IN Balances(view)
            + (IF c.kind = "native" THEN 0 ELSE max_escrow(tx.request.terms))
          = Amount(view[Total])


NewReceipt == CHOOSE x \in receipts' : x \notin receipts

(* A transaction that does not commit changes nothing but the payer's       *)
(* balance and the total, by its fee, and leaves no event.                  *)
FailureCostsOnlyFee ==
  [][published' # published /\ NewReceipt.outcome # "committed" =>
       LET payer == published'[Len(published')].capability.payer
       IN /\ NewReceipt.events = <<>>
          /\ \A slot \in DOMAIN state \ {Total, Balance(payer)} :
               state'[slot] = state[slot]
          /\ Amount(state'[Balance(payer)]) + NewReceipt.delta
               = Amount(state[Balance(payer)])]_vars

(* A call that succeeds hands its writes, transfers and events to its       *)
(* caller, in order, and no storage write if it, or a call above it, is     *)
(* read-only; one that does not leaves the caller's view and events as they *)
(* were (commit_child_frames, rollback_child_frames).                       *)
CallsAllOrNothing ==
  [][Running /\ Len(tx'.calls) \in 1..(Len(tx.calls) - 1) =>
       LET c == Context(tx)
           after == View(tx'.journal)
           events == top_effects(tx'.effects).events
       IN IF tx'.answer = "success"
            THEN /\ after = View(tx.journal)
                 /\ events = c.events \o top_effects(tx.effects).events
                 /\ c.read_only =>
                      \A slot \in DOMAIN state : slot[1] = "wasm" => after[slot] = c.entry[slot]
            ELSE after = c.entry /\ events = c.events]_vars

=============================================================================
