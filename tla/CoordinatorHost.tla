--------------------------- MODULE CoordinatorHost ---------------------------
(***************************************************************************)
(* The host the coordinator of oregon-execution gives a backend (host.rs,  *)
(* accounting.rs) and the nested calls it makes through it (calls.rs), as  *)
(* operators on the running transaction.                                   *)
(*                                                                         *)
(* tx is the running transaction: its request, staged book and ticket, its *)
(* journal, effects, meter, terminal, and the contexts of its open calls,  *)
(* innermost last.  It is NoTx between transactions.                       *)
(***************************************************************************)
EXTENDS JournalFrames, Metering, Fees, EffectFrames, SequencesExt

CONSTANTS
  Address, Kind,        \* the addresses and their kinds: evm, wasm, oregon
  Dispatch,             \* the addresses with a backend
  Request,              \* the transactions offered
  LocalKey,             \* keys a backend names in its own storage
  StoredValue,          \* the values it stores, {v}
  EventBytes, ReturnLen, VmUnits,             \* sizes a backend may choose
  CallSpec,             \* the calls it may make, RuntimeCallSpecV1
  MaxReturn,            \* MAX_RUNTIME_RETURN_DATA_BYTES
  Cost,                 \* HostChargeScheduleV1, by operation
  Intrinsic,            \* the weight a transaction pays for existing
  MaxPublished,         \* bound: transactions published
  InitState             \* the contents of the wasm and accounting domains

ASSUME CoordinatorAssumption ==
  /\ Kind \in [Address -> {"evm", "wasm", "oregon"}]
  /\ Dispatch \subseteq {a \in Address : Kind[a] # "oregon"}
  /\ \A c \in CallSpec : Kind[c.target] # "oregon"
  /\ Intrinsic \in Nat \ {0}

VARIABLES state, receipts, book, tx,
          published     \* ghost: the transactions published, in order

vars == <<state, receipts, book, tx, published>>

NoTx == [calls |-> <<>>]

Running == tx # NoTx

-----------------------------------------------------------------------------
(* accounting.rs                                                            *)
Balance(a) == <<"accounting", a, "balance">>

Total == <<"accounting", "", "total">>

Amount(value) == IF value = {} THEN 0 ELSE CHOOSE v \in value : TRUE

Stored(amount) == IF amount = 0 THEN {} ELSE {amount}

read_balance(j, a) == Amount(read(j, state, Balance(a)))

write_balance_ok(j, a, amount) == stage_ok(j, Balance(a), Stored(amount))

write_balance(j, a, amount) == stage_write(j, Balance(a), Stored(amount))

-----------------------------------------------------------------------------
(* host.rs: what every host call does first.                                *)
Fatal(t) == [t EXCEPT !.terminal = "fatal"]

charge_weight(t, cost) ==
  IF t.terminal # "running" THEN t
  ELSE IF cost > U64 THEN Fatal(t)
  ELSE LET m == charge_common(t.meter, cost)
       IN IF m.exhausted THEN [t EXCEPT !.meter = m, !.terminal = "exhausted"]
          ELSE [t EXCEPT !.meter = m]

Context(t) == t.calls[Len(t.calls)]

(* scoped_wasm_storage_key                                                  *)
scoped_wasm_storage_key(target, key) == <<"wasm", target, key>>

(* The host refuses storage to an EVM context and writes in a read-only     *)
(* one; those traps change nothing.                                         *)
storage_allowed(t, key) ==
  /\ Context(t).domain = "wasm"
  /\ KeyLen(scoped_wasm_storage_key(Context(t).target, key)) <= MaxKeyLen

may_write(t) == ~Context(t).read_only

state_get(t, key, readable) ==
  LET slot == scoped_wasm_storage_key(Context(t).target, key)
      c == charge_weight(t, Cost.read)
      value == read(t.journal, state, slot)
  IN IF c.terminal # "running" THEN c
     ELSE IF ~readable THEN Fatal(c)
     ELSE IF value = {} THEN c
     ELSE charge_weight(c, Cost.copy * value_len(value))

state_write(t, key, value, cost) ==
  LET slot == scoped_wasm_storage_key(Context(t).target, key)
      c == charge_weight(t, cost)
  IN IF c.terminal # "running" THEN c
     ELSE IF ~stage_ok(c.journal, slot, value) THEN Fatal(c)
     ELSE [c EXCEPT !.journal = stage_write(@, slot, value)]

state_put(t, key, value) ==
  state_write(t, key, value, Cost.write + Cost.byte * value_len(value))

state_delete(t, key) == state_write(t, key, {}, Cost.delete)

emit_event(t, bytes) ==
  LET c == charge_weight(t, Cost.event + Cost.byte * bytes)
  IN IF c.terminal # "running" \/ ~push_event_ok(c.effects, bytes) THEN c
     ELSE [c EXCEPT !.effects = push_event(@, Context(t).target, bytes)]

charge_vm_weight(t, units) ==
  LET m == charge(t.meter, Context(t).domain, units)
  IN IF m.exhausted THEN [t EXCEPT !.meter = m, !.terminal = "exhausted"]
     ELSE [t EXCEPT !.meter = m]

-----------------------------------------------------------------------------
(* calls.rs                                                                 *)
begin_child_frames(t) ==
  IF begin_ok(t.journal) /\ effects_begin_ok(t.effects)
    THEN [t EXCEPT !.journal = begin_frame(@), !.effects = effects_begin(@)]
  ELSE IF begin_ok(t.journal)
    THEN [t EXCEPT !.journal = revert_frame(begin_frame(@)),
                   !.terminal = "exhausted"]
  ELSE [t EXCEPT !.terminal = "exhausted"]

(* Mutant: a failed child's writes are kept and only its effects dropped.   *)
KeepChildFrames(t) ==
  [t EXCEPT !.journal = commit_frame(@), !.effects = effects_revert(@)]

(* A frame that cannot be closed is an internal error of the transaction.   *)
rollback_child_frames(t) ==
  IF revert_ok(t.journal) /\ effects_revert_ok(t.effects)
    THEN [t EXCEPT !.journal = revert_frame(@), !.effects = effects_revert(@)]
    ELSE Fatal(t)

commit_child_frames(t) ==
  IF commit_ok(t.journal)
    THEN [t EXCEPT !.journal = commit_frame(@), !.effects = effects_commit(@)]
    ELSE Fatal(t)

(* transfer_attached_value: into the child's own frame.                     *)
Spendable(a) == Kind[a] \in {"evm", "wasm"}

transfer_refused(j, caller, target, value) ==
  value # 0 /\ ( \/ ~Spendable(caller) \/ ~Spendable(target)
                 \/ read_balance(j, caller) < value )

transfer_attached_value(t, caller, target, value) ==
  LET j == t.journal
      next_caller == read_balance(j, caller) - value
      next_target == read_balance(j, target) + value
      debited == write_balance(j, caller, next_caller)
  IN IF value = 0 \/ caller = target THEN t
     ELSE IF next_target > U64 THEN Fatal(rollback_child_frames(t))
     ELSE IF \/ ~write_balance_ok(j, caller, next_caller)
             \/ ~write_balance_ok(debited, target, next_target)
       THEN Fatal(rollback_child_frames(t))
     ELSE [t EXCEPT !.journal = write_balance(debited, target, next_target)]

(* A child of a read-only call is read-only whatever it asks for.           *)
child_read_only(parent, spec) == parent.read_only \/ spec.read_only

(* What the child sees at its start, kept to compare with what it leaves.   *)
View(j) == [slot \in DOMAIN state |-> read(j, state, slot)]

derive_child_context(t, spec) ==
  [target |-> spec.target, domain |-> Kind[spec.target],
   depth |-> Context(t).depth + 1,
   read_only |-> child_read_only(Context(t), spec),
   entry |-> View(t.journal), events |-> top_effects(t.effects).events]

(* CoordinatorHostV1::call and execute_nested_call up to the child's        *)
(* backend: a trap is an answer to the caller and leaves only the charge    *)
(* and the frame counted.                                                   *)
call(t, spec) ==
  LET c == charge_weight(t, Cost.call)
      caller == Context(t).target
      b == begin_child_frames(c)
      moved == transfer_attached_value(b, caller, spec.target, spec.value)
  IN IF \/ c.terminal # "running"
        \/ Context(t).depth + 1 > MaxCallDepth
        \/ spec.target \notin Dispatch
       THEN c
     ELSE IF b.terminal # "running" THEN b
     ELSE IF transfer_refused(b.journal, caller, spec.target, spec.value)
       THEN rollback_child_frames(b)
     ELSE IF moved.terminal # "running" THEN moved
     ELSE [moved EXCEPT !.calls = Append(@, derive_child_context(c, spec))]

(* execute_nested_call after the child's backend, and the copy of its       *)
(* return data to the caller.                                               *)
Answered(t, result, answer) ==
  LET c == IF answer = "trap" THEN t
           ELSE charge_weight(t, Cost.copy * result.len)
  IN [c EXCEPT !.calls = Front(@), !.answer = answer]

Aborted(t) == [t EXCEPT !.calls = Front(@), !.answer = "abort"]

nested_return(t, result) ==
  LET undone == rollback_child_frames(t)
      kept == IF result.len = 0 THEN t
              ELSE [t EXCEPT !.effects = retain_return_bytes(@, result.len)]
      back == rollback_child_frames(kept)
  IN IF result.kind = "error" THEN Aborted(Fatal(undone))
     ELSE IF t.terminal # "running" THEN Aborted(undone)
     ELSE IF \/ result.len > MaxReturn
             \/ result.len # 0 /\ ~retain_ok(t.effects, result.len)
       THEN Answered(undone, result, "trap")
     ELSE IF result.kind = "success"
       THEN Answered(commit_child_frames(kept), result, "success")
     ELSE IF result.kind = "trap" THEN Answered(back, result, "trap")
     ELSE IF result.len = 0 THEN Answered(back, result, "revert")
     ELSE IF ~retain_ok(back.effects, result.len)
       THEN Aborted(Fatal(back))
     ELSE Answered([back EXCEPT !.effects = retain_return_bytes(@, result.len)],
                   result, "revert")
=============================================================================
