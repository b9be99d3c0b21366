------------------------------- MODULE Ledger -------------------------------
(***************************************************************************)
(* The ledger of unspent outputs (crate oregon-utxo, UtxoState) and what   *)
(* the chain state writes to the store when it extends or reorganizes the  *)
(* active chain (crate oregon-chainstate, transition and utxo_delta).      *)
(*                                                                         *)
(* A transaction is its txid, a number; its inputs and outputs are         *)
(* constants, because a txid is the hash of them.  A block is a sequence   *)
(* of transactions.  Connecting a block works on a copy of the entries and *)
(* either replaces them or leaves everything as it was.                    *)
(***************************************************************************)
EXTENDS Integers, FiniteSets, SequencesExt

CONSTANTS
    Tx,                \* txids, positive numbers
    Inputs,            \* txid -> its outpoints <<txid, index>>, in order
    Outputs,           \* txid -> its outputs, in order
    Witness,           \* txid -> the height its first witness item encodes
    Unverified,        \* pairs <<txid, input>> the spend verifier refuses
    TooLarge,          \* transactions above MAX_TRANSACTION_BYTES
    Block,             \* the blocks that may be offered
    BadRoot,           \* the blocks whose header has another merkle root
    COINBASE_MATURITY,
    FOUNDER_ALLOCATION,
    INITIAL_SUBSIDY,
    HALVING_INTERVAL,
    MAX_SUPPLY,        \* Amount::from_base_units refuses more
    MAX_HEIGHT,        \* bound: length of the chain
    MAX_REORG,         \* bound: blocks a reorganization removes
    MAX_BRANCH         \* bound: blocks one step connects

VARIABLES
    chain,    \* the active blocks above the anchor, with their undo records
    entries,  \* UtxoState::entries in memory: outpoint -> entry
    store     \* the UTXO column of the database

vars == <<chain, entries, store>>

\* The input of a coinbase: the null txid with index u32::MAX.
NullPoint == <<0, 0>>

TxInputs(tx) == ToSet(Inputs[tx])
OutPoints(tx) == {<<tx, i>> : i \in DOMAIN Outputs[tx]}

NoEntries == << >>

Total(f) == SumFunction(f)
OutputSum(tx) == Total([i \in DOMAIN Outputs[tx] |-> Outputs[tx][i].value])

-----------------------------------------------------------------------------
(* The rules of consensus a block must meet (crate oregon-consensus). *)

is_coinbase_form(tx) == Inputs[tx] = <<NullPoint>>

validate_normal_transaction_skeleton(tx) ==
    /\ tx \notin TooLarge
    /\ Inputs[tx] # << >>
    /\ Outputs[tx] # << >>
    /\ NullPoint \notin TxInputs(tx)

validate_non_genesis_block_skeleton(block) ==
    /\ block # << >>
    /\ block[1] \notin TooLarge
    /\ block \notin BadRoot
    /\ is_coinbase_form(block[1])
    /\ \A i \in 2 .. Len(block) : validate_normal_transaction_skeleton(block[i])

block_subsidy(height) ==
    LET era == (height - 1) \div HALVING_INTERVAL
    IN  IF era >= 64 THEN 0 ELSE INITIAL_SUBSIDY \div 2^era

FounderPaid(tx, height) ==
    height = 1 => /\ Outputs[tx] # << >>
                  /\ Outputs[tx][1].value = FOUNDER_ALLOCATION
                  /\ Outputs[tx][1].founder

validate_coinbase(tx, height, fees) ==
    /\ is_coinbase_form(tx)
    /\ Witness[tx] = height
    /\ FounderPaid(tx, height)
    /\ LET founder == IF height = 1 THEN Outputs[tx][1].value ELSE 0
       IN  OutputSum(tx) - founder <= block_subsidy(height) + fees

-----------------------------------------------------------------------------
(* Transactions and blocks (UtxoState). *)

is_spendable_at(e, height) ==
    e.is_coinbase => height >= e.creation_height + COINBASE_MATURITY

\* The entries of a transaction's outputs.
Created(tx, height, coinbase) ==
    [o \in OutPoints(tx) |->
        [value |-> Outputs[tx][o[2]].value, founder |-> Outputs[tx][o[2]].founder,
         creation_height |-> height, is_coinbase |-> coinbase]]

InputSum(es, tx) == Total([i \in DOMAIN Inputs[tx] |-> es[Inputs[tx][i]].value])

\* Mutant: an input listed twice is counted twice.
CountedTwice(es, tx, height) ==
    /\ TxInputs(tx) \subseteq DOMAIN es
    /\ \A i \in DOMAIN Inputs[tx] :
          is_spendable_at(es[Inputs[tx][i]], height) /\ <<tx, i>> \notin Unverified
    /\ OutputSum(tx) <= InputSum(es, tx)
    /\ OutPoints(tx) \cap DOMAIN es = {}

\* apply_normal_transaction succeeds.
Applies(es, tx, height) ==
    /\ IsInjective(Inputs[tx])
    /\ TxInputs(tx) \subseteq DOMAIN es
    /\ \A i \in DOMAIN Inputs[tx] :
          is_spendable_at(es[Inputs[tx][i]], height) /\ <<tx, i>> \notin Unverified
    /\ OutputSum(tx) <= InputSum(es, tx)
    /\ OutPoints(tx) \cap DOMAIN es = {}

apply_normal_transaction(es, tx, height) ==
    Restrict(es, DOMAIN es \ TxInputs(tx)) @@ Created(tx, height, FALSE)

\* An input whose producer comes later in the block is refused.
InOrder(es, block, i) ==
    \A o \in TxInputs(block[i]) :
        o \notin DOMAIN es => \A j \in i + 1 .. Len(block) : block[j] # o[1]

\* The loop over the transactions after the coinbase: the copied entries, the
\* fees so far and whether every transaction was accepted.
ApplyAll(es, block, height) ==
    LET Step(s, i) ==
            IF s.ok /\ InOrder(s.es, block, i) /\ Applies(s.es, block[i], height)
            THEN [es |-> apply_normal_transaction(s.es, block[i], height),
                  fees |-> s.fees + InputSum(s.es, block[i]) - OutputSum(block[i]),
                  ok |-> TRUE]
            ELSE [s EXCEPT !.ok = FALSE]
    IN  FoldLeft(Step,
                 [es |-> es, fees |-> 0,
                  ok |-> /\ validate_non_genesis_block_skeleton(block)
                         /\ IsInjective(Tail(block))],
                 [k \in 1 .. Len(block) - 1 |-> k + 1])

\* BlockUndo: what the block removed, with the entries, and what it added.
UndoOf(before, after) ==
    [spent |-> Restrict(before, DOMAIN before \ DOMAIN after),
     created |-> DOMAIN after \ DOMAIN before]

Connected(es, after, ok) == [ok |-> ok, es |-> after, undo |-> UndoOf(es, after)]

\* The coinbase comes last, with the fees of the others.
WithCoinbase(es, s, coinbase, height) ==
    IF /\ s.ok
       /\ s.fees <= MAX_SUPPLY
       /\ validate_coinbase(coinbase, height, s.fees)
       /\ OutPoints(coinbase) \cap DOMAIN s.es = {}
    THEN Connected(es, s.es @@ Created(coinbase, height, TRUE), TRUE)
    ELSE Connected(es, es, FALSE)

connect_block(es, block, height) ==
    WithCoinbase(es, ApplyAll(es, block, height), block[1], height)

\* disconnect_block does not report UndoMismatch.
CanDisconnect(es, undo) ==
    /\ undo.created \subseteq DOMAIN es
    /\ DOMAIN undo.spent \cap undo.created = {}
    /\ DOMAIN undo.spent \cap DOMAIN es = {}

disconnect_block(es, undo) ==
    undo.spent @@ Restrict(es, DOMAIN es \ undo.created)

-----------------------------------------------------------------------------
(* What a transition writes to the store: outpoint -> Option<UtxoEntry>,   *)
(* the set of its value.                                                   *)

Deleted(S) == [o \in S |-> {}]
Put(es) == [o \in DOMAIN es |-> {es[o]}]

record_disconnect_delta(delta, undo) ==
    Put(undo.spent) @@ Deleted(undo.created) @@ delta

record_connect_delta(delta, es, undo) ==
    Put(Restrict(es, undo.created)) @@ Deleted(DOMAIN undo.spent) @@ delta

apply_utxo_delta(st, delta) ==
    LET written == delta @@ Put(st)
    IN  [o \in {p \in DOMAIN written : written[p] # {}} |->
            CHOOSE e \in written[o] : TRUE]

-----------------------------------------------------------------------------
(* The transitions of the active chain. *)

\* Mutant: the block above the fork is not undone.
KeepFirst(n) ==
    LET Step(s, i) ==
            LET undo == chain[i].undo
            IN  [ok |-> s.ok /\ CanDisconnect(s.es, undo),
                 es |-> disconnect_block(s.es, undo),
                 delta |-> record_disconnect_delta(s.delta, undo),
                 chain |-> s.chain]
    IN  FoldLeft(Step,
                 [ok |-> TRUE, es |-> entries, delta |-> << >>,
                  chain |-> SubSeq(chain, 1, Len(chain) - n)],
                 [k \in 1 .. n - 1 |-> Len(chain) + 1 - k])

\* The staged state after n blocks from the tip were disconnected.
Disconnect(n) ==
    LET Step(s, i) ==
            LET undo == chain[i].undo
            IN  [ok |-> s.ok /\ CanDisconnect(s.es, undo),
                 es |-> disconnect_block(s.es, undo),
                 delta |-> record_disconnect_delta(s.delta, undo),
                 chain |-> Front(s.chain)]
    IN  FoldLeft(Step,
                 [ok |-> TRUE, es |-> entries, delta |-> << >>, chain |-> chain],
                 [k \in 1 .. n |-> Len(chain) + 1 - k])

\* The staged state after the blocks of a branch were connected to s.
Connect(s, branch) ==
    LET Staged(t, block, r) ==
            [ok |-> r.ok,
             es |-> r.es,
             delta |-> record_connect_delta(t.delta, r.es, r.undo),
             chain |-> Append(t.chain, [block |-> block, undo |-> r.undo])]
        Step(t, block) ==
            IF t.ok THEN Staged(t, block, connect_block(t.es, block, Len(t.chain) + 1))
            ELSE t
    IN  FoldLeft(Step, s, branch)

Commit(s) ==
    /\ s.ok
    /\ chain' = s.chain
    /\ entries' = s.es
    /\ store' = apply_utxo_delta(store, s.delta)

\* A block that extends the tip; one that does not connect changes nothing.
extend_active(block) ==
    /\ Len(chain) < MAX_HEIGHT
    /\ Commit(Connect(Disconnect(0), <<block>>))

\* The last n blocks give way to a branch.
apply_reorg_plan(n, branch) ==
    /\ Len(chain) - n + Len(branch) <= MAX_HEIGHT
    /\ Commit(Connect(Disconnect(n), branch))

Init == chain = << >> /\ entries = NoEntries /\ store = NoEntries

Extend == \E block \in Block : extend_active(block)
Reorganize ==
    \E n \in 1 .. MAX_REORG \cap 1 .. Len(chain) :
        \E branch \in BoundedSeq(Block, MAX_BRANCH) :
            branch # << >> /\ apply_reorg_plan(n, branch)

Next == Extend \/ Reorganize

-----------------------------------------------------------------------------
(* Correctness. *)

\* The entries after the blocks of c, connected one by one to the empty ledger.
Replay(c) ==
    LET Step(es, i) == connect_block(es, c[i].block, i).es
    IN  FoldLeft(Step, NoEntries, [i \in DOMAIN c |-> i])

\* The entries depend on the active blocks alone, however many branches were
\* connected and removed before, and the batch of a reorganization leaves the same
\* entries in the store: a transaction of both branches is written with its new
\* height (connect_block, disconnect_block, record_disconnect_delta,
\* record_connect_delta, apply_utxo_delta).
LedgerIsReplay == entries = Replay(chain) /\ store = entries

Issued(height) ==
    (IF height = 0 THEN 0 ELSE FOUNDER_ALLOCATION)
        + Total([h \in 1 .. height |-> block_subsidy(h)])

\* The unspent outputs never hold more than the founder's allocation and the
\* subsidies of the active blocks (apply_normal_transaction, validate_coinbase).
SupplyBound ==
    Total([o \in DOMAIN entries |-> entries[o].value]) <= Issued(Len(chain))

=============================================================================
