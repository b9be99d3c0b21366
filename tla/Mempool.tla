------------------------------ MODULE Mempool ------------------------------
(***************************************************************************)
(* The pool of unconfirmed transactions (crate oregon-mempool) above the   *)
(* ledger.  A transaction is admitted after it and its unconfirmed         *)
(* ancestors were replayed on the chain's outputs; a full pool evicts      *)
(* transactions with a lower fee rate.  Each change of the active chain    *)
(* rebuilds the pool (reconcile), in the same command of the node as the   *)
(* change itself (oregon-node, orchestration.rs).                          *)
(***************************************************************************)
EXTENDS Ledger

CONSTANTS
    Bytes,            \* txid -> encoded_bytes
    max_entries,
    max_total_bytes,
    max_ancestors,
    max_descendants

ASSUME ConfigAssumption == max_entries # 0 /\ max_total_bytes # 0

VARIABLE pool         \* the Mempool

mempool_vars == <<vars, pool>>

\* ChainBase: the tip, which stands for its whole chain, and its height.
BaseOf(c) == [i \in DOMAIN c |-> c[i].block]
SpendHeight(base) == Len(base) + 1

NewPool(base) ==
    [base |-> base, entries |-> << >>, spenders |-> << >>, total_bytes |-> 0]

-----------------------------------------------------------------------------
(* Dependencies (graph.rs). *)

\* What is reached from S along links, S included.
Reached(S, links) ==
    LET reach[n \in Nat] ==
            IF n = 0 THEN S
            ELSE reach[n - 1] \cup UNION {links[t] : t \in reach[n - 1]}
    IN  reach[Cardinality(DOMAIN links)]

ancestor_closure(es, direct) == Reached(direct, [t \in DOMAIN es |-> es[t].parents])
descendant_closure(es, root) ==
    Reached(es[root].children, [t \in DOMAIN es |-> es[t].children])

\* Both directions of every link are recorded.
LinksAgree(es) ==
    /\ \A t \in DOMAIN es : es[t].parents \cup es[t].children \subseteq DOMAIN es
    /\ \A t, u \in DOMAIN es : t \in es[u].parents <=> u \in es[t].children

\* The transactions, each after its parents, the smallest txid first.
topological_order(es) ==
    LET Step(done, i) ==
            LET ready == {t \in DOMAIN es \ ToSet(done) : es[t].parents \subseteq ToSet(done)}
            IN  IF ready = {} THEN done ELSE Append(done, Min(ready))
    IN  FoldLeft(Step, << >>, [i \in 1 .. Cardinality(DOMAIN es) |-> i])

\* topological_order succeeds: no InvariantViolation, no DependencyCycle.
GraphOk(es) == LinksAgree(es) /\ Len(topological_order(es)) = Cardinality(DOMAIN es)

-----------------------------------------------------------------------------
(* Admission (admission.rs, capacity.rs). *)

Refused(error) == [error |-> error]

\* The inputs that are not on the chain come from transactions of the pool.
Unconfirmed(tx, utxos) == TxInputs(tx) \ DOMAIN utxos
DirectParents(tx, utxos) == {o[1] : o \in Unconfirmed(tx, utxos)}

\* The chain's outputs the replay may touch.
NarrowEntries(utxos, replayed) ==
    Restrict(utxos, {o \in DOMAIN utxos :
        o[1] \in replayed \/ \E t \in replayed : o \in TxInputs(t)})

\* Replays the transactions of order on utxos: their fees, as far as they apply.
Replayed(order, utxos, height) ==
    LET Step(s, t) ==
            IF s.ok /\ Applies(s.es, t, height)
            THEN [ok |-> TRUE,
                  es |-> apply_normal_transaction(s.es, t, height),
                  fee |-> (t :> InputSum(s.es, t) - OutputSum(t)) @@ s.fee]
            ELSE [s EXCEPT !.ok = FALSE]
    IN  FoldLeft(Step, [ok |-> TRUE, es |-> utxos, fee |-> << >>], order)

DescendantsFit(p, ancestors) ==
    \A a \in ancestors :
        Cardinality(descendant_closure(p.entries, a)) + 1 <= max_descendants

\* The candidate, if the replay r of it and its ancestors succeeded.
Candidate(p, tx, parents, ancestors, r) ==
    IF ~ r.ok THEN Refused("Utxo")
    ELSE IF \E a \in ancestors : r.fee[a] # p.entries[a].fee
         THEN Refused("InvariantViolation")
    ELSE [error |-> "none", txid |-> tx, fee |-> r.fee[tx], parents |-> parents,
          ancestors |-> ancestors]

\* The part of prepare_admission that follows the ancestors' closure.
WithAncestors(p, tx, base, utxos, ancestors) ==
    IF Cardinality(ancestors) > max_ancestors THEN Refused("TooManyAncestors")
    ELSE IF ~ DescendantsFit(p, ancestors) THEN Refused("TooManyDescendants")
    ELSE IF ~ GraphOk(p.entries) THEN Refused("InvariantViolation")
    ELSE Candidate(p, tx, DirectParents(tx, utxos), ancestors,
            Replayed(
                Append(SelectSeq(topological_order(p.entries), LAMBDA t : t \in ancestors), tx),
                NarrowEntries(utxos, ancestors \cup {tx}), SpendHeight(base)))

prepare_admission(p, tx, base, utxos) ==
    IF base # p.base THEN Refused("StaleChainContext")
    ELSE IF ~ validate_normal_transaction_skeleton(tx) THEN Refused("Structural")
    ELSE IF tx \in DOMAIN p.entries THEN Refused("AlreadyKnown")
    ELSE IF TxInputs(tx) \cap DOMAIN p.spenders # {} THEN Refused("Conflict")
    ELSE IF ~ DirectParents(tx, utxos) \subseteq DOMAIN p.entries
         THEN Refused("MissingDependency")
    ELSE IF \E o \in Unconfirmed(tx, utxos) : o \notin OutPoints(o[1])
         THEN Refused("InvalidParentOutput")
    ELSE WithAncestors(p, tx, base, utxos,
                       ancestor_closure(p.entries, DirectParents(tx, utxos)))

\* eviction_cmp: the lower fee rate, then the lower fee, then the lower txid.
Rank(t, fee) == [fee |-> fee, bytes |-> Bytes[t], txid |-> t]
EvictedBefore(a, b) ==
    LET left == a.fee * b.bytes
        right == b.fee * a.bytes
    IN  \/ left < right
        \/ left = right /\ a.fee < b.fee
        \/ left = right /\ a.fee = b.fee /\ a.txid < b.txid

BytesOf(S) == MapThenSumSet(LAMBDA t : Bytes[t], S)

Fits(p, c, remove) ==
    /\ Cardinality(DOMAIN p.entries) + 1 - Cardinality(remove) <= max_entries
    /\ p.total_bytes + Bytes[c.txid] - BytesOf(remove) <= max_total_bytes

\* Mutant: descendants of an evicted transaction stay.
EvictRootOnly(p, c, remove, root) == remove \cup {root}

\* The next victim goes with its descendants, which could not be mined without it.
EvictWithDescendants(p, c, remove, root) ==
    remove \cup {root} \cup descendant_closure(p.entries, root)

Worse(p, c, remove) ==
    {t \in DOMAIN p.entries \ remove :
        EvictedBefore(Rank(t, p.entries[t].fee), Rank(c.txid, c.fee))}

\* plan_capacity: the loop evicts the worst transaction and its descendants until
\* the candidate c fits; it ends refused when none is worse than the candidate or
\* an ancestor of the candidate would go.
plan_capacity(p, c) ==
    LET Step(s, i) ==
            LET worse == Worse(p, c, s.remove)
                root == CHOOSE t \in worse : \A u \in worse \ {t} :
                            EvictedBefore(Rank(t, p.entries[t].fee),
                                          Rank(u, p.entries[u].fee))
            IN  IF s.rejected \/ Fits(p, c, s.remove) THEN s
                ELSE IF worse = {} THEN [s EXCEPT !.rejected = TRUE]
                ELSE IF ({root} \cup descendant_closure(p.entries, root))
                            \cap c.ancestors # {} THEN [s EXCEPT !.rejected = TRUE]
                ELSE [s EXCEPT !.remove = EvictWithDescendants(p, c, s.remove, root)]
    IN  FoldLeft(Step, [remove |-> {}, rejected |-> FALSE],
                 [i \in 1 .. Cardinality(DOMAIN p.entries) + 1 |-> i])

\* preflight_admission_plan finds nothing wrong with the plan.
PreflightOk(p, c, remove) ==
    /\ GraphOk(p.entries)
    /\ remove \cap c.ancestors = {}
    /\ c.parents \subseteq c.ancestors
    /\ c.ancestors \subseteq DOMAIN p.entries
    /\ TxInputs(c.txid) \cap DOMAIN p.spenders = {}
    /\ \A t \in remove :
          /\ \A o \in TxInputs(t) : o \in DOMAIN p.spenders /\ p.spenders[o] = t
          /\ p.entries[t].children \subseteq remove
    /\ Fits(p, c, remove)

commit_admission(p, c, remove) ==
    [p EXCEPT
        !.entries = (c.txid :> [fee |-> c.fee, parents |-> c.parents, children |-> {}]) @@
            [t \in DOMAIN p.entries \ remove |->
                [p.entries[t] EXCEPT
                    !.children = (@ \ remove) \cup IF t \in c.parents THEN {c.txid} ELSE {}]],
        !.spenders = [o \in TxInputs(c.txid) |-> c.txid] @@
            Restrict(p.spenders, {o \in DOMAIN p.spenders : p.spenders[o] \notin remove}),
        !.total_bytes = p.total_bytes + Bytes[c.txid] - BytesOf(remove)]

\* Mempool::admit: the error and the pool after it.
Outcome(p, error) == [error |-> error, pool |-> p]

Planned(p, c, plan) ==
    IF plan.rejected THEN Outcome(p, "CapacityRejected")
    ELSE IF ~ PreflightOk(p, c, plan.remove) THEN Outcome(p, "InvariantViolation")
    ELSE Outcome(commit_admission(p, c, plan.remove), "none")

Prepared(p, c) ==
    IF c.error # "none" THEN Outcome(p, c.error) ELSE Planned(p, c, plan_capacity(p, c))

admit(p, tx, base, utxos) == Prepared(p, prepare_admission(p, tx, base, utxos))

-----------------------------------------------------------------------------
(* Reconciliation with the active chain (reconcile.rs). *)

FilterableErrors ==
    {"MissingDependency", "InvalidParentOutput", "TooManyAncestors", "TooManyDescendants",
     "CapacityRejected", "Structural", "Utxo"}

Offered(r) ==
    [failed |-> r.error \notin FilterableErrors \cup {"none"}, pool |-> r.pool]

rebuild_against_chain(source, base, utxos) ==
    LET Step(s, tx) ==
            IF s.failed THEN s ELSE Offered(admit(s.pool, tx, base, utxos))
    IN  FoldLeft(Step, [failed |-> FALSE, pool |-> NewPool(base)], source)

\* The transactions of the pool that spend an input of the block and are not in it,
\* with their descendants.
Excluded(p, block) ==
    LET spent == UNION {TxInputs(block[i]) : i \in DOMAIN block}
        conflicting == {p.spenders[o] : o \in spent \cap DOMAIN p.spenders} \ ToSet(block)
    IN  conflicting \cup UNION {descendant_closure(p.entries, t) : t \in conflicting}

\* Mutant: the children of confirmed transactions are not offered again.
DropChildren(p, block, base, utxos) ==
    rebuild_against_chain(
        SelectSeq(topological_order(p.entries),
                  LAMBDA t : /\ t \notin ToSet(block) \cup Excluded(p, block)
                             /\ p.entries[t].parents \cap ToSet(block) = {}),
        base, utxos)

\* The rest of the pool is admitted again, parents first, on the new tip.
reconcile_active_block(p, block, base, utxos) ==
    rebuild_against_chain(
        SelectSeq(topological_order(p.entries),
                  LAMBDA t : t \notin ToSet(block) \cup Excluded(p, block)),
        base, utxos)

\* Mutant: a reorganization only moves the base.
MoveBase(p, base, utxos) == [failed |-> FALSE, pool |-> [p EXCEPT !.base = base]]

\* After a reorganization the whole pool is admitted again.
reconcile_reorg(p, base, utxos) ==
    rebuild_against_chain(topological_order(p.entries), base, utxos)

\* recover_reconciliation_failure: an error leaves an empty pool.
Recovered(r, base) == IF r.failed THEN NewPool(base) ELSE r.pool

-----------------------------------------------------------------------------
(* The node's commands. *)

MempoolInit == Init /\ pool = NewPool(<< >>)

Admitted(r) == r.error = "none" /\ pool' = r.pool

Admit ==
    /\ \E tx \in Tx : Admitted(admit(pool, tx, BaseOf(chain), entries))
    /\ UNCHANGED vars

ExtendAndReconcile ==
    /\ Extend
    /\ pool' = Recovered(
           reconcile_active_block(pool, Last(chain').block, BaseOf(chain'), entries'),
           BaseOf(chain'))

ReorganizeAndReconcile ==
    /\ Reorganize
    /\ pool' = Recovered(reconcile_reorg(pool, BaseOf(chain'), entries'), BaseOf(chain'))

MempoolNext == Admit \/ ExtendAndReconcile \/ ReorganizeAndReconcile

MempoolSpec == MempoolInit /\ [][MempoolNext]_mempool_vars

-----------------------------------------------------------------------------
(* Correctness. *)

\* Whatever blocks came and went, the whole pool can be mined on the tip in its
\* order, with the fees it recorded.
PoolIsMineable ==
    LET r == Replayed(topological_order(pool.entries), entries, Len(chain) + 1)
    IN  /\ pool.base = BaseOf(chain)
        /\ r.ok
        /\ \A t \in DOMAIN pool.entries : r.fee[t] = pool.entries[t].fee

\* The errors that stand for a broken pool (InvariantViolation, DependencyCycle)
\* never happen: the checks of prepare_admission and preflight_admission_plan pass.
NoInternalError ==
    \A tx \in Tx : admit(pool, tx, BaseOf(chain), entries).error # "InvariantViolation"

\* A block removes from the pool its own transactions and those it conflicts with,
\* and nothing else: every other transaction passes the rebuild
\* (reconcile_active_block).
BlockRemovesNothingElse ==
    [][Len(chain') = Len(chain) + 1 /\ chain = Front(chain') =>
          DOMAIN pool'.entries = DOMAIN pool.entries \
              (ToSet(Last(chain').block) \cup Excluded(pool, Last(chain').block))
      ]_mempool_vars

=============================================================================
