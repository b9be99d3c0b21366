----------------------------- MODULE ChainState -----------------------------
(***************************************************************************)
(* The persistent chain state of a node (crate oregon-chainstate) and the  *)
(* part of the store below it that it relies on (crate oregon-storage).    *)
(*                                                                         *)
(* The database is one record, written by atomic batches.  A batch is      *)
(* committed either durably (synced before the call returns: every accept) *)
(* or as maintenance (not synced: pruning), so a crash may lose the last   *)
(* maintenance batches but never a synced one.  Beside it live the values  *)
(* a session keeps in memory and the health of that session.               *)
(*                                                                         *)
(* Keys of the database are sets of blocks: the active_height column maps  *)
(* a height to a block of that height, so it is the set of mapped blocks;  *)
(* the UTXO column is the set of blocks whose effects it contains.         *)
(***************************************************************************)
EXTENDS BlockTree, Integers

CONSTANTS
    NoBlock,         \* an absent tip
    REORG_WINDOW,    \* deepest disconnect, and the active bodies retained
    MTP_SPAN,        \* headers read for the median time past
    KEY_EPOCH,       \* RandomX key rotation period, in blocks
    KEY_DELAY        \* blocks a new RandomX key lags behind its key block

ASSUME NoBlockAssumption == NoBlock \notin Block
ASSUME WindowAssumption == REORG_WINDOW \in Nat \ {0}
ASSUME HeaderSpanAssumption ==
    /\ MTP_SPAN \in Nat \ {0}
    /\ KEY_EPOCH \in Nat \ {0}
    /\ KEY_DELAY \in Nat \ {0}

VARIABLES
    disk,      \* what the running process reads from the database
    synced,    \* what the database holds after a crash that loses all it can
    mem,       \* ChainState.tip, .header_tip and .utxos
    session,   \* ChainState.session_health, or "Closed" without a ChainState
    acked      \* history: the last active tip reported to a caller

vars == <<disk, synced, mem, session, acked>>

-----------------------------------------------------------------------------
(* The database. *)

\* ValidationStatus of an index record; "Absent" when there is no record.
Validation == {"Absent", "HeaderValidated", "FullyValidated", "Invalid"}

\* A record that may be extended: present and not marked invalid.
Usable == {"HeaderValidated", "FullyValidated"}

Disk ==
    [ validation : [Block -> Validation],   \* block_index, status of the record
      retained   : SUBSET Block,            \* block_index, body_retained
      blocks     : SUBSET Block,            \* block bodies
      undo       : SUBSET Block,            \* undo data
      active     : SUBSET Block,            \* active_height
      utxos      : SUBSET Block,            \* utxo
      tip        : Block \cup {NoBlock},
      preferred  : Block \cup {NoBlock},    \* preferred header tip
      health     : {"None", "Healthy", "ReindexRequired"},
      cursor     : Nat ]                    \* prune cursor

EmptyDisk ==
    [ validation |-> [b \in Block |-> "Absent"],
      retained |-> {}, blocks |-> {}, undo |-> {}, active |-> {}, utxos |-> {},
      tip |-> NoBlock, preferred |-> NoBlock, health |-> "None", cursor |-> 0 ]

Memory ==
    [ tip : Block \cup {NoBlock}, header_tip : Block \cup {NoBlock},
      utxos : SUBSET Block ]

NoMemory == [tip |-> NoBlock, header_tip |-> NoBlock, utxos |-> {}]

\* put_index for every block of S, as far as the status is concerned.
put_index(validation, S, status) ==
    [b \in Block |-> IF b \in S THEN status ELSE validation[b]]

\* set_active_height for every block of S: a height has one entry.
set_active_height(active, S) ==
    {a \in active : \A b \in S : Height[a] # Height[b]} \cup S

\* delete_active_height for every height of first .. last.
delete_active_height(active, first, last) ==
    {a \in active : Height[a] < first \/ Height[a] > last}

\* commit_durable: the batch is on disk and synced when the call returns.
commit_durable(d) ==
    /\ disk' = d
    /\ synced' = d

\* commit_maintenance: the batch is written, not synced.
commit_maintenance(d) ==
    /\ disk' = d
    /\ UNCHANGED synced

\* Mutant: memory and the caller see the new state although the sync failed.
PublishOnError(d, m, health) ==
    \/ /\ commit_durable(d)
       /\ mem' = m
       /\ session' = health
       /\ acked' = m.tip
    \/ /\ disk' = d
       /\ session' = "StorageFaulted"
       /\ mem' = m
       /\ acked' = m.tip
       /\ UNCHANGED synced

\* A mutation ends in a durable commit and is published to memory and to the
\* caller only once that returned.  When the sync fails after the write the
\* caller sees a storage error, the session is faulted and the batch may yet
\* survive.
Durably(d, m, health) ==
    \/ /\ commit_durable(d)
       /\ mem' = m
       /\ session' = health
       /\ acked' = m.tip
    \/ /\ disk' = d
       /\ session' = "StorageFaulted"
       /\ UNCHANGED <<synced, mem, acked>>

-----------------------------------------------------------------------------
(* Branch walks. *)

\* key_block_height (crate oregon-pow).
key_block_height(h) ==
    IF h < KEY_EPOCH + KEY_DELAY
    THEN 0
    ELSE ((h - KEY_DELAY) \div KEY_EPOCH) * KEY_EPOCH

\* BranchView walks from p down to height low: checked_index reads every block
\* on the way and its parent, and refuses a missing or an invalid record.
BranchUsable(d, p, low) ==
    \A a \in Ancestors[p] : Height[a] >= low - 1 => d.validation[a] \in Usable

\* validate_candidate_header of a header that is not in the index.
validate_candidate_header(d, b) ==
    /\ b # Anchor
    /\ d.validation[Parent[b]] \in Usable
    /\ BranchUsable(d, Parent[b], Height[Parent[b]] - (MTP_SPAN - 1))
    /\ BranchUsable(d, Parent[b], key_block_height(Height[b]))

\* discover_fork stops at f: the first active block on the way down from b.
IsFork(d, b, f) ==
    /\ f \in Ancestors[b] \cap d.active
    /\ \A a \in Ancestors[b] \cap d.active : Height[a] <= Height[f]

\* The blocks discover_fork collects above the fork.
Branch(b, f) == {a \in Ancestors[b] : Height[a] > Height[f]}

\* discover_fork from b, whose own record is not invalid, ends at f.
discover_fork(d, b, f) ==
    /\ IsFork(d, b, f)
    /\ \A a \in (Branch(b, f) \cup {f}) \ {b} : d.validation[a] \in Usable

-----------------------------------------------------------------------------
(* Opening a database. *)

AnchorDisk ==
    [ EmptyDisk EXCEPT
        !.validation = put_index(@, {Anchor}, "FullyValidated"),
        !.active = {Anchor}, !.tip = Anchor, !.preferred = Anchor,
        !.health = "Healthy" ]

\* bootstrap: the database has no active tip and no other metadata.
bootstrap ==
    /\ session = "Closed"
    /\ disk.tip = NoBlock
    /\ disk.health = "None" /\ disk.preferred = NoBlock
    /\ Anchor \notin disk.active /\ disk.validation[Anchor] = "Absent"
    /\ \/ /\ commit_durable(AnchorDisk)
          /\ mem' = [tip |-> Anchor, header_tip |-> Anchor, utxos |-> {}]
          /\ session' = "Healthy"
          /\ acked' = Anchor
       \/ /\ disk' = AnchorDisk
          /\ UNCHANGED <<synced, mem, session, acked>>

\* The highest prune cursor reopen accepts for a tip at height h.
maximum_safe_prune_cursor(h) ==
    IF h >= REORG_WINDOW THEN h - REORG_WINDOW ELSE 0

\* load_preferred_header_tip.
load_preferred_header_tip(d) ==
    /\ d.preferred \in Block
    /\ BranchUsable(d, d.preferred, 0)

\* What reopen demands of the active block at one height.
ActiveRecordOk(d, a) ==
    /\ d.validation[a] = "FullyValidated"
    /\ a = Anchor => a \notin d.retained
    /\ a # Anchor =>
         /\ Parent[a] \in d.active
         /\ Height[a] > maximum_safe_prune_cursor(Height[d.tip]) =>
              a \in d.retained
         /\ a \in d.retained => a \in d.blocks /\ a \in d.undo

\* The health record lets the node open.
HealthyRecord(d) == d.health = "Healthy"

\* Every check of reopen on a database with an active tip.
ReopenOk(d) ==
    /\ HealthyRecord(d)
    /\ d.cursor <= maximum_safe_prune_cursor(Height[d.tip])
    /\ \A h \in 0 .. Height[d.tip] :
         \E a \in d.active : Height[a] = h /\ ActiveRecordOk(d, a)
    /\ Anchor \in d.active
    /\ d.tip \in d.active
    /\ load_preferred_header_tip(d)

\* reopen.  Opening replays the write-ahead log into synced table files.
reopen ==
    /\ session = "Closed"
    /\ disk.tip # NoBlock
    /\ ReopenOk(disk)
    /\ mem' = [tip |-> disk.tip, header_tip |-> disk.preferred,
               utxos |-> disk.utxos]
    /\ session' = "Healthy"
    /\ acked' = disk.tip
    /\ synced' = disk
    /\ UNCHANGED disk

-----------------------------------------------------------------------------
(* Accepting headers and blocks. *)

\* Mutant: the longer chain wins.
Longer(b) == Height[b] > Height[mem.tip]

\* The candidate has more work than the active tip.
Heavier(b) == CumWork[b] > CumWork[mem.tip]

\* The candidate becomes the preferred header tip.
becomes_preferred(b) == CumWork[b] > CumWork[mem.header_tip]

\* The batch of a new header.
HeaderBatch(b) ==
    [disk EXCEPT
        !.validation = put_index(@, {b}, "HeaderValidated"),
        !.preferred = IF becomes_preferred(b) THEN b ELSE @]

\* accept_header of a header that is not in the index; a known one changes
\* nothing.
accept_header(b) ==
    /\ session = "Healthy"
    /\ disk.validation[b] = "Absent"
    /\ validate_candidate_header(disk, b)
    /\ Durably(HeaderBatch(b),
               [mem EXCEPT
                   !.header_tip = IF becomes_preferred(b) THEN b ELSE @],
               "Healthy")

\* Mutant: a known header has no use for its body.
OnlyUnknown(b) ==
    disk.validation[b] = "Absent" /\ validate_candidate_header(disk, b)

\* accept_block goes on to a transition: the body is new and its header valid.
BodyWanted(b) ==
    \/ disk.validation[b] = "HeaderValidated" /\ b \notin disk.retained
    \/ disk.validation[b] = "Absent" /\ validate_candidate_header(disk, b)

\* The block joins the active chain together with the branch it completes:
\* bodies, records, undo data, heights, UTXOs and the tip in one batch.
ActivateBatch(b, branch, old, kept) ==
    [disk EXCEPT
        !.validation = put_index(@, branch, "FullyValidated"),
        !.retained = @ \cup branch,
        !.blocks = @ \cup branch,
        !.undo = @ \cup branch,
        !.active = set_active_height(kept, branch),
        !.utxos = (@ \ old) \cup branch,
        !.tip = b,
        !.preferred = IF becomes_preferred(b) THEN b ELSE @]

\* The memory of the session once that batch is durable.
ActivateMemory(b, branch, old) ==
    [ tip |-> b,
      header_tip |-> IF becomes_preferred(b) THEN b ELSE mem.header_tip,
      utxos |-> (mem.utxos \ old) \cup branch ]

\* extend_active: the block builds on the active tip.  A body that does not
\* connect is refused without a trace.
extend_active(b) ==
    /\ session = "Healthy"
    /\ BodyWanted(b)
    /\ Parent[b] = mem.tip
    /\ b \in Connects
    /\ Durably(ActivateBatch(b, {b}, {}, disk.active),
               ActivateMemory(b, {b}, {}), "Healthy")

\* The batch of a body beside the active chain.
SideChainBatch(b) ==
    [disk EXCEPT
        !.validation = put_index(@, {b}, "HeaderValidated"),
        !.retained = @ \cup {b},
        !.blocks = @ \cup {b}]

\* accept_block of a body beside the active chain that is not heavier.
store_side_chain(b) ==
    /\ session = "Healthy"
    /\ BodyWanted(b)
    /\ Parent[b] # mem.tip
    /\ ~Heavier(b)
    /\ Durably(SideChainBatch(b), mem, "Healthy")

reorg_depth_allowed(depth) == depth <= REORG_WINDOW

\* reorganize is entered for b and its branch leaves the active chain at f.
HeavierBranch(b, f) ==
    /\ session = "Healthy"
    /\ BodyWanted(b)
    /\ Parent[b] # mem.tip
    /\ Heavier(b)
    /\ discover_fork(disk, b, f)
    /\ Height[f] <= Height[mem.tip]

ReindexBatch == [disk EXCEPT !.health = "ReindexRequired"]

\* reorganize beyond the window: the node records that it needs a reindex.
refuse_deep_reorg(b, f) ==
    /\ HeavierBranch(b, f)
    /\ ~reorg_depth_allowed(Height[mem.tip] - Height[f])
    /\ Durably(ReindexBatch, mem, "ReindexRequired")

\* The active blocks above the fork, which load_reorg_plan takes off.
OldActive(f) ==
    {a \in disk.active : Height[f] < Height[a] /\ Height[a] <= Height[mem.tip]}

\* load_reorg_plan finds the undo data of the active blocks to disconnect and
\* the bodies of the branch, b excepted, which the caller has in hand.
load_reorg_plan(b, f) ==
    /\ \A h \in (Height[f] + 1) .. Height[mem.tip] :
         \E a \in disk.active : Height[a] = h
    /\ OldActive(f) \subseteq disk.undo
    /\ Branch(b, f) \ {b} \subseteq disk.retained \cap disk.blocks

\* reorganize up to the point where the bodies of the branch are connected.
ReorgPlanned(b, f) ==
    /\ HeavierBranch(b, f)
    /\ reorg_depth_allowed(Height[mem.tip] - Height[f])
    /\ load_reorg_plan(b, f)
    /\ OldActive(f) \subseteq mem.utxos

\* The first body of the branch that does not connect, and what follows it.
FailedPart(b, f) ==
    {a \in Branch(b, f) : \E c \in Branch(b, f) \ Connects :
                            Height[c] <= Height[a]}

\* apply_reorg_plan when every body of the branch connects.
apply_reorg_plan(b, f) ==
    /\ ReorgPlanned(b, f)
    /\ FailedPart(b, f) = {}
    /\ Durably(ActivateBatch(b, Branch(b, f), OldActive(f),
                   delete_active_height(disk.active, Height[f] + 1,
                                        Height[mem.tip])),
               ActivateMemory(b, Branch(b, f), OldActive(f)), "Healthy")

\* The batch of a failed branch: the block in hand is not stored.
InvalidBatch(b, f) ==
    [disk EXCEPT
        !.validation = put_index(@, FailedPart(b, f), "Invalid"),
        !.retained = @ \ {b}]

\* apply_reorg_plan when a body does not connect: the failed part of the
\* branch is marked invalid, the active chain stays.
fail_reorg_plan(b, f) ==
    /\ ReorgPlanned(b, f)
    /\ FailedPart(b, f) # {}
    /\ Durably(InvalidBatch(b, f), mem, "Healthy")

-----------------------------------------------------------------------------
(* Pruning. *)

\* Active blocks from this height on keep body and undo data.
retained_active_floor(h) ==
    IF h >= REORG_WINDOW - 1 THEN h - (REORG_WINDOW - 1) ELSE 0

\* Mutant: the cursor is the floor.
CursorAtFloor(h) == retained_active_floor(h)

\* The cursor prune records.
prune_cursor_for_tip(h) == IF h >= REORG_WINDOW THEN h - REORG_WINDOW ELSE 0

\* Mutant: off by one, a branch at exactly the window is given up.
RetainShallower(b, f, h) ==
    /\ Height[b] >= retained_active_floor(h)
    /\ Height[f] <= h
    /\ h - Height[f] < REORG_WINDOW

\* should_retain_body: f is the active block where b's branch starts.
should_retain_body(b, f, h) ==
    /\ Height[b] >= retained_active_floor(h)
    /\ Height[f] <= h
    /\ h - Height[f] <= REORG_WINDOW

\* Undo data is kept for the active blocks of the window only.
should_retain_undo(d, b, h) ==
    /\ b \in d.active
    /\ Height[b] <= h
    /\ Height[b] >= retained_active_floor(h)

\* plan_prune walks to the fork of a retained body it has not already given up.
ForkNeeded(d, b, h) ==
    /\ d.validation[b] # "Invalid"
    /\ Height[b] >= retained_active_floor(h)
    /\ b \notin d.active

\* plan_prune returns a batch; otherwise it reports corruption.
PruneOk(d, h) ==
    \A b \in d.retained :
        /\ b \in d.active => d.validation[b] = "FullyValidated"
        /\ b \in d.blocks
        /\ ForkNeeded(d, b, h) => \E f \in d.active : discover_fork(d, b, f)
        /\ should_retain_undo(d, b, h) => b \in d.undo

RetainBody(d, b, h) ==
    /\ d.validation[b] # "Invalid"
    /\ \E f \in d.active : IsFork(d, b, f) /\ should_retain_body(b, f, h)

\* plan_prune: the database after the batch.
plan_prune(d, h) ==
    LET dropped == {b \in d.retained : ~RetainBody(d, b, h)}
    IN  [d EXCEPT
           !.retained = @ \ dropped,
           !.blocks = @ \ dropped,
           !.undo = {b \in @ : b \in d.retained => should_retain_undo(d, b, h)},
           !.cursor = prune_cursor_for_tip(h)]

\* ChainState::prune.  A failed maintenance write does not fault the session.
prune ==
    /\ session = "Healthy"
    /\ PruneOk(disk, Height[mem.tip])
    /\ commit_maintenance(plan_prune(disk, Height[mem.tip]))
    /\ UNCHANGED <<mem, session, acked>>

-----------------------------------------------------------------------------
(* Faults. *)

\* A header or block call meets a storage error before its batch is written.
storage_error ==
    /\ session = "Healthy"
    /\ session' = "StorageFaulted"
    /\ UNCHANGED <<disk, synced, mem, acked>>

\* The process ends, in an orderly way or not; with the machine it may take
\* the batches that were not synced.
Crash ==
    /\ disk' \in {disk, synced}
    /\ session' = "Closed"
    /\ mem' = NoMemory
    /\ UNCHANGED <<synced, acked>>

-----------------------------------------------------------------------------

Init ==
    /\ disk = EmptyDisk
    /\ synced = EmptyDisk
    /\ mem = NoMemory
    /\ session = "Closed"
    /\ acked = NoBlock

AcceptBlock(b) ==
    \/ extend_active(b)
    \/ store_side_chain(b)
    \/ \E f \in disk.active :
          \/ refuse_deep_reorg(b, f)
          \/ apply_reorg_plan(b, f)
          \/ fail_reorg_plan(b, f)

Next ==
    \/ bootstrap
    \/ reopen
    \/ \E b \in Block \ {Anchor} : accept_header(b) \/ AcceptBlock(b)
    \/ prune
    \/ storage_error
    \/ Crash

Spec == Init /\ [][Next]_vars

\* A delivery of b that is accepted: sync keeps offering a block it misses, and
\* the storage does not fail for ever.
Delivered(b) == AcceptBlock(b) /\ session' = "Healthy"

\* A faulted session is restarted, an opened node gets its blocks.
Fairness ==
    /\ SF_vars(bootstrap /\ session' = "Healthy")
    /\ SF_vars(reopen)
    /\ WF_vars(session = "StorageFaulted" /\ Crash)
    /\ \A b \in Block \ {Anchor} : SF_vars(Delivered(b))

FairSpec == Spec /\ Fairness

-----------------------------------------------------------------------------
(* Properties. *)

Opened(d) == d.tip # NoBlock

Stores == {disk, synced}

\* The state of the database, of the session and of what was acknowledged is
\* made of blocks, statuses and heights.
TypeOK ==
    /\ disk \in Disk
    /\ synced \in Disk
    /\ mem \in Memory
    /\ session \in {"Closed", "Healthy", "StorageFaulted", "ReindexRequired"}
    /\ acked \in Block \cup {NoBlock}

\* Whatever sequence of extensions, reorganizations, failed branches, prunes
\* and crashes came before, the active_height column holds exactly the branch
\* of the active tip, without a leftover of a chain that was replaced.
ActiveIsTipBranch ==
    \A d \in Stores : Opened(d) => d.active = Ancestors[d.tip]

\* The UTXO column and the UTXO set in memory hold exactly the effects of the
\* branch of the active tip, before and after a crash.
UtxosFollowTip ==
    /\ \A d \in Stores : Opened(d) => d.utxos = EffectsOf(d.tip)
    /\ session # "Closed" => mem.utxos = EffectsOf(mem.tip)

\* Only blocks whose whole branch connects are ever active or marked fully
\* validated, and no active block is marked invalid.
ActiveIsValid ==
    \A d \in Stores :
        /\ Opened(d) => \A a \in d.active : d.validation[a] = "FullyValidated"
        /\ \A b \in Block : d.validation[b] = "FullyValidated" => ValidChain(b)

\* A healthy session, the database and the last acknowledgement agree on the
\* active tip, even in the database as a crash would leave it.
TipIsDurable ==
    session = "Healthy" =>
        /\ mem.tip = acked
        /\ disk.tip = acked /\ synced.tip = acked
        /\ disk.preferred = mem.header_tip /\ synced.preferred = mem.header_tip

\* No stored body that is not marked invalid belongs to a heavier chain than
\* the active one: a heavier branch is never left lying in the store.
HeaviestStored ==
    \A d \in Stores : Opened(d) =>
        /\ \A b \in d.retained :
              d.validation[b] # "Invalid" => CumWork[b] <= CumWork[d.tip]
        /\ CumWork[d.tip] <= CumWork[d.preferred]

\* The index says a body is retained exactly when the body is in the store,
\* and undo data is only kept beside a body, so that prune finds all of it.
BodiesMatchIndex ==
    \A d \in Stores : d.blocks = d.retained /\ d.undo \subseteq d.retained

\* An acknowledged tip is never lost or replaced by a lighter one, whatever
\* crashes and failed writes lie between two acknowledgements.
AckedOnlyGetsHeavier ==
    [][ acked' # acked =>
          acked = NoBlock \/ CumWork[acked'] > CumWork[acked] ]_vars

\* Once a refused deep reorganization is durable the node never accepts, prunes
\* or opens again.
ReindexIsFinal ==
    [][ synced.health = "ReindexRequired" =>
          synced' = synced /\ session' # "Healthy" ]_vars

\* A verdict on a body is final: what was fully validated stays so and what
\* was found invalid is never used again.
VerdictsAreFinal ==
    [][ \A b \in Block :
          synced.validation[b] \in {"FullyValidated", "Invalid"} =>
             synced'.validation[b] = synced.validation[b] ]_vars

Abstract == INSTANCE AcceptedChain
    WITH accepted <- acked, serving <- (session = "Healthy")

\* Seen through its acknowledgements, chainstate is the abstract accepted
\* chain: every step is an advance to a heavier valid chain, a stop or a start
\* (accept_block, reopen, Durably).
ImplementsAcceptedChain == Abstract!Spec

\* After a block or reorganization was accepted a restart observes the
\* accepted state: the database passes every check of reopen, unless the node
\* asked for a reindex.
RestartSucceeds ==
    \A d \in Stores :
        Opened(d) /\ d.health = "Healthy" => ReopenOk(d)

\* A fully validated block whose body was pruned cannot be stored again, so
\* its branch must leave the active chain too deep for any later reorganization.
PrunedBranchesAreDeep ==
    \A d \in Stores : Opened(d) =>
        \A b \in Block \ d.active :
            d.validation[b] = "FullyValidated" /\ b \notin d.retained =>
                \A f \in d.active :
                    IsFork(d, b, f) =>
                        ~reorg_depth_allowed(Height[d.tip] - Height[f])

\* When every block keeps being offered the node ends on a chain no valid chain
\* outweighs, whatever order blocks, headers, prunes and crashes come in.
HeaviestValidWins ==
    <>[](/\ acked # NoBlock
         /\ \A b \in Block : ValidChain(b) => CumWork[b] <= CumWork[acked])

=============================================================================
