-------------------------- MODULE ChainStateProofs --------------------------
(***************************************************************************)
(* Proofs that the chain state keeps its invariants, for every block tree  *)
(* and every window.                                                       *)
(*                                                                         *)
(* IInv is the inductive invariant.  It says what every store holds, the   *)
(* one a running process reads and the one a crash would leave, and how    *)
(* the two, the session and the last acknowledged tip are related.         *)
(***************************************************************************)
EXTENDS ChainState, BlockTreeProofs

-----------------------------------------------------------------------------
(* The inductive invariant. *)

\* The active chain, its UTXO set and its verdicts.
ActiveStore(d) ==
    /\ d.active = Ancestors[d.tip]
    /\ d.utxos = EffectsOf(d.tip)
    /\ \A a \in d.active : d.validation[a] = "FullyValidated"
    /\ \A b \in Block : d.validation[b] = "FullyValidated" => ValidChain(b)

\* Bodies and undo data; a stored body has a record, and one that may still be
\* used does not outweigh the tip.
BodyStore(d) ==
    /\ d.blocks = d.retained
    /\ d.undo \subseteq d.retained
    /\ \A b \in d.retained :
          /\ d.validation[b] # "Absent"
          /\ d.validation[b] # "Invalid" => CumWork[b] <= CumWork[d.tip]

\* The preferred header is at least as heavy as the tip.
PreferredStore(d) ==
    /\ d.preferred \in Block
    /\ CumWork[d.tip] <= CumWork[d.preferred]

\* A store is empty, or bootstrapped and consistent.
StoreInv(d) ==
    /\ d \in Disk
    /\ \/ d = EmptyDisk
       \/ d.tip \in Block /\ ActiveStore(d) /\ BodyStore(d) /\ PreferredStore(d)

\* Every verdict of d is a verdict of e.
VerdictsKept(d, e) ==
    \A b \in Block : d.validation[b] \in {"FullyValidated", "Invalid"} =>
                        e.validation[b] = d.validation[b]

\* The store is not behind the last acknowledged tip.
StoreNotBehind(d) ==
    IF acked = NoBlock
    THEN d \in {EmptyDisk, AnchorDisk}
    ELSE /\ d.tip \in Block
         /\ d.tip = acked \/ CumWork[d.tip] > CumWork[acked]

\* What a session has in memory, and what a healthy one knows of the stores.
SessionInv ==
    /\ session # "Closed" =>
          /\ mem.tip \in Block /\ mem.header_tip \in Block
          /\ mem.utxos = EffectsOf(mem.tip)
    /\ session = "Healthy" =>
          /\ mem.tip = acked
          /\ disk.tip = acked /\ synced.tip = acked
          /\ disk.preferred = mem.header_tip /\ synced.preferred = mem.header_tip
          /\ disk.health = "Healthy" /\ synced.health = "Healthy"

\* A durable request for a reindex is seen by every session.
ReindexInv ==
    synced.health = "ReindexRequired" =>
        disk.health = "ReindexRequired" /\ session # "Healthy"

IInv ==
    /\ StoreInv(disk) /\ StoreInv(synced)
    /\ VerdictsKept(synced, disk)
    /\ mem \in Memory
    /\ session \in {"Closed", "Healthy", "StorageFaulted", "ReindexRequired"}
    /\ acked \in Block \cup {NoBlock}
    /\ StoreNotBehind(disk) /\ StoreNotBehind(synced)
    /\ SessionInv
    /\ ReindexInv

-----------------------------------------------------------------------------
(* What each batch does to a consistent store. *)

\* The types of the fields of a store.
LEMMA DiskFields ==
    ASSUME NEW d \in Disk
    PROVE  /\ d.validation \in [Block -> Validation]
           /\ d.retained \subseteq Block /\ d.blocks \subseteq Block
           /\ d.undo \subseteq Block /\ d.active \subseteq Block
           /\ d.utxos \subseteq Block
           /\ d.tip \in Block \cup {NoBlock}
           /\ d.preferred \in Block \cup {NoBlock}
           /\ d.health \in {"None", "Healthy", "ReindexRequired"}
           /\ d.cursor \in Nat
  BY DEF Disk

\* A store with a tip is consistent.
LEMMA OpenStore ==
    ASSUME NEW d, StoreInv(d), d.tip \in Block
    PROVE  /\ d \in Disk
           /\ d.validation \in [Block -> Validation]
           /\ d.retained \subseteq Block /\ d.active \subseteq Block
           /\ d.undo \subseteq Block /\ d.utxos \subseteq Block
           /\ ActiveStore(d) /\ BodyStore(d) /\ PreferredStore(d)
<1>1. d \in Disk /\ ActiveStore(d) /\ BodyStore(d) /\ PreferredStore(d)
  BY NoBlockAssumption DEF StoreInv, EmptyDisk
<1> QED
  BY <1>1, DiskFields

\* A store that is opened has a tip; an empty one holds nothing.
LEMMA OpenedTip ==
    ASSUME NEW d, StoreInv(d)
    PROVE  /\ Opened(d) => d.tip \in Block
           /\ ~Opened(d) => d = EmptyDisk
           /\ d.blocks = d.retained /\ d.undo \subseteq d.retained
           /\ \A b \in Block :
                 d.validation[b] = "FullyValidated" => ValidChain(b)
<1>1. CASE d = EmptyDisk
  BY <1>1 DEF EmptyDisk, Opened
<1>2. CASE d.tip \in Block /\ ActiveStore(d) /\ BodyStore(d)
  BY <1>2, NoBlockAssumption DEF ActiveStore, BodyStore, Opened
<1> QED
  BY <1>1, <1>2 DEF StoreInv

\* Bootstrap writes a consistent store.
LEMMA AnchorStore ==
    /\ StoreInv(EmptyDisk) /\ StoreInv(AnchorDisk)
    /\ EmptyDisk.tip = NoBlock /\ AnchorDisk.tip = Anchor
    /\ AnchorDisk.preferred = Anchor /\ AnchorDisk.health = "Healthy"
    /\ VerdictsKept(EmptyDisk, AnchorDisk)
<1>1. EmptyDisk \in Disk
  BY DEF EmptyDisk, Disk, Validation
<1>2. /\ EmptyDisk.validation = [b \in Block |-> "Absent"]
      /\ EmptyDisk.retained = {} /\ EmptyDisk.blocks = {}
      /\ EmptyDisk.undo = {} /\ EmptyDisk.utxos = {}
  BY DEF EmptyDisk
<1>3. /\ AnchorDisk \in Disk
      /\ AnchorDisk.validation =
            put_index(EmptyDisk.validation, {Anchor}, "FullyValidated")
      /\ AnchorDisk.retained = {} /\ AnchorDisk.blocks = {}
      /\ AnchorDisk.undo = {} /\ AnchorDisk.utxos = {}
      /\ AnchorDisk.active = {Anchor} /\ AnchorDisk.tip = Anchor
      /\ AnchorDisk.preferred = Anchor /\ AnchorDisk.health = "Healthy"
  BY <1>1, <1>2, ParentAssumption DEF AnchorDisk, Disk, Validation, put_index
<1>4. ActiveStore(AnchorDisk)
  <2>1. EffectsOf(Anchor) = {} /\ ValidChain(Anchor)
    BY AncestorsAssumption DEF EffectsOf, ValidChain
  <2> QED
    BY <1>2, <1>3, <2>1, AncestorsAssumption, ParentAssumption
    DEF ActiveStore, put_index
<1>5. BodyStore(AnchorDisk) /\ PreferredStore(AnchorDisk)
  BY <1>3, ParentAssumption, CumWorkAssumption DEF BodyStore, PreferredStore
<1>6. VerdictsKept(EmptyDisk, AnchorDisk)
  BY DEF VerdictsKept, EmptyDisk
<1> QED
  BY <1>1, <1>2, <1>3, <1>4, <1>5, <1>6, ParentAssumption
  DEF StoreInv, EmptyDisk

\* A new header leaves a consistent store.
LEMMA HeaderStore ==
    ASSUME StoreInv(disk), disk.tip \in Block, mem.header_tip = disk.preferred,
           NEW b \in Block, disk.validation[b] = "Absent"
    PROVE  /\ StoreInv(HeaderBatch(b))
           /\ VerdictsKept(disk, HeaderBatch(b))
           /\ HeaderBatch(b).tip = disk.tip
           /\ HeaderBatch(b).health = disk.health
           /\ HeaderBatch(b).preferred =
                 IF becomes_preferred(b) THEN b ELSE mem.header_tip
<1> DEFINE d == HeaderBatch(b)
<1>1. /\ disk \in Disk
      /\ disk.validation \in [Block -> Validation]
      /\ disk.retained \subseteq Block /\ disk.active \subseteq Block
      /\ ActiveStore(disk) /\ BodyStore(disk) /\ PreferredStore(disk)
  BY OpenStore
<1>2. /\ d.validation = put_index(disk.validation, {b}, "HeaderValidated")
      /\ d.preferred = IF becomes_preferred(b) THEN b ELSE disk.preferred
      /\ d.retained = disk.retained /\ d.blocks = disk.blocks
      /\ d.undo = disk.undo /\ d.active = disk.active
      /\ d.utxos = disk.utxos /\ d.tip = disk.tip /\ d.health = disk.health
  BY <1>1 DEF HeaderBatch, Disk
<1>3. d \in Disk
  BY <1>1 DEF HeaderBatch, Disk, put_index, Validation
<1> HIDE DEF d
<1>4. ActiveStore(d)
  BY <1>1, <1>2 DEF ActiveStore, put_index
<1>5. BodyStore(d)
  BY <1>1, <1>2 DEF BodyStore, put_index
<1>6. PreferredStore(d)
  BY <1>1, <1>2, CumWorkAssumption DEF PreferredStore, becomes_preferred
<1>7. VerdictsKept(disk, d)
  BY <1>1, <1>2 DEF VerdictsKept, put_index
<1> QED
  BY <1>2, <1>3, <1>4, <1>5, <1>6, <1>7 DEF StoreInv, d

\* A body beside the active chain, no heavier than it, leaves a consistent
\* store.
LEMMA SideChainStore ==
    ASSUME StoreInv(disk), disk.tip \in Block, mem.tip = disk.tip,
           NEW b \in Block, ~Heavier(b),
           disk.validation[b] \in {"Absent", "HeaderValidated"}
    PROVE  /\ StoreInv(SideChainBatch(b))
           /\ VerdictsKept(disk, SideChainBatch(b))
           /\ SideChainBatch(b).tip = disk.tip
           /\ SideChainBatch(b).preferred = disk.preferred
           /\ SideChainBatch(b).health = disk.health
<1> DEFINE d == SideChainBatch(b)
<1>1. /\ disk \in Disk
      /\ disk.validation \in [Block -> Validation]
      /\ disk.retained \subseteq Block /\ disk.active \subseteq Block
      /\ ActiveStore(disk) /\ BodyStore(disk) /\ PreferredStore(disk)
  BY OpenStore
<1>2. /\ d \in Disk
      /\ d.validation = put_index(disk.validation, {b}, "HeaderValidated")
      /\ d.retained = disk.retained \cup {b} /\ d.blocks = disk.blocks \cup {b}
      /\ d.undo = disk.undo /\ d.active = disk.active
      /\ d.utxos = disk.utxos /\ d.tip = disk.tip
      /\ d.preferred = disk.preferred /\ d.health = disk.health
  BY <1>1 DEF SideChainBatch, Disk, put_index, Validation
<1> HIDE DEF d
<1>3. ActiveStore(d)
  <2>1. \A a \in disk.active : d.validation[a] = "FullyValidated"
    BY <1>1, <1>2 DEF ActiveStore, put_index
  <2>2. \A a \in Block : d.validation[a] = "FullyValidated" => ValidChain(a)
    BY <1>1, <1>2 DEF ActiveStore, put_index
  <2> QED
    BY <1>1, <1>2, <2>1, <2>2 DEF ActiveStore
<1>4. CumWork[b] <= CumWork[disk.tip]
  BY CumWorkAssumption DEF Heavier
<1>5. BodyStore(d)
  BY <1>1, <1>2, <1>4 DEF BodyStore, put_index
<1>6. PreferredStore(d)
  BY <1>1, <1>2 DEF PreferredStore
<1>7. VerdictsKept(disk, d)
  BY <1>1, <1>2 DEF VerdictsKept, put_index
<1> QED
  BY <1>2, <1>3, <1>5, <1>6, <1>7 DEF StoreInv, d

\* A request for a reindex changes nothing else.
LEMMA ReindexStore ==
    ASSUME StoreInv(disk), disk.tip \in Block
    PROVE  /\ StoreInv(ReindexBatch)
           /\ VerdictsKept(disk, ReindexBatch)
           /\ ReindexBatch.tip = disk.tip
           /\ ReindexBatch.preferred = disk.preferred
           /\ ReindexBatch.health = "ReindexRequired"
<1> DEFINE d == ReindexBatch
<1>1. disk \in Disk /\ ActiveStore(disk) /\ BodyStore(disk)
      /\ PreferredStore(disk)
  BY OpenStore
<1>2. /\ d \in Disk
      /\ d.validation = disk.validation
      /\ d.retained = disk.retained /\ d.blocks = disk.blocks
      /\ d.undo = disk.undo /\ d.active = disk.active
      /\ d.utxos = disk.utxos /\ d.tip = disk.tip
      /\ d.preferred = disk.preferred /\ d.health = "ReindexRequired"
  BY <1>1 DEF ReindexBatch, Disk
<1> HIDE DEF d
<1>3. ActiveStore(d) /\ BodyStore(d) /\ PreferredStore(d)
  BY <1>1, <1>2 DEF ActiveStore, BodyStore, PreferredStore
<1>4. VerdictsKept(disk, d)
  BY <1>2 DEF VerdictsKept
<1> QED
  BY <1>2, <1>3, <1>4 DEF StoreInv, d

\* Marking blocks invalid that are neither active nor fully validated leaves a
\* consistent store.
LEMMA InvalidStore ==
    ASSUME StoreInv(disk), disk.tip \in Block,
           NEW b \in Block, NEW f, b \notin disk.retained,
           \A a \in FailedPart(b, f) :
               disk.validation[a] \in {"Absent", "HeaderValidated"}
    PROVE  /\ StoreInv(InvalidBatch(b, f))
           /\ VerdictsKept(disk, InvalidBatch(b, f))
           /\ InvalidBatch(b, f).tip = disk.tip
           /\ InvalidBatch(b, f).preferred = disk.preferred
           /\ InvalidBatch(b, f).health = disk.health
<1> DEFINE d == InvalidBatch(b, f)
           F == FailedPart(b, f)
<1>1. /\ disk \in Disk
      /\ disk.validation \in [Block -> Validation]
      /\ disk.retained \subseteq Block /\ disk.active \subseteq Block
      /\ ActiveStore(disk) /\ BodyStore(disk) /\ PreferredStore(disk)
  BY OpenStore
<1>2. /\ d \in Disk
      /\ d.validation = put_index(disk.validation, F, "Invalid")
      /\ d.retained = disk.retained /\ d.blocks = disk.blocks
      /\ d.undo = disk.undo /\ d.active = disk.active
      /\ d.utxos = disk.utxos /\ d.tip = disk.tip
      /\ d.preferred = disk.preferred /\ d.health = disk.health
  BY <1>1 DEF InvalidBatch, Disk, put_index, Validation
<1> HIDE DEF d, F
<1>3. \A a \in F : disk.validation[a] \in {"Absent", "HeaderValidated"}
  BY DEF F
<1>4. ActiveStore(d)
  BY <1>1, <1>2, <1>3 DEF ActiveStore, put_index
<1>5. BodyStore(d)
  BY <1>1, <1>2 DEF BodyStore, put_index
<1>6. PreferredStore(d)
  BY <1>1, <1>2 DEF PreferredStore
<1>7. VerdictsKept(disk, d)
  BY <1>1, <1>2, <1>3 DEF VerdictsKept, put_index
<1> QED
  BY <1>2, <1>4, <1>5, <1>6, <1>7 DEF StoreInv, d

\* The blocks of branch are valid and complete the chain of the heavier tip b.
Completes(b, branch, old, kept) ==
    /\ Heavier(b) /\ branch \subseteq Ancestors[b]
    /\ set_active_height(kept, branch) = Ancestors[b]
    /\ (disk.utxos \ old) \cup branch = EffectsOf(b)
    /\ \A a \in Ancestors[b] \ branch : disk.validation[a] = "FullyValidated"
    /\ \A a \in branch : ValidChain(a) /\ disk.validation[a] # "Invalid"

\* The store d is consistent and has b as its tip.
Activated(d, b) ==
    /\ StoreInv(d)
    /\ VerdictsKept(disk, d)
    /\ d.tip = b
    /\ d.preferred = IF becomes_preferred(b) THEN b ELSE mem.header_tip
    /\ d.health = disk.health

\* Activating such a branch leaves a consistent store.
LEMMA ActivateStore ==
    ASSUME StoreInv(disk), disk.tip \in Block, mem.tip = disk.tip,
           mem.header_tip = disk.preferred,
           NEW b \in Block, NEW branch \in SUBSET Block, NEW old, NEW kept,
           Completes(b, branch, old, kept)
    PROVE  Activated(ActivateBatch(b, branch, old, kept), b)
<1> USE DEF Completes
<1> DEFINE d == ActivateBatch(b, branch, old, kept)
<1>1. /\ disk \in Disk
      /\ disk.validation \in [Block -> Validation]
      /\ disk.retained \subseteq Block /\ disk.blocks \subseteq Block
      /\ disk.undo \subseteq Block /\ disk.utxos \subseteq Block
      /\ ActiveStore(disk) /\ BodyStore(disk) /\ PreferredStore(disk)
  BY OpenStore, DiskFields
<1>2. Ancestors[b] \subseteq Block /\ b \in Ancestors[b]
  BY AncestorsAssumption, AncestorEnds
<1>3. /\ d \in Disk
      /\ d.validation = put_index(disk.validation, branch, "FullyValidated")
      /\ d.retained = disk.retained \cup branch
      /\ d.blocks = disk.blocks \cup branch
      /\ d.undo = disk.undo \cup branch
      /\ d.active = Ancestors[b]
      /\ d.utxos = EffectsOf(b) /\ d.tip = b
      /\ d.preferred = IF becomes_preferred(b) THEN b ELSE disk.preferred
      /\ d.health = disk.health
  <2>1. EffectsOf(b) \subseteq Block
    BY <1>2 DEF EffectsOf
  <2> QED
    BY <1>1, <1>2, <2>1 DEF ActivateBatch, Disk, put_index, Validation
<1> HIDE DEF d
<1>4. ActiveStore(d)
  <2>1. \A a \in Ancestors[b] : d.validation[a] = "FullyValidated"
    BY <1>2, <1>3 DEF put_index
  <2>2. \A a \in Block : d.validation[a] = "FullyValidated" => ValidChain(a)
    BY <1>1, <1>3 DEF ActiveStore, put_index
  <2> QED
    BY <1>3, <2>1, <2>2 DEF ActiveStore
<1>5. BodyStore(d)
  <2>1. CumWork[disk.tip] \in Nat /\ CumWork[b] \in Nat
        /\ CumWork[disk.tip] < CumWork[b]
    BY CumWorkAssumption DEF Heavier
  <2>2. \A a \in branch : CumWork[a] <= CumWork[b]
    BY AncestorOrder
  <2>3. \A a \in disk.retained \cup branch :
          /\ d.validation[a] # "Absent"
          /\ d.validation[a] # "Invalid" => CumWork[a] <= CumWork[b]
    <3> SUFFICES ASSUME NEW a \in disk.retained \cup branch
                 PROVE  /\ d.validation[a] # "Absent"
                        /\ d.validation[a] # "Invalid" => CumWork[a] <= CumWork[b]
      OBVIOUS
    <3>1. CASE a \in branch
      BY <1>3, <2>2, <3>1 DEF put_index
    <3>2. CASE a \in disk.retained \ branch
      <4>1. d.validation[a] = disk.validation[a] /\ CumWork[a] \in Nat
        BY <1>1, <1>3, <3>2, CumWorkAssumption DEF put_index
      <4> QED
        BY <1>1, <2>1, <3>2, <4>1 DEF BodyStore
    <3> QED
      BY <3>1, <3>2
  <2> QED
    BY <1>1, <1>3, <2>3 DEF BodyStore
<1>6. PreferredStore(d)
  BY <1>1, <1>3, CumWorkAssumption DEF PreferredStore, becomes_preferred
<1>7. VerdictsKept(disk, d)
  BY <1>1, <1>3 DEF VerdictsKept, put_index, Validation
<1> QED
  BY <1>3, <1>4, <1>5, <1>6, <1>7 DEF StoreInv, Activated, d

\* Pruning leaves a consistent store: an undo entry that stays has its body.
LEMMA PruneStore ==
    ASSUME StoreInv(disk), disk.tip \in Block, NEW h \in Nat
    PROVE  /\ StoreInv(plan_prune(disk, h))
           /\ VerdictsKept(disk, plan_prune(disk, h))
           /\ plan_prune(disk, h).tip = disk.tip
           /\ plan_prune(disk, h).preferred = disk.preferred
           /\ plan_prune(disk, h).health = disk.health
<1> DEFINE d == plan_prune(disk, h)
           dropped == {b \in disk.retained : ~RetainBody(disk, b, h)}
<1>1. /\ disk \in Disk
      /\ disk.validation \in [Block -> Validation]
      /\ disk.retained \subseteq Block /\ disk.blocks \subseteq Block
      /\ disk.undo \subseteq Block /\ disk.active \subseteq Block
      /\ ActiveStore(disk) /\ BodyStore(disk) /\ PreferredStore(disk)
  BY OpenStore, DiskFields
<1>2. prune_cursor_for_tip(h) \in Nat
  BY WindowAssumption DEF prune_cursor_for_tip
<1>3. /\ d \in Disk
      /\ d.validation = disk.validation
      /\ d.retained = disk.retained \ dropped
      /\ d.blocks = disk.blocks \ dropped
      /\ d.undo = {b \in disk.undo :
                      b \in disk.retained => should_retain_undo(disk, b, h)}
      /\ d.active = disk.active /\ d.utxos = disk.utxos /\ d.tip = disk.tip
      /\ d.preferred = disk.preferred /\ d.health = disk.health
  BY <1>1, <1>2 DEF plan_prune, Disk
<1>4. \A b \in disk.undo : should_retain_undo(disk, b, h) => b \notin dropped
  <2> SUFFICES ASSUME NEW b \in disk.undo, should_retain_undo(disk, b, h)
               PROVE  RetainBody(disk, b, h)
    OBVIOUS
  <2>1. b \in Block /\ b \in disk.active /\ Height[b] \in Nat
    BY <1>1, HeightAssumption DEF should_retain_undo
  <2>2. IsFork(disk, b, b)
    BY <2>1, AncestorEnds, AncestorOrder DEF IsFork
  <2>3. should_retain_body(b, b, h)
    BY <2>1, WindowAssumption
    DEF should_retain_body, should_retain_undo, retained_active_floor
  <2> QED
    BY <1>1, <2>1, <2>2, <2>3 DEF RetainBody, ActiveStore
<1> HIDE DEF d
<1>5. ActiveStore(d) /\ PreferredStore(d)
  BY <1>1, <1>3 DEF ActiveStore, PreferredStore
<1>6. BodyStore(d)
  BY <1>1, <1>3, <1>4 DEF BodyStore
<1>7. VerdictsKept(disk, d)
  BY <1>3 DEF VerdictsKept
<1> QED
  BY <1>3, <1>5, <1>6, <1>7 DEF StoreInv, d

-----------------------------------------------------------------------------
(* The branch that replaces a part of the active chain. *)

\* Taking the blocks of t above the fork off and putting those of b on gives
\* the chain of b.
LEMMA ForkGeometry ==
    ASSUME NEW t \in Block, NEW b \in Block,
           NEW f \in Ancestors[b] \cap Ancestors[t],
           \A a \in Ancestors[b] \cap Ancestors[t] : Height[a] <= Height[f]
    PROVE  /\ set_active_height(
                  delete_active_height(Ancestors[t], Height[f] + 1, Height[t]),
                  Branch(b, f)) = Ancestors[b]
           /\ (EffectsOf(t) \ {a \in Ancestors[t] :
                                  Height[f] < Height[a] /\ Height[a] <= Height[t]})
              \cup Branch(b, f) = EffectsOf(b)
           /\ Ancestors[b] \ Branch(b, f) = Ancestors[f]
           /\ Branch(b, f) \cap Ancestors[t] = {}
<1>1. \A x \in Block : \A a \in Ancestors[x] :
        a \in Block /\ Height[a] \in Nat /\ Height[a] <= Height[x]
  BY AncestorOrder, HeightAssumption
<1>2. f \in Block /\ Height[f] \in Nat /\ Height[t] \in Nat
  BY <1>1, HeightAssumption
<1>3. Ancestors[f] \subseteq Ancestors[b] /\ Ancestors[f] \subseteq Ancestors[t]
  BY AncestorOrder
<1>4. {a \in Ancestors[b] : Height[a] <= Height[f]} = Ancestors[f]
  BY <1>1, <1>2, <1>3, AncestorsAreLinear
<1>5. {a \in Ancestors[t] : Height[a] <= Height[f]} = Ancestors[f]
  BY <1>1, <1>2, <1>3, AncestorsAreLinear
<1>6. Ancestors[b] \ Branch(b, f) = Ancestors[f]
  BY <1>1, <1>2, <1>4 DEF Branch
<1>7. Branch(b, f) \cap Ancestors[t] = {}
  BY <1>1, <1>2 DEF Branch
<1>8. delete_active_height(Ancestors[t], Height[f] + 1, Height[t]) = Ancestors[f]
  BY <1>1, <1>2, <1>5 DEF delete_active_height
<1>9. set_active_height(Ancestors[f], Branch(b, f)) = Ancestors[f] \cup Branch(b, f)
  <2>1. \A a \in Ancestors[f] : \A c \in Branch(b, f) : Height[a] # Height[c]
    BY <1>1, <1>2 DEF Branch
  <2> QED
    BY <2>1 DEF set_active_height
<1>10. Ancestors[f] \cup Branch(b, f) = Ancestors[b]
  BY <1>3, <1>6 DEF Branch
<1>11. EffectsOf(t) \ {a \in Ancestors[t] :
                          Height[f] < Height[a] /\ Height[a] <= Height[t]}
         = EffectsOf(f)
  BY <1>1, <1>2, <1>5 DEF EffectsOf
<1>12. Anchor \notin Branch(b, f)
  BY <1>2, HeightAssumption DEF Branch
<1>13. EffectsOf(f) \cup Branch(b, f) = EffectsOf(b)
  BY <1>10, <1>12 DEF EffectsOf
<1> QED
  BY <1>6, <1>7, <1>8, <1>9, <1>10, <1>11, <1>13

\* The same for a block that extends the active chain.
LEMMA ExtendGeometry ==
    ASSUME NEW b \in Block \ {Anchor}
    PROVE  /\ set_active_height(Ancestors[Parent[b]], {b}) = Ancestors[b]
           /\ (EffectsOf(Parent[b]) \ {}) \cup {b} = EffectsOf(b)
           /\ Ancestors[b] \ {b} = Ancestors[Parent[b]]
<1>1. Parent[b] \in Block /\ Height[b] = Height[Parent[b]] + 1
      /\ Height[Parent[b]] \in Nat
  BY ParentAssumption, HeightAssumption
<1>2. Ancestors[b] = {b} \cup Ancestors[Parent[b]]
  BY AncestorsAssumption
<1>3. \A a \in Ancestors[Parent[b]] : Height[a] # Height[b]
  <2> TAKE a \in Ancestors[Parent[b]]
  <2>1. a \in Block /\ Height[a] <= Height[Parent[b]]
    BY <1>1, AncestorOrder
  <2>2. Height[a] \in Nat
    BY <2>1, HeightAssumption
  <2> QED
    BY <1>1, <2>1, <2>2
<1>4. b \notin Ancestors[Parent[b]]
  BY <1>3
<1> QED
  BY <1>2, <1>3, <1>4 DEF set_active_height, EffectsOf

-----------------------------------------------------------------------------
(* Steps. *)

\* What a step may do to the acknowledged tip, to a reindex request, to
\* verdicts, and what it is in the abstract specification.
AckedStep ==
    acked' # acked => acked = NoBlock \/ CumWork[acked'] > CumWork[acked]
ReindexStep ==
    synced.health = "ReindexRequired" => synced' = synced /\ session' # "Healthy"
VerdictStep == VerdictsKept(synced, synced')
AbstractStep == [Abstract!Next]_<<acked, session = "Healthy">>

StepOk == AckedStep /\ ReindexStep /\ VerdictStep /\ AbstractStep

\* A durable mutation of a healthy session, whether its sync succeeds or not.
LEMMA DurableStep ==
    ASSUME IInv, session = "Healthy",
           NEW d, NEW m \in Memory, NEW health \in {"Healthy", "ReindexRequired"},
           StoreInv(d), d.tip \in Block, VerdictsKept(disk, d),
           d.health = health,
           m.tip = d.tip, m.header_tip = d.preferred,
           m.utxos = EffectsOf(m.tip),
           m.tip = acked \/ (health = "Healthy" /\ CumWork[m.tip] > CumWork[acked]),
           Durably(d, m, health)
    PROVE  IInv' /\ StepOk
<1>1. /\ StoreInv(disk) /\ StoreInv(synced) /\ VerdictsKept(synced, disk)
      /\ mem \in Memory /\ mem.tip = acked /\ disk.tip = acked
      /\ synced.tip = acked /\ acked \in Block /\ mem.header_tip \in Block
      /\ mem.utxos = EffectsOf(mem.tip)
      /\ disk.health = "Healthy" /\ synced.health = "Healthy"
      /\ StoreNotBehind(synced)
  BY DEF IInv, SessionInv
<1>2. VerdictsKept(synced, d)
  BY <1>1 DEF VerdictsKept
<1>3. ValidChain(d.tip) /\ d.preferred \in Block
  <2>1. ActiveStore(d) /\ PreferredStore(d)
    BY OpenStore
  <2> QED
    BY <2>1, AncestorEnds DEF ActiveStore, PreferredStore
<1>4. acked # NoBlock /\ m.tip # NoBlock
  BY <1>1, NoBlockAssumption
<1>5. VerdictsKept(d, d) /\ VerdictsKept(synced, synced)
  BY DEF VerdictsKept
<1>6. CASE commit_durable(d) /\ mem' = m /\ session' = health /\ acked' = m.tip
  <2>1. disk' = d /\ synced' = d
    BY <1>6 DEF commit_durable
  <2>2. IInv'
    <3>1. StoreNotBehind(disk)' /\ StoreNotBehind(synced)'
      BY <1>4, <1>6, <2>1 DEF StoreNotBehind
    <3>2. SessionInv'
      BY <1>3, <1>6, <2>1 DEF SessionInv
    <3>3. ReindexInv'
      BY <1>6, <2>1 DEF ReindexInv
    <3>4. StoreInv(disk)' /\ StoreInv(synced)' /\ VerdictsKept(synced, disk)'
      BY <1>5, <2>1
    <3> QED
      BY <1>6, <3>1, <3>2, <3>3, <3>4 DEF IInv
  <2>3. AckedStep /\ ReindexStep
    BY <1>1, <1>6 DEF AckedStep, ReindexStep
  <2>4. VerdictStep
    BY <1>2, <2>1 DEF VerdictStep
  <2>5. AbstractStep
    <3>1. CASE m.tip = acked
      BY <1>6, <3>1 DEF AbstractStep, Abstract!Next, Abstract!Stop
    <3>2. CASE m.tip # acked
      <4>1. Abstract!Improves(m.tip)
        BY <1>3, <1>4, <3>2 DEF Abstract!Improves, Abstract!ValidChain,
             Abstract!EffectsOf, ValidChain, EffectsOf
      <4> QED
        BY <1>6, <3>2, <4>1 DEF AbstractStep, Abstract!Next, Abstract!Advance
    <3> QED
      BY <3>1, <3>2
  <2> QED
    BY <2>2, <2>3, <2>4, <2>5 DEF StepOk
<1>7. CASE /\ disk' = d /\ session' = "StorageFaulted"
           /\ UNCHANGED <<synced, mem, acked>>
  <2>1. IInv'
    <3>1. StoreNotBehind(disk)' /\ StoreNotBehind(synced)'
      BY <1>1, <1>4, <1>7 DEF StoreNotBehind
    <3>2. SessionInv'
      BY <1>1, <1>7 DEF SessionInv
    <3>3. ReindexInv'
      BY <1>1, <1>7 DEF ReindexInv
    <3>4. StoreInv(disk)' /\ StoreInv(synced)' /\ VerdictsKept(synced, disk)'
      BY <1>1, <1>2, <1>7
    <3> QED
      BY <1>1, <1>7, <3>1, <3>2, <3>3, <3>4 DEF IInv
  <2>2. AckedStep /\ ReindexStep
    BY <1>1, <1>7 DEF AckedStep, ReindexStep
  <2>3. VerdictStep
    BY <1>5, <1>7 DEF VerdictStep
  <2>4. AbstractStep
    BY <1>7 DEF AbstractStep, Abstract!Next, Abstract!Stop
  <2> QED
    BY <2>1, <2>2, <2>3, <2>4 DEF StepOk
<1> QED
  BY <1>6, <1>7 DEF Durably

\* What a healthy session knows.
LEMMA HealthyFacts ==
    ASSUME IInv, session = "Healthy"
    PROVE  /\ StoreInv(disk) /\ disk.tip \in Block /\ mem.tip = disk.tip
           /\ mem.header_tip = disk.preferred /\ disk.preferred \in Block
           /\ disk.health = "Healthy" /\ acked = disk.tip
           /\ mem \in Memory /\ mem.utxos = EffectsOf(mem.tip)
           /\ disk.validation \in [Block -> Validation]
           /\ ActiveStore(disk) /\ BodyStore(disk)
<1>1. /\ StoreInv(disk) /\ disk.tip \in Block /\ mem.tip = disk.tip
      /\ mem.header_tip = disk.preferred /\ disk.preferred \in Block
      /\ disk.health = "Healthy" /\ acked = disk.tip
      /\ mem \in Memory /\ mem.utxos = EffectsOf(mem.tip)
  BY DEF IInv, SessionInv
<1> QED
  BY <1>1, OpenStore

\* accept_header is a legal step: it adds a record and may move the preferred
\* header tip, and leaves the active chain alone.
LEMMA HeaderStep ==
    ASSUME IInv, NEW b \in Block \ {Anchor}, accept_header(b)
    PROVE  IInv' /\ StepOk
<1> DEFINE m == [mem EXCEPT
                   !.header_tip = IF becomes_preferred(b) THEN b ELSE @]
<1>1. session = "Healthy" /\ disk.validation[b] = "Absent"
      /\ Durably(HeaderBatch(b), m, "Healthy")
  BY DEF accept_header
<1>2. /\ StoreInv(HeaderBatch(b)) /\ VerdictsKept(disk, HeaderBatch(b))
      /\ HeaderBatch(b).tip = disk.tip /\ HeaderBatch(b).health = "Healthy"
      /\ HeaderBatch(b).preferred =
            IF becomes_preferred(b) THEN b ELSE mem.header_tip
  BY <1>1, HealthyFacts, HeaderStore
<1>3. /\ m \in Memory /\ m.tip = mem.tip /\ m.utxos = mem.utxos
      /\ m.header_tip = IF becomes_preferred(b) THEN b ELSE mem.header_tip
  BY <1>1, HealthyFacts DEF Memory
<1> HIDE DEF m
<1> QED
  BY <1>1, <1>2, <1>3, HealthyFacts, DurableStep

\* extend_active is a legal step: the new tip is heavier and its branch connects.
LEMMA ExtendStep ==
    ASSUME IInv, NEW b \in Block \ {Anchor}, extend_active(b)
    PROVE  IInv' /\ StepOk
<1> DEFINE d == ActivateBatch(b, {b}, {}, disk.active)
           m == ActivateMemory(b, {b}, {})
<1>1. session = "Healthy" /\ BodyWanted(b) /\ Parent[b] = mem.tip
      /\ b \in Connects /\ Durably(d, m, "Healthy")
  BY DEF extend_active
<1>2. /\ disk.active = Ancestors[Parent[b]] /\ disk.utxos = EffectsOf(Parent[b])
      /\ mem.utxos = EffectsOf(Parent[b])
      /\ \A a \in disk.active : disk.validation[a] = "FullyValidated"
      /\ ValidChain(Parent[b])
  BY <1>1, HealthyFacts, AncestorEnds DEF ActiveStore
<1>3. Heavier(b)
  BY <1>1, CumWorkAssumption, WorkAssumption, ParentAssumption DEF Heavier
<1>4. ValidChain(b)
  BY <1>1, <1>2, ExtendGeometry DEF ValidChain
<1>5. disk.validation[b] # "Invalid"
  BY <1>1 DEF BodyWanted
<1>6. b \in Ancestors[b]
  BY AncestorEnds
<1>7. /\ StoreInv(d) /\ VerdictsKept(disk, d) /\ d.tip = b
      /\ d.preferred = IF becomes_preferred(b) THEN b ELSE mem.header_tip
      /\ d.health = "Healthy"
  <2>1. /\ StoreInv(disk) /\ disk.tip \in Block /\ mem.tip = disk.tip
        /\ mem.header_tip = disk.preferred /\ disk.health = "Healthy"
    BY <1>1, HealthyFacts
  <2>2. /\ set_active_height(disk.active, {b}) = Ancestors[b]
        /\ (disk.utxos \ {}) \cup {b} = EffectsOf(b)
        /\ \A a \in Ancestors[b] \ {b} : disk.validation[a] = "FullyValidated"
    BY <1>2, ExtendGeometry
  <2>3. /\ {b} \in SUBSET Block /\ {b} \subseteq Ancestors[b]
        /\ \A a \in {b} : ValidChain(a) /\ disk.validation[a] # "Invalid"
    BY <1>4, <1>5, <1>6
  <2>4. Completes(b, {b}, {}, disk.active)
    BY <1>3, <2>2, <2>3 DEF Completes
  <2>5. Activated(d, b)
    BY <2>1, <2>3, <2>4, ActivateStore
  <2> QED
    BY <2>1, <2>5 DEF Activated
<1>8. /\ m \in Memory /\ m.tip = b /\ m.utxos = EffectsOf(b)
      /\ m.header_tip = IF becomes_preferred(b) THEN b ELSE mem.header_tip
  <2>1. EffectsOf(b) \subseteq Block
    BY AncestorsAssumption DEF EffectsOf
  <2>2. (mem.utxos \ {}) \cup {b} = EffectsOf(b)
    BY <1>2, ExtendGeometry
  <2> QED
    BY <1>1, <2>1, <2>2, HealthyFacts DEF ActivateMemory, Memory
<1> HIDE DEF d, m
<1>9. CumWork[m.tip] > CumWork[acked]
  BY <1>1, <1>3, <1>8, HealthyFacts DEF Heavier
<1> QED
  BY <1>1, <1>7, <1>8, <1>9, HealthyFacts, DurableStep

\* store_side_chain is a legal step: the body it stores is not heavier than the
\* active tip.
LEMMA SideChainStep ==
    ASSUME IInv, NEW b \in Block \ {Anchor}, store_side_chain(b)
    PROVE  IInv' /\ StepOk
<1>1. session = "Healthy" /\ ~Heavier(b)
      /\ disk.validation[b] \in {"Absent", "HeaderValidated"}
      /\ Durably(SideChainBatch(b), mem, "Healthy")
  BY DEF store_side_chain, BodyWanted
<1>2. /\ StoreInv(SideChainBatch(b)) /\ VerdictsKept(disk, SideChainBatch(b))
      /\ SideChainBatch(b).tip = disk.tip
      /\ SideChainBatch(b).preferred = disk.preferred
      /\ SideChainBatch(b).health = "Healthy"
  BY <1>1, HealthyFacts, SideChainStore
<1> QED
  BY <1>1, <1>2, HealthyFacts, DurableStep

\* refuse_deep_reorg is a legal step: it only records the reindex request.
LEMMA DeepReorgStep ==
    ASSUME IInv, NEW b, NEW f, refuse_deep_reorg(b, f)
    PROVE  IInv' /\ StepOk
<1>1. session = "Healthy" /\ Durably(ReindexBatch, mem, "ReindexRequired")
  BY DEF refuse_deep_reorg, HeavierBranch
<1>2. /\ StoreInv(ReindexBatch) /\ VerdictsKept(disk, ReindexBatch)
      /\ ReindexBatch.tip = disk.tip
      /\ ReindexBatch.preferred = disk.preferred
      /\ ReindexBatch.health = "ReindexRequired"
  BY <1>1, HealthyFacts, ReindexStore
<1> QED
  BY <1>1, <1>2, HealthyFacts, DurableStep

\* What reorganize has established when it connects the branch of b.
LEMMA PlannedFacts ==
    ASSUME IInv, NEW b \in Block \ {Anchor}, NEW f \in disk.active,
           ReorgPlanned(b, f)
    PROVE  /\ session = "Healthy" /\ Heavier(b) /\ b \notin disk.retained
           /\ f \in Ancestors[b] \cap Ancestors[disk.tip]
           /\ \A a \in Ancestors[b] \cap Ancestors[disk.tip] :
                 Height[a] <= Height[f]
           /\ OldActive(f) = {a \in Ancestors[disk.tip] :
                                Height[f] < Height[a]
                                /\ Height[a] <= Height[disk.tip]}
           /\ \A a \in Branch(b, f) : disk.validation[a] # "Invalid"
           /\ \A a \in Branch(b, f) :
                 disk.validation[a] = "FullyValidated" => ValidChain(a)
           /\ ValidChain(f)
<1>1. session = "Healthy" /\ BodyWanted(b) /\ Heavier(b)
      /\ IsFork(disk, b, f)
      /\ \A a \in (Branch(b, f) \cup {f}) \ {b} : disk.validation[a] \in Usable
  BY DEF ReorgPlanned, HeavierBranch, discover_fork
<1>2. /\ disk.active = Ancestors[disk.tip] /\ mem.tip = disk.tip
      /\ BodyStore(disk) /\ ActiveStore(disk)
  BY <1>1, HealthyFacts DEF ActiveStore
<1>3. b \notin disk.retained /\ disk.validation[b] # "Invalid"
  BY <1>1, <1>2 DEF BodyWanted, BodyStore
<1>4. /\ f \in Ancestors[b] \cap Ancestors[disk.tip]
      /\ \A a \in Ancestors[b] \cap Ancestors[disk.tip] : Height[a] <= Height[f]
  BY <1>1, <1>2 DEF IsFork
<1>5. \A a \in Branch(b, f) : disk.validation[a] # "Invalid"
  BY <1>1, <1>3 DEF Usable
<1>6. Branch(b, f) \subseteq Block
  BY AncestorsAssumption DEF Branch
<1>7. /\ \A a \in Branch(b, f) :
            disk.validation[a] = "FullyValidated" => ValidChain(a)
      /\ ValidChain(f)
  <2>1. f \in Block /\ disk.validation[f] = "FullyValidated"
    BY <1>2, <1>4, AncestorOrder DEF ActiveStore
  <2> QED
    BY <1>2, <1>6, <2>1 DEF ActiveStore
<1> QED
  BY <1>1, <1>2, <1>3, <1>4, <1>5, <1>7 DEF OldActive

\* apply_reorg_plan is a legal step: columns, UTXOs and tip move to the new
\* branch together.
LEMMA ApplyReorgStep ==
    ASSUME IInv, NEW b \in Block \ {Anchor}, NEW f \in disk.active,
           apply_reorg_plan(b, f)
    PROVE  IInv' /\ StepOk
<1> DEFINE kept == delete_active_height(disk.active, Height[f] + 1,
                                        Height[mem.tip])
           d == ActivateBatch(b, Branch(b, f), OldActive(f), kept)
           m == ActivateMemory(b, Branch(b, f), OldActive(f))
<1>1. ReorgPlanned(b, f) /\ FailedPart(b, f) = {} /\ Durably(d, m, "Healthy")
  BY DEF apply_reorg_plan
<1>2. /\ session = "Healthy" /\ Heavier(b)
      /\ f \in Ancestors[b] \cap Ancestors[disk.tip]
      /\ \A a \in Ancestors[b] \cap Ancestors[disk.tip] : Height[a] <= Height[f]
      /\ OldActive(f) = {a \in Ancestors[disk.tip] :
                           Height[f] < Height[a] /\ Height[a] <= Height[disk.tip]}
      /\ \A a \in Branch(b, f) : disk.validation[a] # "Invalid"
      /\ ValidChain(f)
  BY <1>1, PlannedFacts
<1>3. /\ disk.active = Ancestors[disk.tip] /\ disk.utxos = EffectsOf(disk.tip)
      /\ \A a \in disk.active : disk.validation[a] = "FullyValidated"
  BY <1>2, HealthyFacts DEF ActiveStore
<1>4. disk.tip \in Block /\ mem.tip = disk.tip
  BY <1>2, HealthyFacts
<1>5. /\ set_active_height(kept, Branch(b, f)) = Ancestors[b]
      /\ (EffectsOf(disk.tip) \ OldActive(f)) \cup Branch(b, f) = EffectsOf(b)
      /\ Ancestors[b] \ Branch(b, f) = Ancestors[f]
  <2>1. /\ f \in Ancestors[b] \cap Ancestors[disk.tip]
        /\ \A a \in Ancestors[b] \cap Ancestors[disk.tip] :
              Height[a] <= Height[f]
    BY <1>2
  <2>2. kept = delete_active_height(Ancestors[disk.tip], Height[f] + 1,
                                    Height[disk.tip])
    BY <1>3, <1>4
  <2> HIDE DEF kept
  <2>3. OldActive(f) = {a \in Ancestors[disk.tip] :
                          Height[f] < Height[a] /\ Height[a] <= Height[disk.tip]}
    BY <1>2
  <2>4. /\ set_active_height(
                delete_active_height(Ancestors[disk.tip], Height[f] + 1,
                                     Height[disk.tip]),
                Branch(b, f)) = Ancestors[b]
        /\ (EffectsOf(disk.tip) \
              {a \in Ancestors[disk.tip] :
                  Height[f] < Height[a] /\ Height[a] <= Height[disk.tip]})
           \cup Branch(b, f) = EffectsOf(b)
        /\ Ancestors[b] \ Branch(b, f) = Ancestors[f]
    BY <1>4, <2>1, ForkGeometry, ZenonT(60)
  <2> QED
    BY <2>2, <2>3, <2>4
<1>6. Branch(b, f) \subseteq Connects
  <2>1. SUFFICES ASSUME NEW a \in Branch(b, f), a \notin Connects
                 PROVE  a \in FailedPart(b, f)
    BY <1>1
  <2>2. Height[a] <= Height[a]
    BY AncestorsAssumption, HeightAssumption DEF Branch
  <2> QED
    BY <2>1, <2>2 DEF FailedPart
<1>7. ValidChain(b)
  <2>1. EffectsOf(b) \subseteq EffectsOf(f) \cup Branch(b, f)
    BY <1>5 DEF EffectsOf
  <2> QED
    BY <1>2, <1>6, <2>1 DEF ValidChain
<1>8. \A a \in Branch(b, f) : ValidChain(a)
  BY <1>7, AncestorOrder DEF ValidChain, EffectsOf, Branch
<1>9. \A a \in Ancestors[b] \ Branch(b, f) : disk.validation[a] = "FullyValidated"
  BY <1>2, <1>3, <1>4, <1>5, AncestorOrder
<1>10. Branch(b, f) \in SUBSET Block /\ Branch(b, f) \subseteq Ancestors[b]
  BY AncestorsAssumption DEF Branch
<1>11. /\ StoreInv(d) /\ VerdictsKept(disk, d) /\ d.tip = b
       /\ d.preferred = IF becomes_preferred(b) THEN b ELSE mem.header_tip
       /\ d.health = "Healthy"
  <2> DEFINE branch == Branch(b, f)
             old == OldActive(f)
  <2>1. /\ StoreInv(disk) /\ disk.tip \in Block /\ mem.tip = disk.tip
        /\ mem.header_tip = disk.preferred
    BY <1>2, HealthyFacts
  <2>2. (disk.utxos \ old) \cup branch = EffectsOf(b)
    BY <1>3, <1>5
  <2>3. \A a \in branch : ValidChain(a) /\ disk.validation[a] # "Invalid"
    BY <1>2, <1>8
  <2>4. set_active_height(kept, branch) = Ancestors[b]
    BY <1>5
  <2>5. \A a \in Ancestors[b] \ branch : disk.validation[a] = "FullyValidated"
    BY <1>9
  <2>6. branch \in SUBSET Block /\ branch \subseteq Ancestors[b]
    BY <1>10
  <2>7. Heavier(b) /\ b \in Block /\ disk.health = "Healthy"
    BY <1>2, HealthyFacts
  <2> HIDE DEF branch, old, kept
  <2>8. Completes(b, branch, old, kept)
    BY <2>2, <2>3, <2>4, <2>5, <2>6, <2>7 DEF Completes
  <2>9. Activated(ActivateBatch(b, branch, old, kept), b)
    BY <2>1, <2>6, <2>7, <2>8, ActivateStore
  <2>10. Activated(d, b)
    BY <2>9 DEF branch, old
  <2> HIDE DEF d
  <2> QED
    BY <2>7, <2>10 DEF Activated
<1>12. /\ m \in Memory /\ m.tip = b /\ m.utxos = EffectsOf(b)
       /\ m.header_tip = IF becomes_preferred(b) THEN b ELSE mem.header_tip
  <2>1. EffectsOf(b) \subseteq Block
    BY AncestorsAssumption DEF EffectsOf
  <2>2. (mem.utxos \ OldActive(f)) \cup Branch(b, f) = EffectsOf(b)
    BY <1>2, <1>5, HealthyFacts
  <2> QED
    BY <1>2, <2>1, <2>2, HealthyFacts DEF ActivateMemory, Memory
<1> HIDE DEF d, m
<1>13. CumWork[m.tip] > CumWork[acked]
  BY <1>2, <1>12, HealthyFacts DEF Heavier
<1> QED
  BY <1>1, <1>2, <1>11, <1>12, <1>13, HealthyFacts, DurableStep

\* fail_reorg_plan is a legal step: no active or fully validated block is among
\* the ones it marks invalid.
LEMMA FailReorgStep ==
    ASSUME IInv, NEW b \in Block \ {Anchor}, NEW f \in disk.active,
           fail_reorg_plan(b, f)
    PROVE  IInv' /\ StepOk
<1>1. ReorgPlanned(b, f) /\ Durably(InvalidBatch(b, f), mem, "Healthy")
  BY DEF fail_reorg_plan
<1>2. /\ session = "Healthy" /\ b \notin disk.retained
      /\ f \in Ancestors[b] \cap Ancestors[disk.tip]
      /\ \A a \in Branch(b, f) : disk.validation[a] # "Invalid"
      /\ \A a \in Branch(b, f) :
            disk.validation[a] = "FullyValidated" => ValidChain(a)
  BY <1>1, PlannedFacts
<1>3. \A a \in FailedPart(b, f) :
        disk.validation[a] \in {"Absent", "HeaderValidated"}
  <2> SUFFICES ASSUME NEW a \in FailedPart(b, f)
               PROVE  disk.validation[a] \in {"Absent", "HeaderValidated"}
    OBVIOUS
  <2>1. PICK c \in Branch(b, f) \ Connects : Height[c] <= Height[a]
    BY DEF FailedPart
  <2>2. a \in Branch(b, f) /\ a \in Block /\ f \in Block
    BY <1>2, AncestorsAssumption DEF FailedPart, Branch
  <2>3. c \in Ancestors[a]
    BY <2>1, <2>2, AncestorsAreLinear DEF Branch
  <2>4. c # Anchor
    BY <2>1, <2>2, HeightAssumption DEF Branch
  <2>5. ~ValidChain(a)
    BY <2>1, <2>3, <2>4 DEF ValidChain, EffectsOf
  <2>6. disk.validation[a] \in Validation
    BY <1>2, <2>2, HealthyFacts
  <2> QED
    BY <1>2, <2>2, <2>5, <2>6 DEF Validation
<1>4. /\ StoreInv(InvalidBatch(b, f)) /\ VerdictsKept(disk, InvalidBatch(b, f))
      /\ InvalidBatch(b, f).tip = disk.tip
      /\ InvalidBatch(b, f).preferred = disk.preferred
      /\ InvalidBatch(b, f).health = "Healthy"
  BY <1>2, <1>3, HealthyFacts, InvalidStore
<1> QED
  BY <1>1, <1>2, <1>4, HealthyFacts, DurableStep

\* prune is a legal step, although its batch is not synced.
LEMMA PruneStep ==
    ASSUME IInv, prune
    PROVE  IInv' /\ StepOk
<1> DEFINE d == plan_prune(disk, Height[mem.tip])
<1>1. /\ session = "Healthy" /\ disk' = d
      /\ UNCHANGED <<synced, mem, session, acked>>
  BY DEF prune, commit_maintenance
<1>2. Height[mem.tip] \in Nat
  BY <1>1, HealthyFacts, HeightAssumption
<1>3. /\ StoreInv(d) /\ VerdictsKept(disk, d) /\ d.tip = disk.tip
      /\ d.preferred = disk.preferred /\ d.health = "Healthy"
  BY <1>1, <1>2, HealthyFacts, PruneStore
<1> HIDE DEF d
<1>4. /\ StoreInv(synced) /\ VerdictsKept(synced, disk) /\ acked \in Block
      /\ StoreNotBehind(synced) /\ SessionInv /\ ReindexInv
  BY <1>1, HealthyFacts DEF IInv
<1>5. VerdictsKept(synced, d) /\ VerdictsKept(synced, synced)
  BY <1>3, <1>4 DEF VerdictsKept
<1>6. StoreInv(disk)' /\ StoreInv(synced)' /\ VerdictsKept(synced, disk)'
  BY <1>1, <1>3, <1>4, <1>5
<1>7. StoreNotBehind(disk)' /\ StoreNotBehind(synced)'
  BY <1>1, <1>3, <1>4, HealthyFacts, NoBlockAssumption DEF StoreNotBehind
<1>8. SessionInv' /\ ReindexInv'
  BY <1>1, <1>3, <1>4, HealthyFacts DEF SessionInv, ReindexInv
<1>9. IInv'
  BY <1>1, <1>6, <1>7, <1>8 DEF IInv
<1>10. StepOk
  BY <1>1, <1>4, <1>5 DEF StepOk, AckedStep, ReindexStep, VerdictStep,
                          AbstractStep, SessionInv
<1> QED
  BY <1>9, <1>10

\* A storage error before the batch, or a crash.
LEMMA FaultStep ==
    ASSUME IInv, storage_error \/ Crash
    PROVE  IInv' /\ StepOk
<1>1. VerdictsKept(synced, synced)
  BY DEF VerdictsKept
<1>2. CASE storage_error
  <2>1. IInv'
    BY <1>2 DEF storage_error, IInv, StoreNotBehind, SessionInv, ReindexInv
  <2>2. StepOk
    BY <1>1, <1>2 DEF storage_error, IInv, ReindexInv, StepOk, AckedStep,
       ReindexStep, VerdictStep, AbstractStep, Abstract!Next, Abstract!Stop
  <2> QED
    BY <2>1, <2>2
<1>3. CASE Crash
  <2>1. /\ disk' = disk \/ disk' = synced
        /\ session' = "Closed" /\ mem' = NoMemory
        /\ UNCHANGED <<synced, acked>>
    BY <1>3 DEF Crash
  <2>2. StoreInv(disk') /\ StoreInv(synced') /\ VerdictsKept(synced', disk')
    BY <1>1, <2>1 DEF IInv
  <2>3. StoreNotBehind(disk)' /\ StoreNotBehind(synced)'
    BY <2>1 DEF IInv, StoreNotBehind
  <2>4. SessionInv' /\ ReindexInv'
    BY <2>1 DEF IInv, SessionInv, ReindexInv
  <2>5. NoMemory \in Memory
    BY DEF NoMemory, Memory
  <2>6. IInv'
    BY <2>1, <2>2, <2>3, <2>4, <2>5 DEF IInv
  <2>7. StepOk
    BY <1>1, <2>1 DEF StepOk, AckedStep, ReindexStep, VerdictStep,
       AbstractStep, Abstract!Next, Abstract!Stop
  <2> QED
    BY <2>6, <2>7
<1> QED
  BY <1>2, <1>3

\* bootstrap is a legal step, whether or not its batch was synced.
LEMMA BootstrapStep ==
    ASSUME IInv, bootstrap
    PROVE  IInv' /\ StepOk
<1>1. session = "Closed" /\ disk.tip = NoBlock
  BY DEF bootstrap
<1>2. /\ acked = NoBlock /\ synced \in {EmptyDisk, AnchorDisk}
      /\ synced.health # "ReindexRequired"
  <2>1. acked = NoBlock /\ synced \in {EmptyDisk, AnchorDisk}
    BY <1>1, NoBlockAssumption DEF IInv, StoreNotBehind
  <2>2. EmptyDisk.health = "None"
    BY DEF EmptyDisk
  <2> QED
    BY <2>1, <2>2, AnchorStore
<1>3. VerdictsKept(synced, AnchorDisk) /\ VerdictsKept(AnchorDisk, AnchorDisk)
      /\ VerdictsKept(synced, synced)
  BY <1>2, AnchorStore DEF VerdictsKept
<1>4. EffectsOf(Anchor) = {} /\ Anchor \in Block /\ Anchor # NoBlock
  BY AncestorsAssumption, ParentAssumption, NoBlockAssumption DEF EffectsOf
<1>5. CASE /\ commit_durable(AnchorDisk)
           /\ mem' = [tip |-> Anchor, header_tip |-> Anchor, utxos |-> {}]
           /\ session' = "Healthy" /\ acked' = Anchor
  <2>1. disk' = AnchorDisk /\ synced' = AnchorDisk
    BY <1>5 DEF commit_durable
  <2>2. StoreInv(disk') /\ StoreInv(synced') /\ VerdictsKept(synced', disk')
    BY <1>3, <2>1, AnchorStore
  <2>3. StoreNotBehind(disk)' /\ StoreNotBehind(synced)'
    BY <1>4, <1>5, <2>1, AnchorStore DEF StoreNotBehind
  <2>4. SessionInv' /\ ReindexInv' /\ mem' \in Memory
    BY <1>4, <1>5, <2>1, AnchorStore DEF SessionInv, ReindexInv, Memory
  <2>5. IInv'
    BY <1>4, <1>5, <2>2, <2>3, <2>4 DEF IInv
  <2>6. AbstractStep
    BY <1>1, <1>2, <1>4, <1>5 DEF AbstractStep, Abstract!Next, Abstract!Start,
       Abstract!Improves
  <2>7. StepOk
    BY <1>2, <1>3, <1>5, <2>1, <2>6 DEF StepOk, AckedStep, ReindexStep,
       VerdictStep
  <2> QED
    BY <2>5, <2>7
<1>6. CASE disk' = AnchorDisk /\ UNCHANGED <<synced, mem, session, acked>>
  <2>1. StoreInv(disk') /\ StoreInv(synced') /\ VerdictsKept(synced', disk')
    BY <1>3, <1>6, AnchorStore DEF IInv
  <2>2. StoreNotBehind(disk)' /\ StoreNotBehind(synced)'
    BY <1>2, <1>6 DEF StoreNotBehind
  <2>3. SessionInv' /\ ReindexInv'
    BY <1>1, <1>2, <1>6 DEF SessionInv, ReindexInv
  <2>4. IInv'
    BY <1>6, <2>1, <2>2, <2>3 DEF IInv
  <2>5. StepOk
    BY <1>1, <1>2, <1>3, <1>6 DEF StepOk, AckedStep, ReindexStep, VerdictStep,
       AbstractStep
  <2> QED
    BY <2>4, <2>5
<1> QED
  BY <1>5, <1>6 DEF bootstrap

\* reopen is a legal step: the tip it reports is the acknowledged one or heavier.
LEMMA ReopenStep ==
    ASSUME IInv, reopen
    PROVE  IInv' /\ StepOk
<1>1. /\ session = "Closed" /\ disk.tip # NoBlock /\ disk.health = "Healthy"
      /\ mem' = [tip |-> disk.tip, header_tip |-> disk.preferred,
                 utxos |-> disk.utxos]
      /\ session' = "Healthy" /\ acked' = disk.tip /\ synced' = disk
      /\ UNCHANGED disk
  BY DEF reopen, ReopenOk, HealthyRecord
<1>2. disk.tip \in Block
  BY <1>1, DiskFields DEF IInv, StoreInv
<1>3. ActiveStore(disk) /\ PreferredStore(disk) /\ disk.utxos \subseteq Block
  BY <1>2, OpenStore DEF IInv
<1>4. ValidChain(disk.tip) /\ disk.utxos = EffectsOf(disk.tip)
      /\ disk.preferred \in Block
  BY <1>2, <1>3, AncestorEnds DEF ActiveStore, PreferredStore
<1>5. VerdictsKept(disk, disk) /\ VerdictsKept(synced, disk)
  BY DEF VerdictsKept, IInv
<1>6. IInv'
  <2>1. StoreInv(disk') /\ StoreInv(synced') /\ VerdictsKept(synced', disk')
    BY <1>1, <1>5 DEF IInv
  <2>2. StoreNotBehind(disk)' /\ StoreNotBehind(synced)'
    BY <1>1, <1>2, NoBlockAssumption DEF StoreNotBehind
  <2>3. SessionInv' /\ ReindexInv' /\ mem' \in Memory
    BY <1>1, <1>2, <1>3, <1>4 DEF SessionInv, ReindexInv, Memory
  <2> QED
    BY <1>1, <1>2, <2>1, <2>2, <2>3 DEF IInv
<1>7. /\ acked = NoBlock => disk.tip = Anchor
      /\ acked # NoBlock => disk.tip = acked \/ CumWork[disk.tip] > CumWork[acked]
  BY <1>1, AnchorStore DEF IInv, StoreNotBehind
<1>8. AbstractStep
  BY <1>1, <1>2, <1>4, <1>7
  DEF AbstractStep, Abstract!Next, Abstract!Start, Abstract!Improves,
      Abstract!ValidChain, Abstract!EffectsOf, ValidChain, EffectsOf
<1>9. StepOk
  BY <1>1, <1>5, <1>7, <1>8 DEF StepOk, AckedStep, ReindexStep, VerdictStep,
     IInv, ReindexInv
<1> QED
  BY <1>6, <1>9

-----------------------------------------------------------------------------
(* The theorems. *)

\* The empty database satisfies the invariant.
LEMMA InitInv == Init => IInv
<1> SUFFICES ASSUME Init PROVE IInv
  OBVIOUS
<1>1. StoreInv(disk) /\ StoreInv(synced) /\ VerdictsKept(synced, disk)
  BY AnchorStore DEF Init, VerdictsKept
<1>2. NoMemory \in Memory
  BY DEF NoMemory, Memory
<1>3. StoreNotBehind(disk) /\ StoreNotBehind(synced)
  BY DEF Init, StoreNotBehind
<1>4. SessionInv /\ ReindexInv
  BY DEF Init, SessionInv, ReindexInv, EmptyDisk
<1> QED
  BY <1>1, <1>2, <1>3, <1>4 DEF Init, IInv

\* Every step of the chain state keeps the invariant and is a legal step.
LEMMA NextInv == IInv /\ [Next]_vars => IInv' /\ [StepOk]_vars
<1> SUFFICES ASSUME IInv, [Next]_vars PROVE IInv' /\ [StepOk]_vars
  OBVIOUS
<1>1. CASE UNCHANGED vars
  <2>1. IInv'
    BY <1>1 DEF vars, IInv, StoreInv, ActiveStore, BodyStore, PreferredStore,
       VerdictsKept, StoreNotBehind, SessionInv, ReindexInv
  <2> QED
    BY <1>1, <2>1
<1>2. CASE Next
  <2>1. CASE bootstrap
    BY <2>1, BootstrapStep
  <2>2. CASE reopen
    BY <2>2, ReopenStep
  <2>3. CASE \E b \in Block \ {Anchor} : accept_header(b)
    BY <2>3, HeaderStep
  <2>4. CASE \E b \in Block \ {Anchor} : AcceptBlock(b)
    <3>1. PICK b \in Block \ {Anchor} : AcceptBlock(b)
      BY <2>4
    <3>2. CASE extend_active(b)
      BY <3>2, ExtendStep
    <3>3. CASE store_side_chain(b)
      BY <3>3, SideChainStep
    <3>4. ASSUME NEW f \in disk.active,
                 \/ refuse_deep_reorg(b, f)
                 \/ apply_reorg_plan(b, f)
                 \/ fail_reorg_plan(b, f)
          PROVE  IInv' /\ StepOk
      BY <3>4, DeepReorgStep, ApplyReorgStep, FailReorgStep
    <3> QED
      BY <3>1, <3>2, <3>3, <3>4 DEF AcceptBlock
  <2>5. CASE prune
    BY <2>5, PruneStep
  <2>6. CASE storage_error \/ Crash
    BY <2>6, FaultStep
  <2> QED
    BY <1>2, <2>1, <2>2, <2>3, <2>4, <2>5, <2>6 DEF Next
<1> QED
  BY <1>1, <1>2

\* IInv holds in every reachable state.
THEOREM Invariance == Spec => []IInv
<1>1. IInv /\ [Next]_vars => IInv'
  BY NextInv
<1> QED
  BY <1>1, InitInv, PTL DEF Spec

\* Every field of the two stores, the memory of the session, its health and the
\* acknowledged tip keep their types.
THEOREM TypeCorrect == Spec => []TypeOK
<1>1. IInv => TypeOK
  BY DEF IInv, StoreInv, TypeOK
<1> QED
  BY <1>1, Invariance, PTL

\* The active_height column is exactly the branch of the tip in both stores.
THEOREM ActiveColumn == Spec => []ActiveIsTipBranch
<1>1. IInv => ActiveIsTipBranch
  BY OpenedTip, OpenStore DEF IInv, ActiveStore, ActiveIsTipBranch, Stores
<1> QED
  BY <1>1, Invariance, PTL

\* The UTXO column and the UTXO set in memory hold the effects of the branch of
\* the tip and nothing else.
THEOREM UtxoColumn == Spec => []UtxosFollowTip
<1>1. IInv => UtxosFollowTip
  BY OpenedTip, OpenStore
  DEF IInv, ActiveStore, SessionInv, UtxosFollowTip, Stores
<1> QED
  BY <1>1, Invariance, PTL

\* Active blocks are fully validated, and a fully validated block has a branch
\* whose bodies all connect.
THEOREM Validity == Spec => []ActiveIsValid
<1>1. IInv => ActiveIsValid
  BY OpenedTip, OpenStore DEF IInv, ActiveStore, ActiveIsValid, Stores
<1> QED
  BY <1>1, Invariance, PTL

\* A healthy session, both stores and the last acknowledgement agree on the tip
\* and on the preferred header.
THEOREM Durability == Spec => []TipIsDurable
<1>1. IInv => TipIsDurable
  BY DEF IInv, SessionInv, TipIsDurable
<1> QED
  BY <1>1, Invariance, PTL

\* No usable stored body outweighs the tip, and the preferred header does not
\* weigh less.
THEOREM HeaviestIsActive == Spec => []HeaviestStored
<1>1. IInv => HeaviestStored
  BY OpenedTip, OpenStore
  DEF IInv, BodyStore, PreferredStore, HeaviestStored, Stores
<1> QED
  BY <1>1, Invariance, PTL

\* Index records, bodies and undo data stay in step through pruning, failed
\* branches and crashes.
THEOREM BodiesConsistent == Spec => []BodiesMatchIndex
<1>1. IInv => BodiesMatchIndex
  BY OpenedTip DEF IInv, BodiesMatchIndex, Stores
<1> QED
  BY <1>1, Invariance, PTL

\* An acknowledged tip is never lost or replaced by a lighter one.
THEOREM AckedMonotone == Spec => AckedOnlyGetsHeavier
<1>1. IInv /\ [Next]_vars => IInv' /\ [AckedStep]_vars
  BY NextInv DEF StepOk
<1> QED
  BY <1>1, Invariance, PTL DEF Spec, AckedOnlyGetsHeavier, AckedStep

\* A durable reindex request stops the node for good.
THEOREM ReindexStops == Spec => ReindexIsFinal
<1>1. IInv /\ [Next]_vars => IInv' /\ [ReindexStep]_vars
  BY NextInv DEF StepOk
<1> QED
  BY <1>1, Invariance, PTL DEF Spec, ReindexIsFinal, ReindexStep

\* No durable verdict on a body is ever changed.
THEOREM VerdictsStand == Spec => VerdictsAreFinal
<1>1. IInv /\ [Next]_vars => IInv' /\ [VerdictStep]_vars
  BY NextInv DEF StepOk
<1> QED
  BY <1>1, Invariance, PTL
  DEF Spec, VerdictsAreFinal, VerdictStep, VerdictsKept

\* Chainstate implements the abstract accepted chain: acknowledgements are the
\* accepted tip, a healthy session is one that serves.
THEOREM Implementation == Spec => ImplementsAcceptedChain
<1>1. Init => Abstract!Init
  BY DEF Init, Abstract!Init
<1>2. IInv /\ [Next]_vars => [Abstract!Next]_<<acked, session = "Healthy">>
  <2> SUFFICES ASSUME IInv, [Next]_vars
               PROVE  [Abstract!Next]_<<acked, session = "Healthy">>
    OBVIOUS
  <2>1. CASE UNCHANGED vars
    BY <2>1 DEF vars
  <2>2. CASE StepOk
    BY <2>2 DEF StepOk, AbstractStep
  <2> QED
    BY <2>1, <2>2, NextInv
<1> QED
  BY <1>1, <1>2, Invariance, PTL DEF Spec, ImplementsAcceptedChain, Abstract!Spec

=============================================================================
