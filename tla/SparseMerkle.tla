---------------------------- MODULE SparseMerkle ----------------------------
(***************************************************************************)
(* The sparse Merkle tree of oregon-contract-state: a write set is applied *)
(* to a root held in a content-addressed store and gives a new root and    *)
(* the nodes and values to add (transition.rs); a value is read along its  *)
(* path (read_value), proved (prove), and a proof is checked against a     *)
(* root without the store (verify_proof).                                  *)
(*                                                                         *)
(* A hash is a tuple that names what was hashed, so two hashes are equal   *)
(* only when their preimages are: SHA-256 is assumed free of collisions.   *)
(* The tree is Depth levels deep where the code has 256.  An optional      *)
(* value is a set with at most one element.                                *)
(*                                                                         *)
(* The store is the caller's (trait StateSource).  It may lose an entry or *)
(* give back another one's content: every load is checked against the hash *)
(* that was asked for.                                                     *)
(***************************************************************************)
EXTENDS Naturals, Sequences, FiniteSets, SequencesExt, TLC

CONSTANTS Key, TreeValue,
          Depth,        \* SMT_DEPTH
          KeyPath,      \* KeyPath[k]: the bits of the hash of k, Depth of them
          WriteList,    \* the lists of writes that are submitted
          MaxWrites,   \* MAX_STATE_WRITE_SET_ENTRIES
          MaxApplied,   \* bound: write sets applied
          MaxFaults     \* bound: entries of the store that go bad

VARIABLES root,         \* the current root
          nodes,        \* hash -> node of the store
          values,       \* value hash -> value of the store
          contents,     \* ghost: Key -> optional value, written plainly
          past,         \* ghost: the <<root, contents>> there have been
          faults        \* number of entries that went bad

tree_vars == <<root, nodes, values, contents, past, faults>>

Option(S) == {{}} \cup {{x} : x \in S}

-----------------------------------------------------------------------------
(* Hashes and nodes (hash.rs, node.rs).                                     *)

path_key(k) == KeyPath[k]

path_bit(path, depth) == path[depth + 1]

value_hash(v) == <<"value", v>>

leaf_hash(path, vh) == <<"leaf", path, vh>>

branch_hash(depth, left, right) == <<"node", depth, left, right>>

empty_hashes ==
  LET at[d \in 0..Depth] == IF d = Depth THEN <<"empty">>
                            ELSE branch_hash(d, at[d + 1], at[d + 1])
  IN at

Leaf(path, vh) == [leaf |-> TRUE, path |-> path, value |-> vh]
Branch(depth, left, right) ==
  [leaf |-> FALSE, depth |-> depth, left |-> left, right |-> right]

(* Such a branch has no hash (NonCanonicalEmptyBranch).                     *)
BothEmpty(n) == /\ n.left = empty_hashes[n.depth + 1]
                /\ n.right = empty_hashes[n.depth + 1]

node_hash(n) == IF n.leaf THEN leaf_hash(n.path, n.value)
                ELSE branch_hash(n.depth, n.left, n.right)

(* Mutant: what the store gives is not hashed.                              *)
LoadUnhashed(h, depth) ==
  {n \in {nodes[x] : x \in {h} \cap DOMAIN nodes} :
     IF n.leaf THEN depth = Depth ELSE depth < Depth /\ n.depth = depth}

(* The node of hash h at a depth, or none when the store fails the load.    *)
load_checked_node(h, depth) ==
  {n \in {nodes[x] : x \in {h} \cap DOMAIN nodes} :
     /\ node_hash(n) = h
     /\ IF n.leaf THEN depth = Depth
        ELSE depth < Depth /\ n.depth = depth /\ ~BothEmpty(n)}

load_checked_value(vh) ==
  {v \in {values[x] : x \in {vh} \cap DOMAIN values} : value_hash(v) = vh}

-----------------------------------------------------------------------------
(* Write sets.  A write is [key, value]; an empty value deletes.  A         *)
(* prepared set maps a path to the value put there: the list is sorted by   *)
(* path, so the writes under a node are those with that bit at its depth.   *)

PreparedWrites(ws) ==
  [p \in {path_key(ws[i].key) : i \in 1..Len(ws)} |->
     (CHOOSE i \in 1..Len(ws) : path_key(ws[i].key) = p)]

state_write_set_ok(ws) ==
  /\ Len(ws) <= MaxWrites
  /\ \A i, j \in 1..Len(ws) :
       path_key(ws[i].key) = path_key(ws[j].key) => i = j

Unchanged(h) == [ok |-> TRUE, hash |-> h, nodes |-> {}, values |-> {}]
Failed == [Unchanged(<<"empty">>) EXCEPT !.ok = FALSE]

(* record_value: a value the store has must be that value.                  *)
record_value(v) ==
  IF value_hash(v) \in DOMAIN values
    THEN [ok |-> load_checked_value(value_hash(v)) = {v}, add |-> {}]
    ELSE [ok |-> TRUE, add |-> {v}]

PutLeaf(path, v) ==
  LET kept == record_value(v)
      n == Leaf(path, value_hash(v))
  IN IF kept.ok
       THEN [ok |-> TRUE, hash |-> node_hash(n), nodes |-> {n},
             values |-> kept.add]
       ELSE Failed

apply_leaf(h, path, write) ==
  IF h = empty_hashes[Depth]
    THEN IF write = {} THEN Unchanged(h)
         ELSE PutLeaf(path, CHOOSE v \in write : TRUE)
    ELSE LET loaded == load_checked_node(h, Depth)
             old == CHOOSE n \in loaded : TRUE
         IN CASE loaded = {} -> Failed
              [] loaded # {} /\ old.path # path -> Failed
              [] OTHER ->
                   IF load_checked_value(old.value) = {} THEN Failed
                   ELSE IF write = {} THEN Unchanged(empty_hashes[Depth])
                   ELSE IF {value_hash(v) : v \in write} = {old.value}
                     THEN Unchanged(h)
                   ELSE PutLeaf(path, CHOOSE v \in write : TRUE)

(* Mutant: an emptied branch becomes the default of the level below.        *)
CollapsedBelow(depth) == empty_hashes[depth + 1]

(* What a branch becomes once its two halves are empty.                     *)
collapsed(depth) == empty_hashes[depth]

Join(h, depth, old, l, r) ==
  LET below == [ok |-> TRUE, hash |-> h, nodes |-> l.nodes \cup r.nodes,
                values |-> l.values \cup r.values]
      n == Branch(depth, l.hash, r.hash)
  IN IF ~l.ok \/ ~r.ok THEN Failed
     ELSE IF l.hash = old[1] /\ r.hash = old[2] THEN below
     ELSE IF BothEmpty(n) THEN [below EXCEPT !.hash = collapsed(depth)]
     ELSE [below EXCEPT !.hash = node_hash(n), !.nodes = @ \cup {n}]

RECURSIVE apply_subtree(_, _, _)
apply_subtree(h, depth, writes) ==
  IF DOMAIN writes = {} THEN Unchanged(h)
  ELSE IF depth = Depth
    THEN LET p == CHOOSE q \in DOMAIN writes : TRUE
         IN apply_leaf(h, p, writes[p])
  ELSE LET loaded == load_checked_node(h, depth)
           n == CHOOSE x \in loaded : TRUE
           old == IF h = empty_hashes[depth]
                    THEN <<empty_hashes[depth + 1], empty_hashes[depth + 1]>>
                    ELSE <<n.left, n.right>>
           Half(b) == [p \in {q \in DOMAIN writes : path_bit(q, depth) = b}
                         |-> writes[p]]
       IN IF h # empty_hashes[depth] /\ loaded = {} THEN Failed
          ELSE Join(h, depth, old,
                    apply_subtree(old[1], depth + 1, Half(0)),
                    apply_subtree(old[2], depth + 1, Half(1)))

apply_write_set(ws) ==
  IF ~state_write_set_ok(ws) THEN Failed
  ELSE LET at == PreparedWrites(ws)
       IN apply_subtree(root, 0, [p \in DOMAIN at |-> ws[at[p]].value])

-----------------------------------------------------------------------------
(* Reads and proofs.  Descend follows a path from a root and stops at an    *)
(* empty subtree; siblings holds the hashes off the path, by depth.         *)

RECURSIVE Descend(_, _, _, _)
Descend(h, path, depth, siblings) ==
  IF h = empty_hashes[depth]
    THEN [ok |-> TRUE, value |-> {}, siblings |-> siblings]
  ELSE LET loaded == load_checked_node(h, depth)
           n == CHOOSE x \in loaded : TRUE
       IN IF loaded = {} THEN [ok |-> FALSE, value |-> {}, siblings |-> <<>>]
          ELSE IF depth = Depth
            THEN LET v == load_checked_value(n.value)
                 IN [ok |-> n.path = path /\ v # {}, value |-> v,
                     siblings |-> siblings]
          ELSE LET right == path_bit(path, depth) = 1
                   off == IF right THEN n.left ELSE n.right
               IN Descend(IF right THEN n.right ELSE n.left, path, depth + 1,
                          Append(siblings, off))

read_value(r, k) ==
  LET d == Descend(r, path_key(k), 0, <<>>)
  IN [ok |-> d.ok, value |-> d.value]

(* A proof: the depths whose sibling is not the empty subtree, and those    *)
(* siblings from the root down.                                             *)
prove(r, k) ==
  LET d == Descend(r, path_key(k), 0, <<>>)
      set == {i \in 0..(Len(d.siblings) - 1) :
                d.siblings[i + 1] # empty_hashes[i + 1]}
      in == SetToSortSeq(set, <)
  IN [ok |-> d.ok, value |-> d.value,
      proof |-> [bitmap |-> set,
                 siblings |-> [i \in 1..Len(in) |-> d.siblings[in[i] + 1]]]]

(* Mutant: a default sibling may be written out.                            *)
AnySibling(depth, s) == TRUE

(* A default sibling is never written out (RedundantDefaultSibling).        *)
sibling_allowed(depth, s) == s # empty_hashes[depth]

(* SparseMerkleProofV1::decode accepts these proofs and no others.          *)
decode_ok(proof) ==
  LET in == SetToSortSeq(proof.bitmap, <)
  IN /\ Len(proof.siblings) = Cardinality(proof.bitmap)
     /\ \A i \in 1..Len(in) : sibling_allowed(in[i] + 1, proof.siblings[i])

(* Climb hashes from the leaf to the root, taking siblings from the end.    *)
RECURSIVE Climb(_, _, _, _, _)
Climb(h, path, proof, depth, index) ==
  IF depth = 0 THEN [ok |-> index = 0, hash |-> h]
  ELSE LET d == depth - 1
           given == d \in proof.bitmap
           s == IF given THEN proof.siblings[index] ELSE empty_hashes[depth]
           up == IF path_bit(path, d) = 1 THEN branch_hash(d, s, h)
                 ELSE branch_hash(d, h, s)
       IN IF given /\ index = 0 THEN [ok |-> FALSE, hash |-> h]
          ELSE IF given /\ ~sibling_allowed(depth, s)
            THEN [ok |-> FALSE, hash |-> h]
          ELSE Climb(up, path, proof, d, IF given THEN index - 1 ELSE index)

verify_proof(k, value, proof, r) ==
  LET h == IF value = {} THEN empty_hashes[Depth]
           ELSE leaf_hash(path_key(k), value_hash(CHOOSE v \in value : TRUE))
      top == Climb(h, path_key(k), proof, Depth, Len(proof.siblings))
  IN top.ok /\ top.hash = r

-----------------------------------------------------------------------------
(* The owner of the store applies a write set and keeps what it adds.       *)

TreeInit ==
  /\ root = empty_hashes[0]
  /\ nodes = << >>
  /\ values = << >>
  /\ contents = [k \in Key |-> {}]
  /\ past = {<<empty_hashes[0], [k \in Key |-> {}]>>}
  /\ faults = 0

Apply(ws) ==
  LET t == apply_write_set(ws)
      Written(k) == {i \in 1..Len(ws) : ws[i].key = k}
  IN /\ Cardinality(past) <= MaxApplied
     /\ t.ok
     /\ root' = t.hash
     /\ nodes' = [h \in DOMAIN nodes \cup {node_hash(n) : n \in t.nodes} |->
                    IF h \in DOMAIN nodes THEN nodes[h]
                    ELSE CHOOSE n \in t.nodes : node_hash(n) = h]
     /\ values' = [h \in DOMAIN values \cup {value_hash(v) : v \in t.values}
                     |-> IF h \in DOMAIN values THEN values[h]
                         ELSE CHOOSE v \in t.values : value_hash(v) = h]
     /\ contents' = [k \in Key |->
                       IF Written(k) = {} THEN contents[k]
                       ELSE ws[CHOOSE i \in Written(k) : TRUE].value]
     /\ past' = past \cup {<<root', contents'>>}
     /\ UNCHANGED faults

(* A write set that is refused, or that meets a bad entry, changes nothing. *)
Refuse(ws) ==
  /\ ~apply_write_set(ws).ok
  /\ UNCHANGED tree_vars

(* An entry of the store is lost, or gives back another entry's content.    *)
LoseNode(h) ==
  /\ faults < MaxFaults
  /\ faults' = faults + 1
  /\ nodes' = [x \in DOMAIN nodes \ {h} |-> nodes[x]]
  /\ UNCHANGED <<root, values, contents, past>>

SwapNode(h, other) ==
  /\ faults < MaxFaults /\ h # other
  /\ faults' = faults + 1
  /\ nodes' = [nodes EXCEPT ![h] = nodes[other]]
  /\ UNCHANGED <<root, values, contents, past>>

SwapValue(h, v) ==
  /\ faults < MaxFaults /\ values[h] # v
  /\ faults' = faults + 1
  /\ values' = [values EXCEPT ![h] = v]
  /\ UNCHANGED <<root, nodes, contents, past>>

TreeNext ==
  \/ \E ws \in WriteList : Apply(ws) \/ Refuse(ws)
  \/ \E h \in DOMAIN nodes : LoseNode(h) \/ \E o \in DOMAIN nodes : SwapNode(h, o)
  \/ \E h \in DOMAIN values, v \in TreeValue : SwapValue(h, v)

TreeSpec == TreeInit /\ [][TreeNext]_tree_vars

-----------------------------------------------------------------------------
(* Properties.                                                              *)

(* The root of a subtree by definition: the hash of the values below it,    *)
(* the default hash when there is none.                                     *)
RECURSIVE RootOf(_, _, _)
RootOf(c, prefix, depth) ==
  LET below == {k \in Key : c[k] # {} /\ IsPrefix(prefix, path_key(k))}
  IN IF below = {} THEN empty_hashes[depth]
     ELSE IF depth = Depth
       THEN LET k == CHOOSE x \in below : TRUE
            IN leaf_hash(prefix, value_hash(CHOOSE v \in c[k] : TRUE))
     ELSE branch_hash(depth, RootOf(c, Append(prefix, 0), depth + 1),
                             RootOf(c, Append(prefix, 1), depth + 1))

(* The root depends on the contents alone: not on the order or grouping of  *)
(* the writes that led there, and not on keys put and deleted on the way;   *)
(* also when the store has bad entries, which may only stop a transition    *)
(* (apply_write_set, apply_subtree).                                        *)
RootIsCanonical == root = RootOf(contents, <<>>, 0)

(* Every root there has been still reads back the contents it was given     *)
(* for; with bad entries in the store a read gives an error or the right    *)
(* answer, never a wrong one (read_value, load_checked_node).               *)
ReadsFailClosed ==
  \A e \in past, k \in Key :
     LET r == read_value(e[1], k)
     IN (faults = 0 => r.ok) /\ (r.ok => r.value = e[2][k])

(* The proofs of every key under every root, and those proofs with a        *)
(* default sibling written out.                                             *)
Offered ==
  LET honest == {prove(e[1], k).proof : e \in past, k \in Key}
  IN honest \cup {[bitmap |-> p.bitmap \cup {Depth - 1},
                   siblings |-> Append(p.siblings, empty_hashes[Depth])] :
                     p \in {q \in honest : Depth - 1 \notin q.bitmap}}

(* A proof is accepted only for what the root really holds, presence or     *)
(* absence, whatever root or key it was made for; the proof made for the    *)
(* key is accepted, and no other (prove, verify_proof,                      *)
(* RedundantDefaultSibling).                                                *)
ProofsTellTruth ==
  faults = 0 =>
    \A k \in Key :
      /\ LET made == prove(root, k)
         IN /\ made.ok /\ made.value = contents[k]
            /\ decode_ok(made.proof)
            /\ verify_proof(k, made.value, made.proof, root)
      /\ \A v \in Option(TreeValue), p \in Offered :
           verify_proof(k, v, p, root) =>
             v = contents[k] /\ p = prove(root, k).proof

=============================================================================
