---------------------------- MODULE JournalFrames ----------------------------
(***************************************************************************)
(* The operations of oregon-execution's ExecutionJournalV1: writes staged  *)
(* in a stack of frames over a committed state, with their entries and     *)
(* bytes counted.                                                          *)
(*                                                                         *)
(*   slot     <<domain, key>>                                              *)
(*   value    {} when there is none, {v} otherwise; a frame's write of {}  *)
(*            is JournalValue::Delete                                      *)
(*   frame    [writes, entries, bytes], writes a function on the slots     *)
(*            written                                                      *)
(*   journal  [frames, live_entries, retained_bytes, total_frames]         *)
(*   state    a function from slots to values.  A domain's root stands for *)
(*            the domain's contents.                                       *)
(***************************************************************************)
EXTENDS Integers, Sequences, FiniteSets, FiniteSetsExt, Functions

CONSTANTS
  Configured,           \* the domains the journal has snapshots of
  KeyLen(_),            \* the length of a slot's key
  ValueLen(_),          \* the length of the value v of {v}
  MaxDepth, MaxFrames, MaxEntries, MaxBytes,     \* JournalLimitsV1
  MaxKeyLen, MaxValueLen, MaxWriteSet            \* of oregon-contract-state

ASSUME JournalLimits ==
  /\ {MaxDepth, MaxFrames, MaxEntries, MaxBytes} \subseteq Nat \ {0}
  /\ MaxEntries <= MaxWriteSet

value_len(value) == IF value = {} THEN 0 ELSE ValueLen(value)

entry_bytes(slot, value) == KeyLen(slot) + value_len(value)

empty_frame == [writes |-> <<>>, entries |-> 0, bytes |-> 0]

journal_new ==
  [frames |-> <<empty_frame>>, live_entries |-> 0, retained_bytes |-> 0,
   total_frames |-> 1]

depth(j) == Len(j.frames)

top(j) == j.frames[Len(j.frames)]

(* Mutant: the oldest write of the slot is read.                            *)
ReadFirstFrame(j, n, state, slot) ==
  LET written == {i \in 1..n : slot \in DOMAIN j.frames[i].writes}
  IN IF written = {} THEN state[slot] ELSE j.frames[Min(written)].writes[slot]

(* The newest write of a slot at or below frame n, else the state's value.  *)
read_at(j, n, state, slot) ==
  LET written == {i \in 1..n : slot \in DOMAIN j.frames[i].writes}
  IN IF written = {} THEN state[slot] ELSE j.frames[Max(written)].writes[slot]

read(j, state, slot) == read_at(j, depth(j), state, slot)

slot_ok(slot) == slot[1] \in Configured /\ KeyLen(slot) <= MaxKeyLen

-----------------------------------------------------------------------------
begin_ok(j) == depth(j) + 1 <= MaxDepth /\ j.total_frames + 1 <= MaxFrames

begin_frame(j) ==
  [j EXCEPT !.frames = Append(@, empty_frame), !.total_frames = @ + 1]

revert_ok(j) ==
  /\ depth(j) # 1
  /\ j.live_entries >= top(j).entries
  /\ j.retained_bytes >= top(j).bytes

revert_frame(j) ==
  [j EXCEPT !.frames = SubSeq(@, 1, depth(j) - 1),
            !.live_entries = @ - top(j).entries,
            !.retained_bytes = @ - top(j).bytes]

-----------------------------------------------------------------------------
(* What a write of value to slot takes away from and adds to the counters   *)
(* of the top frame and of the journal.                                     *)
NewEntries(j, slot) == IF slot \in DOMAIN top(j).writes THEN 0 ELSE 1

OldBytes(j, slot) ==
  IF slot \in DOMAIN top(j).writes
    THEN entry_bytes(slot, top(j).writes[slot]) ELSE 0

stage_ok(j, slot, value) ==
  /\ slot_ok(slot) /\ value_len(value) <= MaxValueLen
  /\ j.live_entries + NewEntries(j, slot) <= MaxEntries
  /\ j.retained_bytes >= OldBytes(j, slot)
  /\ j.retained_bytes - OldBytes(j, slot) + entry_bytes(slot, value) <= MaxBytes
  /\ top(j).bytes >= OldBytes(j, slot)

Overlay(below, above) ==
  [s \in DOMAIN below \cup DOMAIN above |->
     IF s \in DOMAIN above THEN above[s] ELSE below[s]]

stage_write(j, slot, value) ==
  LET entries == NewEntries(j, slot)
      bytes == entry_bytes(slot, value) - OldBytes(j, slot)
      frame == [writes |-> Overlay(top(j).writes, [s \in {slot} |-> value]),
                entries |-> top(j).entries + entries,
                bytes |-> top(j).bytes + bytes]
  IN [j EXCEPT !.frames[depth(j)] = frame,
               !.live_entries = @ + entries,
               !.retained_bytes = @ + bytes]

-----------------------------------------------------------------------------
(* The parent's writes that the child's replace.                            *)
Replaced(j) ==
  DOMAIN top(j).writes \cap DOMAIN j.frames[depth(j) - 1].writes

ReplacedBytes(j) ==
  MapThenSumSet(LAMBDA s : entry_bytes(s, j.frames[depth(j) - 1].writes[s]),
                Replaced(j))

Merged(j) ==
  LET parent == j.frames[depth(j) - 1]
      child == top(j)
  IN [writes |-> Overlay(parent.writes, child.writes),
      entries |-> parent.entries + child.entries - Cardinality(Replaced(j)),
      bytes |-> parent.bytes + child.bytes - ReplacedBytes(j)]

commit_ok(j) ==
  /\ depth(j) # 1
  /\ Merged(j).entries >= 0 /\ Merged(j).bytes >= 0
  /\ j.live_entries >= Cardinality(Replaced(j))
  /\ j.retained_bytes >= ReplacedBytes(j)

commit_frame(j) ==
  [j EXCEPT !.frames = Append(SubSeq(@, 1, depth(j) - 2), Merged(j)),
            !.live_entries = @ - Cardinality(Replaced(j)),
            !.retained_bytes = @ - ReplacedBytes(j)]

-----------------------------------------------------------------------------
(* finalize: every domain's writes fit one write set and name a domain the  *)
(* journal has.  The result is the new contents of the domains whose root   *)
(* changed, which the caller applies to the state.                          *)
finalize_ok(j) ==
  /\ depth(j) = 1
  /\ \A d \in {s[1] : s \in DOMAIN top(j).writes} :
       /\ d \in Configured
       /\ Cardinality({s \in DOMAIN top(j).writes : s[1] = d}) <= MaxWriteSet

finalize(j, intent, state) ==
  LET after == Overlay(state, top(j).writes)
      written == IF intent = "reverted" THEN {}
                 ELSE {s[1] : s \in DOMAIN top(j).writes}
      changed == {d \in written :
                    \E s \in DOMAIN state : s[1] = d /\ after[s] # state[s]}
  IN [s \in {t \in DOMAIN state : t[1] \in changed} |-> after[s]]

Applied(state, transitions) == Overlay(state, transitions)
=============================================================================
