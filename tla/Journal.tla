------------------------------- MODULE Journal -------------------------------
(***************************************************************************)
(* One journal after another over the same state, each driven by any       *)
(* sequence of calls; a call that fails leaves the journal as it was.      *)
(***************************************************************************)
EXTENDS JournalFrames

CONSTANTS Slot,         \* the slots written, some of them refused
          Value,        \* {} and the values {v}
          InitState     \* the states a journal may start from

VARIABLES journal, state

journal_vars == <<journal, state>>

JournalInit ==
  /\ journal = journal_new
  /\ state \in InitState

Step(j) == journal' = j /\ UNCHANGED state

BeginFrame == begin_ok(journal) /\ Step(begin_frame(journal))

RevertFrame == revert_ok(journal) /\ Step(revert_frame(journal))

CommitFrame == commit_ok(journal) /\ Step(commit_frame(journal))

StageWrite(slot, value) ==
  /\ stage_ok(journal, slot, value)
  /\ Step(stage_write(journal, slot, value))

Finalize(how) ==
  /\ finalize_ok(journal)
  /\ state' = Applied(state, finalize(journal, how, state))
  /\ journal' = journal_new

JournalNext ==
  \/ BeginFrame \/ RevertFrame \/ CommitFrame
  \/ \E slot \in Slot, value \in Value : StageWrite(slot, value)
  \/ \E how \in {"committed", "reverted"} : Finalize(how)

JournalSpec == JournalInit /\ [][JournalNext]_journal_vars

-----------------------------------------------------------------------------
Abstract ==
  INSTANCE StateStack WITH
    stack <- [n \in 1..depth(journal) |->
                [slot \in Slot |-> read_at(journal, n, state, slot)]]

(* The journal implements a stack of whole states: what a read finds in     *)
(* frame n is what the n-th state holds (read_at, commit_frame,             *)
(* revert_frame, finalize).                                                 *)
ImplementsStack == Abstract!Spec
=============================================================================
