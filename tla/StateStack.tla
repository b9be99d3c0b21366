----------------------------- MODULE StateStack -----------------------------
(***************************************************************************)
(* What a journal promises: every open frame has a whole state of its own. *)
(* A frame starts as a copy of the one below it, a write changes the top   *)
(* frame's copy, a revert forgets it and a commit puts it in place of the  *)
(* one below.  The state changes only when a journal ends as committed.    *)
(***************************************************************************)
EXTENDS Integers, Sequences

CONSTANTS Slot, Value

VARIABLES state, stack

vars == <<state, stack>>

Init == state \in [Slot -> Value] /\ stack = <<state>>

Begin == stack' = Append(stack, stack[Len(stack)]) /\ UNCHANGED state

Write(slot, value) ==
  stack' = [stack EXCEPT ![Len(stack)][slot] = value] /\ UNCHANGED state

Revert ==
  /\ Len(stack) > 1
  /\ stack' = SubSeq(stack, 1, Len(stack) - 1)
  /\ UNCHANGED state

Commit ==
  /\ Len(stack) > 1
  /\ stack' = Append(SubSeq(stack, 1, Len(stack) - 2), stack[Len(stack)])
  /\ UNCHANGED state

End ==
  /\ Len(stack) = 1
  /\ state' \in {state, stack[1]}
  /\ stack' = <<state'>>

Next ==
  \/ Begin \/ Revert \/ Commit \/ End
  \/ \E slot \in Slot, value \in Value : Write(slot, value)

Spec == Init /\ [][Next]_vars
=============================================================================
