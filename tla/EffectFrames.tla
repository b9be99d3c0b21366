---------------------------- MODULE EffectFrames ----------------------------
(***************************************************************************)
(* The operations of the coordinator's EffectStackV1 (effects.rs): one     *)
(* frame for each open call, with the events it emitted and the bytes of   *)
(* events and return data it retains.                                      *)
(*                                                                         *)
(*   event    [emitter, bytes]                                             *)
(*   frame    [events, event_bytes, return_bytes]                          *)
(*   effects  [frames, total, live_events, live_bytes]                     *)
(***************************************************************************)
EXTENDS Integers, Sequences

CONSTANTS MaxCallDepth, MaxEvents, MaxEffectBytes,  \* CoordinatorLimitsV1
          MaxEffectFrames,                          \* MAX_COORDINATOR_FRAMES_V1
          MaxEventBytes       \* MAX_EXECUTION_EVENT_DATA_BYTES_V1

ASSUME EffectLimits ==
  {MaxCallDepth, MaxEvents, MaxEffectBytes, MaxEffectFrames} \subseteq Nat \ {0}

no_effects == [events |-> <<>>, event_bytes |-> 0, return_bytes |-> 0]

effects_new ==
  [frames |-> <<no_effects>>, total |-> 1, live_events |-> 0, live_bytes |-> 0]

FrameCount(e) == Len(e.frames)

top_effects(e) == e.frames[FrameCount(e)]

effects_begin_ok(e) ==
  FrameCount(e) + 1 <= MaxCallDepth /\ e.total + 1 <= MaxEffectFrames

effects_begin(e) ==
  [e EXCEPT !.frames = Append(@, no_effects), !.total = @ + 1]

(* Mutant: the child's events come before its caller's.                     *)
MergedReversed(parent, child) ==
  [events |-> child.events \o parent.events,
   event_bytes |-> parent.event_bytes + child.event_bytes,
   return_bytes |-> parent.return_bytes + child.return_bytes]

(* commit_frame appends the child's effects to its parent's.                *)
merged_effects(parent, child) ==
  [events |-> parent.events \o child.events,
   event_bytes |-> parent.event_bytes + child.event_bytes,
   return_bytes |-> parent.return_bytes + child.return_bytes]

effects_commit(e) ==
  [e EXCEPT !.frames =
     Append(SubSeq(@, 1, FrameCount(e) - 2),
            merged_effects(e.frames[FrameCount(e) - 1], top_effects(e)))]

retained_bytes(frame) == frame.event_bytes + frame.return_bytes

effects_revert_ok(e) ==
  /\ FrameCount(e) # 1
  /\ e.live_events >= Len(top_effects(e).events)
  /\ e.live_bytes >= retained_bytes(top_effects(e))

effects_revert(e) ==
  [e EXCEPT !.frames = SubSeq(@, 1, FrameCount(e) - 1),
            !.live_events = @ - Len(top_effects(e).events),
            !.live_bytes = @ - retained_bytes(top_effects(e))]

(* push_event_parts and reserve_event                                       *)
push_event_ok(e, bytes) ==
  /\ bytes <= MaxEventBytes
  /\ e.live_events + 1 <= MaxEvents
  /\ e.live_bytes + bytes <= MaxEffectBytes

push_event(e, emitter, bytes) ==
  [e EXCEPT !.frames[FrameCount(e)].events =
              Append(@, [emitter |-> emitter, bytes |-> bytes]),
            !.frames[FrameCount(e)].event_bytes = @ + bytes,
            !.live_events = @ + 1,
            !.live_bytes = @ + bytes]

retain_ok(e, bytes) == e.live_bytes + bytes <= MaxEffectBytes

retain_return_bytes(e, bytes) ==
  [e EXCEPT !.frames[FrameCount(e)].return_bytes = @ + bytes,
            !.live_bytes = @ + bytes]
=============================================================================
