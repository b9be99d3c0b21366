------------------------------ MODULE NodeCore ------------------------------
(***************************************************************************)
(* The node's core thread over the chain state (crate oregon-node), and    *)
(* the synchronization reads that run against it (crate oregon-sync).      *)
(*                                                                         *)
(* One thread owns the chain state and the mempool and handles commands    *)
(* from a bounded queue, one at a time.  Callers submit headers, blocks    *)
(* and transactions; a synchronization task builds a locator, serves       *)
(* headers or lists the bodies to fetch, with one command per value it     *)
(* reads, so the chain may change between two of its reads.  The core's    *)
(* steps are the actions of ChainState without restarts; the mempool is    *)
(* here only the tip it is built on.                                       *)
(***************************************************************************)
EXTENDS ChainState, Sequences, FiniteSetsExt, SequencesExt, TLC

CONSTANTS
    Caller,                    \* tasks that submit through OregonNode
    Workload,                  \* what they submit: the sets to choose from
    Sizes,                     \* bytes charged for a header, body, transaction, read
    Jobs,                      \* what the synchronization task may do
    Requests,                  \* GetHeaders requests to serve: locator, stop
    MAX_CORE_COMMANDS,         \* places of the queue
    MAX_CORE_COMMAND_BYTES,    \* bytes of queued and handled commands
    HEADER_VALIDATION_SLICE,   \* headers of one command
    MAX_HEADERS_PER_MESSAGE,
    MAX_LOCATOR_HASHES,
    DENSE_LOCATOR              \* entries after which the steps double

ASSUME QueueAssumption ==
    /\ MAX_CORE_COMMANDS \in Nat \ {0}
    /\ MAX_CORE_COMMAND_BYTES \in Nat
    /\ HEADER_VALIDATION_SLICE \in Nat \ {0}

VARIABLES
    pool,      \* Mempool.base
    queue,     \* envelopes in the channel
    hand,      \* the envelope the core handles: a sequence of at most one
    bytes,     \* free permits of the byte semaphore
    task,      \* the callers
    left,      \* submissions not yet made
    reader,    \* the synchronization task
    seen       \* history: header tips since the reader's job began

chain == <<disk, synced, mem, session, acked>>
core == <<pool, queue, hand, bytes>>
nodeVars == <<chain, core, task, left, reader, seen>>

Reader == "reader"

-----------------------------------------------------------------------------
(* The queue of the core. *)

Envelope(from, kind, arg, size) ==
    [from |-> from, kind |-> kind, arg |-> arg, size |-> size]

try_acquire_bytes(size) == size <= bytes

\* A place in the channel is free once the core received its envelope.
HasRoom == Len(queue) < MAX_CORE_COMMANDS

\* try_send, permit in hand: a full queue drops the envelope and its permit.
Send(env) ==
    IF HasRoom
    THEN /\ queue' = Append(queue, env)
         /\ bytes' = bytes - env.size
    ELSE UNCHANGED <<queue, bytes>>

\* The caller hears of a command that did not get in.
Accepted(env) == try_acquire_bytes(env.size) /\ HasRoom

try_send(env) ==
    IF try_acquire_bytes(env.size)
    THEN Send(env)
    ELSE UNCHANGED <<queue, bytes>>

-----------------------------------------------------------------------------
(* Callers. *)

Idle == [kind |-> "idle", rest |-> <<>>, waits |-> FALSE]

Slice(s) == SubSeq(s, 1, Min({Len(s), HEADER_VALIDATION_SLICE}))
AfterSlice(s) == SubSeq(s, HEADER_VALIDATION_SLICE + 1, Len(s))

\* The next command of a submission, and what is left to submit after it.
Command(c, kind, items) ==
    LET sent == IF kind = "Headers" THEN Slice(items) ELSE items
    IN  Envelope(c, kind, sent, Len(sent) * Sizes[kind])
SubmitStep(c, kind, items) ==
    LET env == Command(c, kind, items)
    IN  /\ try_send(env)
        /\ task' = [task EXCEPT ![c] =
                IF Accepted(env)
                THEN [kind |-> kind, waits |-> TRUE,
                      rest |-> IF kind = "Headers" THEN AfterSlice(items)
                               ELSE <<>>]
                ELSE Idle]

\* OregonNode::submit_headers, submit_block and submit_transaction.
Submit(c) ==
    /\ task[c] = Idle
    /\ \E s \in left :
         /\ left' = left \ {s}
         /\ SubmitStep(c, s.kind, s.items)
    /\ UNCHANGED <<chain, pool, hand, reader, seen>>

\* submit_headers goes on with its next slice, or the caller has its result.
\* A slice the queue refuses ends the call, the earlier ones stay accepted.
Answered(c) ==
    /\ task[c].kind # "idle"
    /\ ~task[c].waits
    /\ IF task[c].rest = <<>>
       THEN task' = [task EXCEPT ![c] = Idle] /\ UNCHANGED <<queue, bytes>>
       ELSE SubmitStep(c, "Headers", task[c].rest)
    /\ UNCHANGED <<chain, pool, hand, left, reader, seen>>

-----------------------------------------------------------------------------
(* The core thread. *)

\* The block of S at height h, as an option: a set of at most one element.
AtHeight(S, h) == {a \in S : Height[a] = h}

\* preferred_header_id_at_height: an error when the walk down from the header
\* tip meets an invalid record, none above the tip.  Errors and none both end
\* a synchronization read.
preferred_header_id_at_height(h) ==
    IF h > Height[mem.header_tip] \/ ~BranchUsable(disk, mem.header_tip, h)
    THEN {}
    ELSE AtHeight(Ancestors[mem.header_tip], h)

\* The header of that block.
preferred_header_at_height(h) == preferred_header_id_at_height(h)

active_id_at_height(h) == AtHeight(disk.active, h)

body_retained(b) == b \in disk.retained

\* The answer to a read.
Read(kind, arg) ==
    CASE kind = "ActiveTip" -> {mem.tip}
      [] kind = "PreferredHeaderTip" -> {mem.header_tip}
      [] kind = "ActiveIdAtHeight" -> active_id_at_height(arg)
      [] kind = "PreferredHeaderIdAtHeight" ->
            preferred_header_id_at_height(arg)
      [] kind = "PreferredHeaderAtHeight" -> preferred_header_at_height(arg)
      [] kind = "BodyRetained" -> {body_retained(arg)}

\* blocking_recv: the envelope leaves the channel, its permit stays taken.
Receive ==
    /\ hand = <<>>
    /\ queue # <<>>
    /\ hand' = <<Head(queue)>>
    /\ queue' = Tail(queue)
    /\ UNCHANGED <<chain, pool, bytes, task, left, reader, seen>>

Handling(kind) == hand # <<>> /\ hand[1].kind = kind

Done == hand' = <<[hand[1] EXCEPT !.kind = "Done", !.arg = <<>>]>>

\* Mutant: a command that meets a fault returns before its reply.
ReplyIfHealthy == task' = [task EXCEPT ![hand[1].from].waits = session # "Healthy"]

Reply == task' = [task EXCEPT ![hand[1].from].waits = FALSE]

\* The header tips the synchronization task may have been answered from.
Watch == seen' = IF reader.job = "idle" THEN seen
                 ELSE seen \cup {mem'.header_tip}

\* The next header of a Headers command.
CoreHeader ==
    /\ Handling("Headers")
    /\ LET b == Head(hand[1].arg)
       IN  \/ accept_header(b)
           \/ storage_error
           \/ ~ENABLED accept_header(b) /\ UNCHANGED chain
    /\ IF Len(hand[1].arg) = 1
       THEN Done /\ Reply
       ELSE /\ hand' = <<[hand[1] EXCEPT !.arg = Tail(@)]>>
            /\ UNCHANGED task
    /\ Watch
    /\ UNCHANGED <<pool, queue, bytes, left, reader>>


\* reconcile_after_acceptance: the pool is moved to the new tip, or replaced by
\* an empty one on it; a side chain and a refused block leave it alone.
reconcile_after_acceptance(old, new) == IF new = old THEN pool ELSE new

\* A Block command: accept_block, then the mempool, then the reply.
CoreBlock ==
    /\ Handling("Block")
    /\ LET b == hand[1].arg[1]
       IN  \/ AcceptBlock(b)
           \/ storage_error
           \/ ~ENABLED AcceptBlock(b) /\ UNCHANGED chain
    /\ pool' = reconcile_after_acceptance(mem.tip, mem'.tip)
    /\ Done /\ Reply /\ Watch
    /\ UNCHANGED <<queue, bytes, left, reader>>

\* A Transaction command: refused unless the session is healthy; admission
\* itself is the subject of Mempool.
CoreTransaction ==
    /\ Handling("Transaction")
    /\ Done /\ Reply
    /\ UNCHANGED <<chain, pool, queue, bytes, left, reader, seen>>

\* A read of the synchronization task.
CoreRead ==
    /\ hand # <<>> /\ hand[1].from = Reader /\ hand[1].kind # "Done"
    /\ reader' = [reader EXCEPT !.waits = FALSE,
                                !.got = Read(hand[1].kind, hand[1].arg)]
    /\ Done
    /\ UNCHANGED <<chain, pool, queue, bytes, task, left, seen>>

\* The envelope goes out of scope, after the reply: its bytes are free again.
Release == bytes' = bytes + hand[1].size

Drop ==
    /\ Handling("Done")
    /\ Release
    /\ hand' = <<>>
    /\ UNCHANGED <<chain, pool, queue, task, left, reader, seen>>

-----------------------------------------------------------------------------
(* The synchronization task. *)

\* locator_heights: from the tip down one by one, then in doubling steps, the
\* last place kept for the anchor.  at[i] is the i-th height and its step.
locator_heights(tip) ==
    LET at[i \in 1 .. MAX_LOCATOR_HASHES] ==
            IF i = 1 THEN [height |-> tip, step |-> 1]
            ELSE LET step == IF i - 1 >= DENSE_LOCATOR THEN 2 * at[i - 1].step
                             ELSE at[i - 1].step
                 IN  [step |-> step,
                      height |-> IF i = MAX_LOCATOR_HASHES THEN 0
                                 ELSE Max({0, at[i - 1].height - step})]
        n == Min({i \in 1 .. MAX_LOCATOR_HASHES : at[i].height = 0})
    IN  [i \in 1 .. n |-> at[i].height]

\* highest_locator_hit: the highest block of the path the locator names.
highest_locator_hit(locator, path) ==
    {b \in locator \cap path : \A c \in locator \cap path :
                                 Height[c] <= Height[b]}

\* validate_headers_response, as the requester applies it.
validate_headers_response(common, headers) ==
    /\ Len(headers) <= MAX_HEADERS_PER_MESSAGE
    /\ \A i \in DOMAIN headers :
         /\ headers[i] # Anchor
         /\ Parent[headers[i]] = IF i = 1 THEN common ELSE headers[i - 1]

NoJob ==
    [ job |-> "idle", pc |-> "idle", waits |-> FALSE, got |-> {}, common |-> 0,
      start |-> Anchor, stop |-> {}, top |-> 0, height |-> 0, id |-> Anchor,
      heights |-> <<>>, ids |-> <<>> ]

\* The task goes on with r and asks the core for a value; without a place in
\* the queue the view is unavailable and the job fails.
Ask(r, pc, kind, arg) ==
    LET env == Envelope(Reader, kind, arg, Sizes["Read"])
    IN  /\ try_send(env)
        /\ reader' = IF Accepted(env)
                     THEN [r EXCEPT !.pc = pc, !.waits = TRUE, !.got = {}]
                     ELSE [r EXCEPT !.pc = "failed", !.got = {}]

End(r, pc) ==
    /\ reader' = [r EXCEPT !.pc = pc, !.got = {}]
    /\ UNCHANGED <<queue, bytes>>

\* A synchronization job starts; a served request starts at the highest block
\* of its locator on the path the server knows.
Start ==
    /\ reader.job = "idle"
    /\ seen' = {mem.header_tip}
    /\ \/ /\ "targets" \in Jobs
          /\ Ask([reader EXCEPT !.job = "targets"], "active", "ActiveTip", 0)
       \/ /\ "locator" \in Jobs
          /\ Ask([reader EXCEPT !.job = "locator"], "locator_tip",
                 "PreferredHeaderTip", 0)
       \/ /\ "serve" \in Jobs
          /\ \E q \in Requests :
               \E c \in highest_locator_hit(q.locator,
                                             Ancestors[mem.header_tip]) :
                  Ask([reader EXCEPT !.job = "serve", !.start = c,
                                     !.common = Height[c], !.stop = q.stop],
                      "serve_tip", "PreferredHeaderTip", 0)
    /\ UNCHANGED <<chain, pool, hand, task, left>>

\* The task has the answer it waited for at pc; an empty answer ends the job.
At(pc) == reader.pc = pc /\ ~reader.waits /\ reader.got # {}
Got == CHOOSE v \in reader.got : TRUE

\* A read that found nothing ends the job.
Unavailable ==
    /\ reader.pc \notin {"idle", "done", "failed"}
    /\ ~reader.waits /\ reader.got = {}
    /\ End(reader, "failed")

\* build_locator.
LocatorTip ==
    /\ At("locator_tip")
    /\ LET heights == locator_heights(Height[Got])
       IN  Ask([reader EXCEPT !.heights = Tail(heights)], "locator_id",
               "PreferredHeaderIdAtHeight", Head(heights))

LocatorId ==
    /\ At("locator_id")
    /\ LET r == [reader EXCEPT !.ids = Append(@, Got)]
       IN  IF r.heights = <<>>
           THEN End(r, "done")
           ELSE Ask([r EXCEPT !.heights = Tail(@)], "locator_id",
                    "PreferredHeaderIdAtHeight", Head(r.heights))

\* Mutant: off by one, the common header is served again.
ServeFromCommon ==
    /\ At("serve_tip")
    /\ IF reader.common >= Height[Got]
       THEN End(reader, "done")
       ELSE Ask([reader EXCEPT !.top = Height[Got], !.height = reader.common],
                "serve_header", "PreferredHeaderAtHeight", reader.common)

\* headers_after_common_height.
ServeTip ==
    /\ At("serve_tip")
    /\ IF reader.common >= Height[Got]
       THEN End(reader, "done")
       ELSE Ask([reader EXCEPT !.top = Height[Got],
                               !.height = reader.common + 1],
                "serve_header", "PreferredHeaderAtHeight", reader.common + 1)

ServeHeader ==
    /\ At("serve_header")
    /\ LET r == [reader EXCEPT !.ids = Append(@, Got), !.height = @ + 1]
       IN  IF /\ Got \notin r.stop
              /\ r.height <= r.top
              /\ Len(r.ids) < MAX_HEADERS_PER_MESSAGE
           THEN Ask(r, "serve_header", "PreferredHeaderAtHeight", r.height)
           ELSE End(r, "done")

\* find_common_height.
CommonActive ==
    /\ At("active")
    /\ Ask([reader EXCEPT !.height = Height[Got]], "preferred",
           "PreferredHeaderTip", 0)

CommonPreferred ==
    /\ At("preferred")
    /\ LET h == Min({reader.height, Height[Got]})
       IN  Ask([reader EXCEPT !.height = h], "active_id",
               "ActiveIdAtHeight", h)

CommonActiveId ==
    /\ At("active_id")
    /\ Ask([reader EXCEPT !.id = Got], "preferred_id",
           "PreferredHeaderIdAtHeight", reader.height)

CommonPreferredId ==
    /\ At("preferred_id")
    /\ IF Got = reader.id
       THEN Ask([reader EXCEPT !.common = reader.height], "target_tip",
                "PreferredHeaderTip", 0)
       ELSE IF reader.height = 0
            THEN End(reader, "failed")
            ELSE Ask([reader EXCEPT !.height = @ - 1], "active_id",
                     "ActiveIdAtHeight", reader.height - 1)

\* Mutant: off by one, a tip right above the common height is left out.
TargetAboveNext ==
    /\ At("target_tip")
    /\ IF reader.common + 1 >= Height[Got]
       THEN End(reader, "done")
       ELSE Ask([reader EXCEPT !.top = Height[Got],
                               !.height = reader.common + 1],
                "target_id", "PreferredHeaderIdAtHeight", reader.common + 1)

\* missing_body_targets, from the common height up.
TargetTip ==
    /\ At("target_tip")
    /\ IF reader.common >= Height[Got]
       THEN End(reader, "done")
       ELSE Ask([reader EXCEPT !.top = Height[Got],
                               !.height = reader.common + 1],
                "target_id", "PreferredHeaderIdAtHeight", reader.common + 1)

TargetId ==
    /\ At("target_id")
    /\ Ask([reader EXCEPT !.id = Got], "retained", "BodyRetained", Got)

\* missing_body_targets lists the block unless its body is there, and goes on up
\* to the tip it began with.
TargetRetained ==
    /\ At("retained")
    /\ LET r == [reader EXCEPT !.ids = IF Got THEN @ ELSE Append(@, reader.id)]
       IN  IF r.height = r.top
           THEN End(r, "done")
           ELSE Ask([r EXCEPT !.height = @ + 1], "target_id",
                    "PreferredHeaderIdAtHeight", r.height + 1)

SyncStep ==
    /\ \/ LocatorTip \/ LocatorId \/ ServeTip \/ ServeHeader
       \/ CommonActive \/ CommonPreferred \/ CommonActiveId
       \/ CommonPreferredId \/ TargetTip \/ TargetId \/ TargetRetained
       \/ Unavailable
    /\ UNCHANGED <<chain, pool, hand, task, left, seen>>

-----------------------------------------------------------------------------

\* spawn_core on a database that holds the anchor.
NodeInit ==
    /\ disk = AnchorDisk /\ synced = AnchorDisk
    /\ mem = [tip |-> Anchor, header_tip |-> Anchor, utxos |-> {}]
    /\ session = "Healthy" /\ acked = Anchor
    /\ pool = Anchor
    /\ queue = <<>> /\ hand = <<>>
    /\ bytes = MAX_CORE_COMMAND_BYTES
    /\ task = [c \in Caller |-> Idle]
    /\ left \in Workload
    /\ reader = NoJob
    /\ seen = {}

CoreStep ==
    Receive \/ CoreHeader \/ CoreBlock \/ CoreTransaction \/ CoreRead \/ Drop

NodeNext ==
    \/ CoreStep
    \/ \E c \in Caller : Submit(c) \/ Answered(c)
    \/ Start
    \/ SyncStep

NodeSpec == NodeInit /\ [][NodeNext]_nodeVars

\* The core thread runs, and a task that was answered goes on.
NodeFairSpec ==
    /\ NodeSpec
    /\ WF_nodeVars(CoreStep)
    /\ WF_nodeVars(SyncStep)
    /\ \A c \in Caller : WF_nodeVars(Answered(c))

-----------------------------------------------------------------------------
(* Properties. *)


Finished(job) == reader.job = job /\ reader.pc = "done"
Ids == Range(reader.ids)

\* missing_body_targets reads the chain in many commands.  If the preferred
\* header tip stayed the same meanwhile, the list names every body missing on
\* its branch, however the active chain moved below it.
TargetsComplete ==
    Finished("targets") =>
        \A t \in seen :
            seen = {t} => EffectsOf(t) \subseteq Ids \cup disk.retained

\* As long as the preferred tip only moves up its own branch, a served
\* response passes the requester's validate_headers_response.
ServedFollowOnBranch ==
    /\ Finished("serve")
    /\ \A s, t \in seen : s \in Ancestors[t] \/ t \in Ancestors[s]
    => validate_headers_response(reader.start, reader.ids)

\* Every command that got into the queue is answered, and every
\* synchronization job ends, with a result or as unavailable.
CommandsAnswered ==
    /\ \A c \in Caller : task[c].waits ~> ~task[c].waits
    /\ (reader.job # "idle") ~> (reader.pc \in {"done", "failed"})

=============================================================================
