------------------------------ MODULE StoreOpen ------------------------------
(***************************************************************************)
(* Opening the store (db.rs and schema.rs of oregon-storage): a new store  *)
(* gets the schema version, one of version 1.0 is migrated, and every      *)
(* write in between can fail or be the last before a crash.                *)
(*                                                                         *)
(* disk maps each key of chain_meta that takes part to {} or {value}; a    *)
(* tip is two keys.  plan holds the batches an open has still to write,    *)
(* each a function on some of the keys.                                    *)
(***************************************************************************)
EXTENDS Integers, Sequences, FiniteSets

CONSTANTS Tips,          \* the tips blocks and headers give, [id, height]
          MaxCrashes     \* bound: crashes and failed writes

Key == {"schema", "marker", "tip_id", "tip_height", "pref_id", "pref_height"}

VARIABLES disk, pc, plan, crashes

store_vars == <<disk, pc, plan, crashes>>

Keys(values) == [k \in Key |-> IF k \in DOMAIN values THEN values[k] ELSE {}]

TipKeys(t) == [tip_id |-> {t.id}, tip_height |-> {t.height}]

PreferredKeys(id, height) == [pref_id |-> id, pref_height |-> height]

(* A store before its first open, or left behind by version 1.0.            *)
StoreInit ==
  /\ disk \in {Keys(<<>>), Keys([schema |-> {"1.0"}])}
       \cup {[Keys(TipKeys(t)) EXCEPT !["schema"] = {"1.0"}] : t \in Tips}
  /\ pc = "down" /\ plan = <<>> /\ crashes = 0

-----------------------------------------------------------------------------
Applied(d, batch) ==
  [k \in Key |-> IF k \in DOMAIN batch THEN batch[k] ELSE d[k]]

(* read_tip_pair finds one key without the other.                           *)
Partial(d, id, height) == (d[id] = {}) # (d[height] = {})

database_has_no_user_records(d) == \A k \in Key : d[k] = {}

(* Mutant: a marker is taken for a migration that is done.                  *)
MarkerMeansDone(d) ==
  IF d["marker"] = {}
    THEN << [marker |-> {"1.0-1.1"}],
            [schema |-> {"1.1"}, marker |-> {}] >>
    ELSE <<>>

(* run_migration_1_0_to_1_1: the marker, unless a crash left it, and one    *)
(* batch with the preferred tip, the version and the end of the marker.     *)
migration(d) ==
  LET start == IF d["marker"] = {} THEN <<[marker |-> {"1.0-1.1"}]>> ELSE <<>>
      last == [schema |-> {"1.1"}, marker |-> {}]
      preferred ==
        IF d["pref_id"] = {} /\ d["tip_id"] # {}
          THEN [schema |-> {"1.1"}, marker |-> {},
                pref_id |-> d["tip_id"], pref_height |-> d["tip_height"]]
          ELSE last
  IN Append(start, preferred)

migration_refused(d) ==
  \/ d["marker"] \notin {{}, {"1.0-1.1"}}
  \/ Partial(d, "tip_id", "tip_height") \/ Partial(d, "pref_id", "pref_height")
  \/ d["pref_id"] # {} /\ <<d["pref_id"], d["pref_height"]>>
                            # <<d["tip_id"], d["tip_height"]>>

refused(d) ==
  CASE d["schema"] = {} -> ~database_has_no_user_records(d)
    [] d["schema"] = {"1.0"} -> migration_refused(d)
    [] d["schema"] = {"1.1"} -> d["marker"] # {}
    [] OTHER -> TRUE

planned(d) ==
  CASE d["schema"] = {} -> <<[schema |-> {"1.1"}]>>
    [] d["schema"] = {"1.0"} -> migration(d)
    [] OTHER -> <<>>

-----------------------------------------------------------------------------
(* open_internal up to its first write; it reads nothing it writes after.   *)
Open ==
  /\ pc = "down"
  /\ IF refused(disk)
       THEN pc' = "corrupt" /\ UNCHANGED <<disk, plan, crashes>>
       ELSE /\ pc' = "opening" /\ plan' = planned(disk)
            /\ UNCHANGED <<disk, crashes>>

(* sync_put or sync_write succeeds.                                         *)
WriteNext ==
  /\ pc = "opening" /\ plan # <<>>
  /\ disk' = Applied(disk, Head(plan)) /\ plan' = Tail(plan)
  /\ UNCHANGED <<pc, crashes>>

(* It fails, and may have reached the disk all the same; or the process     *)
(* dies, here or between two writes.  The program can be started again.     *)
Interrupted ==
  /\ pc \in {"opening", "open"} /\ crashes < MaxCrashes
  /\ \/ UNCHANGED disk
     \/ plan # <<>> /\ disk' = Applied(disk, Head(plan))
  /\ pc' = "down" /\ plan' = <<>> /\ crashes' = crashes + 1

(* The preferred tip is read once more before the store is handed out.      *)
Opened ==
  /\ pc = "opening" /\ plan = <<>>
  /\ pc' = IF Partial(disk, "pref_id", "pref_height") THEN "corrupt" ELSE "open"
  /\ UNCHANGED <<disk, plan, crashes>>

(* encode_operations: SetTip and SetPreferredHeaderTip are two puts each,   *)
(* of one durable batch.                                                    *)
set_tips(t, p) ==
  [tip_id |-> {t.id}, tip_height |-> {t.height},
   pref_id |-> {p.id}, pref_height |-> {p.height}]

Commit(t, p) ==
  /\ pc = "open"
  /\ disk' = Applied(disk, set_tips(t, p))
  /\ UNCHANGED <<pc, plan, crashes>>

StoreNext ==
  \/ Open \/ WriteNext \/ Interrupted \/ Opened
  \/ \E t, p \in Tips : Commit(t, p)

StoreSpec == StoreInit /\ [][StoreNext]_store_vars

(* The operator starts the program again, and what it does it goes on with. *)
StoreFairSpec == StoreSpec /\ WF_store_vars(Open) /\ WF_store_vars(WriteNext) /\ WF_store_vars(Opened)

-----------------------------------------------------------------------------
(* Once crashes stop the store comes up in the current version, and where   *)
(* there is an active tip it has a preferred header tip, as recovery        *)
(* expects: wherever a write failed or the program died, the marker, the    *)
(* version and the pairs of keys never disagree the way open_internal       *)
(* refuses.                                                                 *)
ComesUp ==
  <>(pc = "open" /\ disk["schema"] = {"1.1"} /\ (disk["tip_id"] # {} => disk["pref_id"] # {}))
=============================================================================
