------------------------------ MODULE LwwOrder ------------------------------
(***************************************************************************)
(* The order in which device sync lets one change of an entity replace     *)
(* another: should_apply_lww of crates/core/src/sync/app_sync_model.rs     *)
(* and the tombstone rule that apply_remote_event_lww_tx puts in front of  *)
(* it (crates/storage-sqlite/src/sync/app_sync/repository.rs).             *)
(*                                                                         *)
(* A change is a record with the fields op, ts and id.  ts is the          *)
(* client_timestamp in milliseconds: the code parses both RFC 3339 texts   *)
(* and compares timestamp_millis().  id stands for the UUIDv7 event_id;    *)
(* only its place in the lexicographic order matters, so it is a number.   *)
(* The textual fallback of should_apply_lww is left out: every             *)
(* client_timestamp is written by DateTime::to_rfc3339 and parses.         *)
(***************************************************************************)
EXTENDS Integers

Op == {"Create", "Update", "Delete"}

IsDelete(c) == c.op = "Delete"

\* A variant, to test Agreement: among equal timestamps the last to come wins.
LwwArrivalWins(held, incoming) == incoming.ts >= held.ts

\* should_apply_lww: the higher timestamp wins, the greater event id on a tie.
ShouldApplyLww(held, incoming) ==
    \/ incoming.ts > held.ts
    \/ incoming.ts = held.ts /\ incoming.id > held.id

\* A variant, to test DeletedStaysDeleted: a delete is a change like another.
TombstonesUnderLww(held, incoming) == ShouldApplyLww(held, incoming)

\* The match on the stored metadata in apply_remote_event_lww_tx: a delete
\* replaces any create or update, no create or update replaces a delete, and
\* the timestamps decide between changes of the same sort.
ShouldApply(held, incoming) ==
    \/ IsDelete(incoming) /\ ~IsDelete(held)
    \/ IsDelete(incoming) = IsDelete(held) /\ ShouldApplyLww(held, incoming)
=============================================================================
