------------------------------- MODULE AppSync -------------------------------
(***************************************************************************)
(* Multi-device sync of portfolio data.  Every device keeps the rows of    *)
(* the synced entities in SQLite, queues each local change in sync_outbox, *)
(* pushes the queue to a server that keeps one append-only event log, and  *)
(* replays the log page by page with last-writer-wins metadata.  A device  *)
(* can also be bootstrapped from a snapshot that another device uploaded.  *)
(*                                                                         *)
(*   tables      crates/storage-sqlite/src/sync/app_sync/repository.rs     *)
(*   sync cycle  run_sync_cycle in crates/device-sync/src/engine/mod.rs    *)
(*   bootstrap   apps/server/src/api/device_sync_engine.rs                 *)
(*                                                                         *)
(* The server is not in this repository: it is modelled from how the       *)
(* engine uses it.  It appends an event unless its id is in the log        *)
(* already, reports it as accepted or duplicate, and serves the log by     *)
(* position.                                                               *)
(***************************************************************************)
EXTENDS Integers, Sequences, FiniteSets, LwwOrder

CONSTANTS
    Device,        \* the trusted devices of one team
    Entity,        \* (SyncEntity, entity_id) pairs
    Baseline,      \* the entities that every device holds a row of at the start
    Reusable,      \* the entities whose id a later create may use again
    Unappliable,   \* <<device, entity>>: the device's schema refuses the rows
    Skew,          \* Skew[d]: how far the wall clock of d runs ahead
    PushLimit,     \* events in one push (500 in the code)
    PullLimit,     \* events in one page (500)
    PruneAbove,    \* cursor above which applied ids are pruned (20 000)
    PruneKeep,     \* positions that pruning leaves (10 000)
    MaxEvents,     \* bound: local changes in a behaviour
    MaxClock,      \* bound: clock ticks
    MaxSnapshots,  \* bound: uploaded snapshots
    MaxRestores    \* bound: devices that bootstrap again, each of them once

ASSUME SetsAssumption ==
    /\ Baseline \subseteq Entity
    /\ Reusable \subseteq Entity
    /\ Unappliable \subseteq Device \X Entity
    /\ Skew \in [Device -> Nat]

ASSUME LimitsAssumption ==
    /\ PushLimit \in Nat \ {0}
    /\ PullLimit \in Nat \ {0}
    /\ PruneAbove \in Nat
    /\ PruneKeep \in Nat
    /\ MaxEvents \in Nat
    /\ MaxClock \in Nat
    /\ MaxSnapshots \in Nat
    /\ MaxRestores \in Nat

Absent == -1     \* no row
Original == 0    \* the row the entity had before any event
NoMeta == 0      \* no sync_entity_metadata row
NoAnchor == -1   \* no snapshot upload under way

VARIABLES
    clock,      \* real time, in milliseconds
    events,     \* every change ever made; the index is the event id
    oplog,      \* the server's log: ids of accepted events in seq order
    snapshots,  \* the server's snapshots: [seq |-> oplog_seq, rows |-> image]
    rows,       \* rows[d][e]: Absent, Original or the id of the event it shows
    meta,       \* meta[d][e]: last_event_id of sync_entity_metadata, or NoMeta
    applied,    \* applied[d]: ids in sync_applied_events
    pending,    \* pending[d]: outbox ids with status Pending
    dead,       \* dead[d]: outbox ids with status Dead
    cursor,     \* cursor[d]: sync_cursor
    phase,      \* phase[d]: where the cycle of d stands
    batch,      \* batch[d]: pushed ids the server has not yet answered
    acked,      \* acked[d]: pushed ids answered as accepted or duplicate
    more,       \* more[d]: the cycle has events left to pull (has_more)
    lo,         \* lo[d]: local_cursor, the cycle's own copy of the cursor
    hi,         \* hi[d]: next_cursor of the page in hand
    pos,        \* pos[d]: last position of the page that has been replayed
    tx,         \* tx[d]: uncommitted tables of the batch transaction
    anchor,     \* anchor[d]: local_cursor a snapshot upload read, or NoAnchor
    restored    \* history: devices that have bootstrapped from a snapshot

serverVars == <<oplog, snapshots>>
tableVars == <<rows, meta, applied>>
outboxVars == <<pending, dead>>
pushVars == <<batch, acked>>
pageVars == <<more, lo, hi, pos, tx>>
cycleVars == <<phase, pushVars, pageVars>>
snapshotVars == <<anchor, restored>>
vars == <<clock, events, serverVars, tableVars, outboxVars, cursor, cycleVars,
          snapshotVars>>

Phase == {"idle", "push", "pull", "fetched", "batch", "fallback", "replayed"}

EventId == DOMAIN events

Event == [id : Nat, dev : Device, ent : Entity, op : Op, ts : Nat]
Row == Nat \cup {Absent, Original}
Tables(E) == [rows : [Entity -> Row], meta : [Entity -> E \cup {NoMeta}],
              applied : SUBSET E]

InLog(i) == \E k \in 1..Len(oplog) : oplog[k] = i

\* The writer actor runs one job at a time: no other write, and no immediate
\* transaction of a snapshot export, sees or disturbs an open batch.
WriterFree(d) == phase[d] # "batch"

InitialRow(e) == IF e \in Baseline THEN Original ELSE Absent

NoTx == [rows |-> [e \in Entity |-> Absent], meta |-> [e \in Entity |-> NoMeta],
         applied |-> {}]

Init ==
    /\ clock = 0
    /\ events = <<>>
    /\ oplog = <<>>
    /\ snapshots = <<>>
    /\ rows = [d \in Device |-> [e \in Entity |-> InitialRow(e)]]
    /\ meta = [d \in Device |-> [e \in Entity |-> NoMeta]]
    /\ applied = [d \in Device |-> {}]
    /\ pending = [d \in Device |-> {}]
    /\ dead = [d \in Device |-> {}]
    /\ cursor = [d \in Device |-> 0]
    /\ phase = [d \in Device |-> "idle"]
    /\ batch = [d \in Device |-> {}]
    /\ acked = [d \in Device |-> {}]
    /\ more = [d \in Device |-> FALSE]
    /\ lo = [d \in Device |-> 0]
    /\ hi = [d \in Device |-> 0]
    /\ pos = [d \in Device |-> 0]
    /\ tx = [d \in Device |-> NoTx]
    /\ anchor = [d \in Device |-> NoAnchor]
    /\ restored = {}

Tick ==
    /\ clock < MaxClock
    /\ clock' = clock + 1
    /\ UNCHANGED <<events, serverVars, tableVars, outboxVars, cursor, cycleVars,
                   snapshotVars>>

-----------------------------------------------------------------------------
(* Local changes: a repository writes the row, and the projected outbox     *)
(* record and its metadata in the same transaction.  The metadata is        *)
(* overwritten whatever it held, with the device's own wall clock.          *)
(* Event ids are UUIDv7: in the order of creation on one device, and in     *)
(* either order for two changes made on two devices within a millisecond.   *)
(* A change takes longer than that to travel, so two such changes may as    *)
(* well be taken in the order of their ids, which is what the model does.   *)

RowShown(i, op) == IF op = "Delete" THEN Absent ELSE i

\* The id is used for the first time, unless the entity reuses its id.
MayCreate(e) ==
    \/ e \in Reusable
    \/ e \notin Baseline /\ \A i \in EventId : events[i].ent # e

MayChange(d, e, op) ==
    IF op = "Create" THEN rows[d][e] = Absent /\ MayCreate(e)
                     ELSE rows[d][e] # Absent

LocalWrite(d, e, op) ==
    LET i == Len(events) + 1 IN
    /\ Len(events) < MaxEvents
    /\ WriterFree(d)
    /\ MayChange(d, e, op)
    /\ events' = Append(events, [id |-> i, dev |-> d, ent |-> e, op |-> op,
                                 ts |-> clock + Skew[d]])
    /\ rows' = [rows EXCEPT ![d][e] = RowShown(i, op)]
    /\ meta' = [meta EXCEPT ![d][e] = i]
    /\ pending' = [pending EXCEPT ![d] = @ \cup {i}]
    /\ UNCHANGED <<clock, serverVars, applied, dead, cursor, cycleVars, snapshotVars>>

-----------------------------------------------------------------------------
(* Push.  The cycle reads its cursor and the oldest pending records, the    *)
(* server takes them one by one, and the records it names in its reply are  *)
(* marked sent.  A record leaves the outbox relation `pending` then.        *)

\* list_pending_outbox: the oldest of the records that are due.
Oldest(due) == {i \in due : Cardinality({j \in due : j < i}) < PushLimit}

\* A record whose push failed waits for its next_retry_at; time is left out, so
\* any of the pending records may be due, and newer ones overtake the others.
\* A NOOP from the server with nothing due ends the cycle at once.
StartCycle(d) ==
    /\ phase[d] = "idle"
    /\ \E due \in SUBSET pending[d] :
          /\ due # {} \/ cursor[d] < Len(oplog)
          /\ phase' = [phase EXCEPT ![d] = IF due = {} THEN "pull" ELSE "push"]
          /\ batch' = [batch EXCEPT ![d] = Oldest(due)]
          /\ more' = [more EXCEPT ![d] = due = {}]
    /\ lo' = [lo EXCEPT ![d] = cursor[d]]
    /\ UNCHANGED <<clock, events, serverVars, tableVars, outboxVars, cursor, acked,
                   hi, pos, tx, snapshotVars>>

ServerAccepts(d) ==
    /\ phase[d] = "push"
    /\ \E i \in batch[d] :
          /\ \A j \in batch[d] : i <= j
          /\ oplog' = IF InLog(i) THEN oplog ELSE Append(oplog, i)
          /\ batch' = [batch EXCEPT ![d] = @ \ {i}]
          /\ acked' = [acked EXCEPT ![d] = @ \cup {i}]
    /\ UNCHANGED <<clock, events, snapshots, tableVars, outboxVars, cursor, phase,
                   pageVars, snapshotVars>>

EveryPendingId(d) == pending[d]    \* a variant, to test NoLostEdit

\* The ids that the reply names as accepted or duplicate.
SentIds(d) == acked[d]

PushReply(d) ==
    /\ phase[d] = "push"
    /\ batch[d] = {}
    /\ pending' = [pending EXCEPT ![d] = @ \ SentIds(d)]
    /\ acked' = [acked EXCEPT ![d] = {}]
    /\ more' = [more EXCEPT ![d] = lo[d] < Len(oplog)]
    /\ phase' = [phase EXCEPT ![d] = "pull"]
    /\ UNCHANGED <<clock, events, serverVars, tableVars, dead, cursor, batch, lo, hi,
                   pos, tx, snapshotVars>>

ResetCycle(d) ==
    /\ phase' = [phase EXCEPT ![d] = "idle"]
    /\ batch' = [batch EXCEPT ![d] = {}]
    /\ acked' = [acked EXCEPT ![d] = {}]
    /\ more' = [more EXCEPT ![d] = FALSE]
    /\ lo' = [lo EXCEPT ![d] = 0]
    /\ hi' = [hi EXCEPT ![d] = 0]
    /\ pos' = [pos EXCEPT ![d] = 0]
    /\ tx' = [tx EXCEPT ![d] = NoTx]

\* The server took nothing.  After a permanent error every record of the push
\* becomes a dead letter, after a key version mismatch perhaps only the stale.
PushRejected(d) ==
    /\ phase[d] = "push"
    /\ acked[d] = {}
    /\ \E dropped \in SUBSET (batch[d] \cap pending[d]) :
          /\ dead' = [dead EXCEPT ![d] = @ \cup dropped]
          /\ pending' = [pending EXCEPT ![d] = @ \ dropped]
    /\ ResetCycle(d)
    /\ UNCHANGED <<clock, events, serverVars, tableVars, cursor, snapshotVars>>

-----------------------------------------------------------------------------
(* Pull.  A page of the log after local_cursor, replayed in one transaction *)
(* of the writer actor; if one of its events cannot be applied the          *)
(* transaction rolls back and the events are replayed one by one, the       *)
(* failing ones skipped.  Then the cursor moves past the page.              *)

PageEnd(d) == IF lo[d] + PullLimit < Len(oplog) THEN lo[d] + PullLimit ELSE Len(oplog)

Fetch(d) ==
    /\ phase[d] = "pull"
    /\ more[d]
    /\ hi' = [hi EXCEPT ![d] = PageEnd(d)]
    /\ more' = [more EXCEPT ![d] = PageEnd(d) < Len(oplog)]
    /\ phase' = [phase EXCEPT ![d] = "fetched"]
    /\ UNCHANGED <<clock, events, serverVars, tableVars, outboxVars, cursor, pushVars,
                   lo, pos, tx, snapshotVars>>

TablesOf(d) == [rows |-> rows[d], meta |-> meta[d], applied |-> applied[d]]

Wins(t, i) ==
    LET held == t.meta[events[i].ent] IN
    IF held = NoMeta THEN TRUE ELSE ShouldApply(events[held], events[i])

\* The event is new to the tables and replaces what they hold.
TakesEffect(t, i) == i \notin t.applied /\ Wins(t, i)

\* apply_remote_event_lww_tx, on tables t.
Replay(t, i) ==
    LET e == events[i].ent IN
    IF TakesEffect(t, i)
      THEN [rows |-> [t.rows EXCEPT ![e] = RowShown(i, events[i].op)],
            meta |-> [t.meta EXCEPT ![e] = i],
            applied |-> t.applied \cup {i}]
      ELSE [rows |-> t.rows, meta |-> t.meta, applied |-> t.applied \cup {i}]

Fails(d, t, i) == TakesEffect(t, i) /\ <<d, events[i].ent>> \in Unappliable

Own(d, i) == events[i].dev = d

BeginBatch(d) ==
    /\ phase[d] = "fetched"
    /\ tx' = [tx EXCEPT ![d] = TablesOf(d)]
    /\ pos' = [pos EXCEPT ![d] = lo[d]]
    /\ phase' = [phase EXCEPT ![d] = "batch"]
    /\ UNCHANGED <<clock, events, serverVars, tableVars, outboxVars, cursor, pushVars,
                   more, lo, hi, snapshotVars>>

BatchStep(d) ==
    LET i == oplog[pos[d] + 1] IN
    /\ phase[d] = "batch"
    /\ pos[d] < hi[d]
    /\ \/ Own(d, i) /\ UNCHANGED tx
       \/ ~Own(d, i) /\ ~Fails(d, tx[d], i) /\ tx' = [tx EXCEPT ![d] = Replay(tx[d], i)]
    /\ pos' = [pos EXCEPT ![d] = @ + 1]
    /\ UNCHANGED <<clock, events, serverVars, tableVars, outboxVars, cursor, phase,
                   pushVars, more, lo, hi, snapshotVars>>

BatchRollback(d) ==
    LET i == oplog[pos[d] + 1] IN
    /\ phase[d] = "batch"
    /\ pos[d] < hi[d]
    /\ ~Own(d, i) /\ Fails(d, tx[d], i)
    /\ phase' = [phase EXCEPT ![d] = "fallback"]
    /\ pos' = [pos EXCEPT ![d] = lo[d]]
    /\ tx' = [tx EXCEPT ![d] = NoTx]
    /\ UNCHANGED <<clock, events, serverVars, tableVars, outboxVars, cursor, pushVars,
                   more, lo, hi, snapshotVars>>

SetTables(d, t) ==
    /\ rows' = [rows EXCEPT ![d] = t.rows]
    /\ meta' = [meta EXCEPT ![d] = t.meta]
    /\ applied' = [applied EXCEPT ![d] = t.applied]

BatchCommit(d) ==
    /\ phase[d] = "batch"
    /\ pos[d] = hi[d]
    /\ SetTables(d, tx[d])
    /\ tx' = [tx EXCEPT ![d] = NoTx]
    /\ phase' = [phase EXCEPT ![d] = "replayed"]
    /\ UNCHANGED <<clock, events, serverVars, outboxVars, cursor, pushVars, more, lo, hi,
                   pos, snapshotVars>>

NothingSkipped(d, i) == Own(d, i)    \* a variant, to test EveryEditDelivered

\* Own events are never replayed; one that cannot be applied is given up.
Skipped(d, i) == Own(d, i) \/ Fails(d, TablesOf(d), i)

FallbackStep(d) ==
    LET i == oplog[pos[d] + 1] IN
    /\ phase[d] = "fallback"
    /\ pos[d] < hi[d]
    /\ \/ Skipped(d, i) /\ UNCHANGED tableVars
       \/ /\ ~Own(d, i)
          /\ ~Fails(d, TablesOf(d), i)
          /\ SetTables(d, Replay(TablesOf(d), i))
    /\ pos' = [pos EXCEPT ![d] = @ + 1]
    /\ UNCHANGED <<clock, events, serverVars, outboxVars, cursor, phase, pushVars,
                   more, lo, hi, tx, snapshotVars>>

\* A variant, to test CursorCoversReplay: the cursor may move before the replay.
PageInHand(d) == phase[d] \in {"fetched", "replayed"}

\* The whole page has been replayed, in either way.
PageReplayed(d) ==
    \/ phase[d] = "replayed"
    \/ phase[d] = "fallback" /\ pos[d] = hi[d]

SeqAfterPage(d) == hi[d] + 1    \* a variant, to test TypeOK

NextCursor(d) == hi[d]

SetCursor(d) ==
    /\ PageReplayed(d)
    /\ cursor' = [cursor EXCEPT ![d] = NextCursor(d)]
    /\ lo' = [lo EXCEPT ![d] = NextCursor(d)]
    /\ hi' = [hi EXCEPT ![d] = 0]
    /\ pos' = [pos EXCEPT ![d] = 0]
    /\ phase' = [phase EXCEPT ![d] = "pull"]
    /\ UNCHANGED <<clock, events, serverVars, tableVars, outboxVars, pushVars, more, tx,
                   snapshotVars>>

Prunable(d) == {oplog[k] : k \in {n \in 1..Len(oplog) : n + PruneKeep <= lo[d]}}

EndCycle(d) ==
    /\ phase[d] = "pull"
    /\ ~more[d]
    /\ applied' = IF lo[d] > PruneAbove
                    THEN [applied EXCEPT ![d] = @ \ Prunable(d)]
                    ELSE applied
    /\ ResetCycle(d)
    /\ UNCHANGED <<clock, events, serverVars, rows, meta, outboxVars, cursor,
                   snapshotVars>>

\* A push without a reply, a failed pull, a pre-empted cycle or a crash of the
\* device: the records of a push stay pending whatever the server took, SQLite
\* rolls an open batch back and keeps what was committed.
CycleFails(d) ==
    /\ phase[d] # "idle"
    /\ ResetCycle(d)
    /\ UNCHANGED <<clock, events, serverVars, tableVars, outboxVars, cursor,
                   snapshotVars>>

-----------------------------------------------------------------------------
(* Snapshots.  generate_snapshot_now reads the local cursor, later exports  *)
(* the rows (never the sync metadata) and uploads them with that cursor as  *)
(* oplog_seq.  sync_bootstrap_snapshot_if_needed downloads a snapshot and   *)
(* restores it; it does not wait for a cycle that is under way.             *)

\* The upload is skipped when the latest snapshot covers the cursor already, but
\* goes on when asking for it fails: so it may go on in any case.
SnapshotBegin(d) ==
    /\ anchor[d] = NoAnchor
    /\ Len(snapshots) < MaxSnapshots
    /\ cursor[d] <= Len(oplog)
    /\ anchor' = [anchor EXCEPT ![d] = cursor[d]]
    /\ UNCHANGED <<clock, events, serverVars, tableVars, outboxVars, cursor, cycleVars,
                   restored>>

ServerCursor(d) == Len(oplog)    \* a variant, to test SnapshotCovers

\* base_seq of the upload, which the server keeps as oplog_seq.
BaseSeq(d) == anchor[d]

SnapshotUpload(d) ==
    /\ anchor[d] # NoAnchor
    /\ Len(snapshots) < MaxSnapshots
    /\ WriterFree(d)
    /\ snapshots' = Append(snapshots, [from |-> d, seq |-> BaseSeq(d),
                                       rows |-> rows[d]])
    /\ anchor' = [anchor EXCEPT ![d] = NoAnchor]
    /\ UNCHANGED <<clock, events, oplog, tableVars, outboxVars, cursor, cycleVars,
                   restored>>

SnapshotCancelled(d) ==
    /\ anchor[d] # NoAnchor
    /\ anchor' = [anchor EXCEPT ![d] = NoAnchor]
    /\ UNCHANGED <<clock, events, serverVars, tableVars, outboxVars, cursor, cycleVars,
                   restored>>

Restore(d) ==
    /\ d \notin restored
    /\ Cardinality(restored) < MaxRestores
    /\ WriterFree(d)
    /\ \E n \in 1..Len(snapshots) :
          /\ rows' = [rows EXCEPT ![d] = snapshots[n].rows]
          /\ cursor' = [cursor EXCEPT ![d] = snapshots[n].seq]
    /\ meta' = [meta EXCEPT ![d] = [e \in Entity |-> NoMeta]]
    /\ applied' = [applied EXCEPT ![d] = {}]
    /\ pending' = [pending EXCEPT ![d] = {}]
    /\ dead' = [dead EXCEPT ![d] = {}]
    /\ restored' = restored \cup {d}
    /\ UNCHANGED <<clock, events, serverVars, cycleVars, anchor>>

-----------------------------------------------------------------------------

CycleStep(d) ==
    \/ StartCycle(d)
    \/ ServerAccepts(d)
    \/ PushReply(d)
    \/ Fetch(d)
    \/ BeginBatch(d)
    \/ BatchStep(d)
    \/ BatchRollback(d)
    \/ BatchCommit(d)
    \/ FallbackStep(d)
    \/ SetCursor(d)
    \/ EndCycle(d)

Next ==
    \/ Tick
    \/ \E d \in Device :
          \/ \E e \in Entity, op \in Op : LocalWrite(d, e, op)
          \/ CycleStep(d)
          \/ PushRejected(d)
          \/ CycleFails(d)
          \/ SnapshotBegin(d)
          \/ SnapshotUpload(d)
          \/ SnapshotCancelled(d)
          \/ Restore(d)

Spec == Init /\ [][Next]_vars

\* The background loop runs one cycle after the other, and a cycle is a single
\* task: some step of it can always be taken next.  Failures are assumed to
\* stop at some time.  That includes a rejected push that drops no record: it
\* is the step CycleFails takes in the phase "push".  Rejections that drop
\* records may strike whenever they can.
FairSpec ==
    /\ Spec
    /\ \A d \in Device : WF_vars(CycleStep(d))
    /\ <>[][\A d \in Device : ~CycleFails(d)]_vars

-----------------------------------------------------------------------------
(* Properties.  Most are about the devices outside `restored`: a restore    *)
(* drops the metadata that last-writer-wins needs, and what that costs is   *)
(* stated separately.                                                       *)

\* Type correctness; a cursor and a page never run past the end of the log.
TypeOK ==
    /\ clock \in Nat
    /\ events \in Seq(Event)
    /\ oplog \in Seq(EventId)
    /\ snapshots \in Seq([from : Device, seq : 0..Len(oplog), rows : [Entity -> Row]])
    /\ rows \in [Device -> [Entity -> Row]]
    /\ meta \in [Device -> [Entity -> EventId \cup {NoMeta}]]
    /\ applied \in [Device -> SUBSET EventId]
    /\ pending \in [Device -> SUBSET EventId]
    /\ dead \in [Device -> SUBSET EventId]
    /\ cursor \in [Device -> 0..Len(oplog)]
    /\ phase \in [Device -> Phase]
    /\ batch \in [Device -> SUBSET EventId]
    /\ acked \in [Device -> SUBSET EventId]
    /\ more \in [Device -> BOOLEAN]
    /\ lo \in [Device -> 0..Len(oplog)]
    /\ hi \in [Device -> 0..Len(oplog)]
    /\ pos \in [Device -> 0..Len(oplog)]
    /\ tx \in [Device -> Tables(EventId)]
    /\ anchor \in [Device -> (0..Len(oplog)) \cup {NoAnchor}]
    /\ restored \in SUBSET Device

\* The event is in the log at a position up to n.
LoggedBy(i, n) == \E k \in 1..n : oplog[k] = i

\* d has replayed the whole log and the server has every change d made.
UpToDate(d) ==
    /\ cursor[d] = Len(oplog)
    /\ \A i \in EventId : events[i].dev = d => InLog(i)

\* The entity ids for which the design promises convergence on device d.
Regular(d, e) == e \notin Reusable /\ <<d, e>> \notin Unappliable

\* Two devices that are up to date show the same row of every entity,
\* whatever order the changes were made, pushed, paged, failed and retried in.
Agreement ==
    \A c, d \in Device \ restored : UpToDate(c) /\ UpToDate(d) =>
        \A e \in Entity : Regular(c, e) /\ Regular(d, e) => rows[c][e] = rows[d][e]

\* Once a delete is behind the cursor of a device, or was made on it, no older
\* or newer change from anywhere brings the row back.
Deletes(d) == {i \in EventId : IsDelete(events[i]) /\ (Own(d, i) \/ LoggedBy(i, cursor[d]))}

DeletedStaysDeleted ==
    \A d \in Device \ restored : \A i \in Deletes(d) :
        Regular(d, events[i].ent) => rows[d][events[i].ent] = Absent

\* What the row on d shows has taken event i into account.
Reflects(row, e, i) ==
    \/ row \in EventId /\ ~ShouldApply(events[row], events[i])
    \/ row = Absent /\ \E m \in EventId :
                          /\ events[m].ent = e
                          /\ IsDelete(events[m])
                          /\ ~ShouldApply(events[m], events[i])

\* The cursor never passes an event whose effect the rows do not reflect: a
\* crash between replay and cursor, a retried page or a local change made
\* while a page was in flight loses nothing.
CursorCoversReplay ==
    \A d \in Device \ restored : \A k \in 1..cursor[d] :
        LET e == events[oplog[k]].ent IN
        Regular(d, e) => Reflects(rows[d][e], e, oplog[k])

\* A change is pending until the server has it; only a permanent rejection
\* turns it into a dead letter.
NoLostEdit ==
    \A i \in EventId : LET d == events[i].dev IN
        d \in restored \/ i \in pending[d] \/ i \in dead[d] \/ InLog(i)

\* The rows of an uploaded snapshot reflect every event up to its oplog_seq,
\* although the cursor was read before the rows were exported.
SnapshotCovers ==
    \A n \in 1..Len(snapshots) : LET s == snapshots[n] IN
        s.from \notin restored => \A k \in 1..s.seq :
            LET e == events[oplog[k]].ent IN
            Regular(s.from, e) => Reflects(s.rows[e], e, oplog[k])
-----------------------------------------------------------------------------
(* The inductive invariant behind these properties.                         *)

\* The rows of tables t of d are what their metadata says, and the metadata
\* name changes that d made or that the server has.
RowsMatchMeta(d, t) ==
    \A e \in Entity :
        IF t.meta[e] = NoMeta
          THEN t.rows[e] = InitialRow(e)
          ELSE LET m == t.meta[e] IN
               /\ events[m].ent = e
               /\ t.rows[e] = RowShown(m, events[m].op)
               /\ Own(d, m) \/ InLog(m)

\* The metadata of t name event i, or one that wins over it.
Merged(t, i) ==
    LET m == t.meta[events[i].ent] IN
    m # NoMeta /\ ~ShouldApply(events[m], events[i])

\* What the metadata never forget: every change while the clocks of the devices
\* agree.  Otherwise a local change under a slow clock overwrites metadata that
\* win over it, but only those of a row that there is.
SameSkew == \A c, d \in Device : Skew[c] = Skew[d]
Lasting(c) == SameSkew \/ IsDelete(c)

\* t has merged the lasting ones among the changes of d, those it marks as applied
\* and the log up to n.
MergedUpTo(d, t, n) ==
    \A i \in EventId :
        /\ Regular(d, events[i].ent) /\ Lasting(events[i])
        /\ Own(d, i) \/ i \in t.applied \/ LoggedBy(i, n)
        => Merged(t, i)

\* The log position up to which the committed tables have merged the log.
Reached(d) ==
    IF phase[d] = "fallback" THEN pos[d]
    ELSE IF phase[d] = "replayed" THEN hi[d] ELSE cursor[d]

TablesSound ==
    \A d \in Device \ restored :
        RowsMatchMeta(d, TablesOf(d)) /\ MergedUpTo(d, TablesOf(d), Reached(d))

TxSound ==
    \A d \in Device \ restored : phase[d] = "batch" =>
        RowsMatchMeta(d, tx[d]) /\ MergedUpTo(d, tx[d], pos[d])

CycleSound ==
    \A d \in Device :
        /\ d \notin restored /\ phase[d] # "idle" => lo[d] = cursor[d]
        /\ phase[d] \in {"fetched", "batch", "fallback", "replayed"} => lo[d] <= hi[d]
        /\ phase[d] \in {"batch", "fallback"} => lo[d] <= pos[d] /\ pos[d] <= hi[d]
        /\ \A i \in acked[d] : InLog(i)
        /\ d \notin restored => anchor[d] <= cursor[d]

\* Ids number the events in order of creation, and timestamps never lie ahead
\* of the writer's clock.
EventsSound ==
    \A i \in EventId :
        events[i].id = i /\ events[i].ts <= clock + Skew[events[i].dev]

IInv ==
    /\ TypeOK
    /\ EventsSound
    /\ CycleSound
    /\ TablesSound
    /\ TxSound
    /\ NoLostEdit
    /\ SameSkew => SnapshotCovers

-----------------------------------------------------------------------------
(* Delivery, and the claims that the code does not keep.                    *)

\* Every device's cursor has passed the event.
Delivered(i) == \A d \in Device : LoggedBy(i, cursor[d])

\* Every change reaches every device or is rejected for good, although pushes
\* and pulls fail, and although some device cannot apply another event that
\* stands in the log before it.
EveryEditDelivered ==
    \A i \in 1..MaxEvents :
        (i \in EventId) ~> (Delivered(i) \/ \E d \in Device : i \in dead[d])

\* What run_sync_cycle asserts of the server's cursors and a restore relies on:
\* once a snapshot is in place the cursor of the device never moves backwards.
RestoredCursorNeverMovesBack ==
    [][\A d \in restored : cursor'[d] >= cursor[d]]_vars

\* "stale events/metadata never leak into the newly restored snapshot
\* baseline": on a device that has bootstrapped, an event of another device does
\* not replace a change that wins over it and that every snapshot covers.
StaleEventsStayOut ==
    \A d \in restored : \A k, n \in 1..cursor[d] :
        LET e == events[oplog[k]].ent IN
        /\ rows[d][e] = oplog[k]
        /\ events[oplog[n]].ent = e
        /\ \A m \in 1..Len(snapshots) : n <= snapshots[m].seq
        => ~ShouldApply(events[oplog[k]], events[oplog[n]])

\* A delete and a create that reuses the id converge as any other changes do.
AgreementOnReusedIds ==
    \A c, d \in Device \ restored : UpToDate(c) /\ UpToDate(d) => rows[c] = rows[d]
=============================================================================
