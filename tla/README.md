# TLA+ for donkeyfolio

donkeyfolio is a portfolio tracker: a Rust core over SQLite, a desktop shell (Tauri), an
HTTP server with the same services, a TypeScript frontend, add-ons. Most of it is
calculation and single-row CRUD. The part where many things happen at once is the
synchronisation of one user's data between several devices, through a server that is not in
this repository. Two more parts run concurrently inside one process: the pipeline that
recomputes portfolio snapshots after an edit, and the sync of market quotes. The project
covers these three, and inside the first the session of a device: enrolment, pairing,
bootstrap.

Paths below are relative to the repository's root.

## 1. The system

| Component | Where | State it keeps | Operations |
|---|---|---|---|
| App data sync | `crates/storage-sqlite/src/sync/app_sync/repository.rs`, `crates/core/src/sync/app_sync_model.rs`, `crates/device-sync/src/engine/mod.rs` | per device: rows of 22 synced tables, `sync_outbox`, `sync_entity_metadata`, `sync_applied_events`, `sync_cursor`, engine status | local write, push, pull, replay in a batch or one by one, move the cursor, prune |
| Snapshots and bootstrap | `apps/server/src/api/device_sync_engine.rs` (mirrored in `apps/tauri/src/commands/device_sync/`) | freshness gate, cancel flag, `sync_device_config` | export and upload a snapshot, download and restore one, reset the session |
| Write actor | `crates/storage-sqlite/src/db/write_actor.rs` | one connection, a queue of jobs | run a job in an immediate transaction, project its writes into the outbox, wake the sync loop |
| Background loop | `crates/device-sync/src/engine/mod.rs`, `engine/runtime.rs` | cycle mutex, task handle, wake permit | run a cycle, back off, sleep, debounce a wake-up, stop |
| Enrolment, keys, pairing | `crates/device-sync/src/enroll_service.rs`, server and Tauri commands | identity in the keyring, key epoch, flow map | enrol, initialise keys, reset, pair, confirm, approve, cancel |
| Domain events | `apps/server/src/domain_events/` | channel, pending batch, the running job | debounce, plan, recalculate |
| Market data providers | `crates/market-data/src/registry/` | circuit per provider, tokens per provider | allow, record success or failure, fall through |
| Quote sync | `crates/core/src/quotes/` | `quote_sync_state`, `quotes`, the locks in memory | plan, fetch, purge, store, mark, reconcile positions |
| Broker sync | `crates/connect/src/` | per-account sync state, import runs, token | fetch, upsert, retry |
| Portfolio snapshots | `crates/core/src/portfolio/snapshot/`, `crates/storage-sqlite/src/portfolio/snapshot/` | keyframes of daily holdings per account and for TOTAL | replay activities, write account by account, add up, prune old keyframes |
| Activities | `crates/core/src/activities/` | the activities, events | create, update, delete, bulk, upsert |
| Goals, limits, planning, health, fx, taxonomies, performance | `crates/core/src/` | their tables | CRUD and calculation |
| AI, HTTP plumbing, frontend, add-ons | `crates/ai`, `apps/`, `packages/`, `fork/` | user interface | outside this project |

How they interact. A repository changes a row through the write actor; the projection of
that write adds a record to `sync_outbox` and overwrites `sync_entity_metadata` in the same
transaction, and wakes the background loop. The loop runs `run_sync_cycle`: the due outbox
records are pushed, the server's log is pulled from the cursor on, each page is replayed in
one transaction of the write actor (or event by event when one of them fails), and the
cursor moves past the page. Pairing and bootstrap commands run beside the loop, on the same
tables: they reset the session, restore a snapshot, upload one. A pull, a restore and a
local write end in domain events, which the queue worker turns into portfolio
recalculations, for which quotes are fetched through the providers.

What is hard in it, in the order of weight:

1. Concurrency control by last writer wins with tombstones, over three tables that have to
   agree (rows, metadata, applied ids), while local writes go on.
2. Crashes and lost replies between any two of: server accepts, outbox marked sent, page
   committed, cursor stored.
3. Order: retries let newer records overtake older ones of the same device.
4. Snapshots: a cursor read before the export; a restore that discards the metadata; a
   restore that runs beside a cycle.
5. Progress: one event that cannot be applied must not block the log.
6. A session whose state is spread over keyring, SQLite, memory and server, with no
   transaction over two of them: pairing flows that are cancelled, dropped or interrupted.
7. Wake-ups and debouncing: no commit may go unnoticed, none be put off for ever.
8. Events merged into batches, jobs that compute from what they have read, writes in
   several transactions, and a prune that deletes old keyframes between any two of them: no
   day of a snapshot may be left wrong with nobody to repair it.
9. Two callers of the quote sync at one asset: a lock with skipping instead of waiting,
   plans made before the lock is taken, and a history of which only the ends are looked at.

`PROJECT.json` lists each hazard at its line, with the property that covers it or the
reason why none does.

## 2. Modules

| Module | What it is |
|---|---|
| `LwwOrder` | when one change of an entity replaces another: `should_apply_lww` and the tombstone rule |
| `AppSync` | devices, the server's log and snapshots: every step of the cycle, local writes, snapshots, restore |
| `MCAppSync` | values of the constants, symmetry and the action constraints of the runs |
| `AppSyncProofs` | type correctness |
| `AppSyncTables` | replacing is a strict total order on changes with different ids; lemmas about one device's tables: what a replay, a local write, a skip keep |
| `AppSyncAgreement` | the inductive invariant and the five safety theorems |
| `BackgroundLoop` | one device: commit, write observer, wake channel, wake worker, permit, background loop, debouncing, cycle mutex, start and stop |
| `BackgroundLoopProofs` | type correctness and no record left waiting |
| `SyncSession` | one device's session, await by await: enrolment, pairing, consent, bootstrap, gate, reset, cancel, crash |
| `SyncSessionProofs` | type correctness, obedience to the freshness gate, the position in the team's log, and the consent to an overwrite |
| `RecalcWorklist` | abstract: a list of days to recompute from which nothing leaves silently |
| `PortfolioRecalc` | edits, events, queue, planner, portfolio jobs, keyframes; implements `RecalcWorklist` |
| `MCPortfolioRecalc` | the databases the runs start from, and their calendar |
| `PortfolioRecalcProofs` | type correctness and the refinement |
| `PortfolioReplayProofs` | the snapshots show the replay of the activities: lemmas on keyframes and edits, the inductive invariant, one lemma for each kind of step |
| `QuoteSync` | the quotes of one asset between the periodic sync and the portfolio jobs |
| `MCQuoteSync` | the providers of the runs |
| `QuoteSyncProofs` | type correctness, one plan at work under the lock, and a history without holes |

How the modules meet. `PortfolioRecalc.Pull` is what `AppSync`'s page commits and restores
do to the activities of one device; `UpsertActivity` is what a broker sync does.
`SyncSession.Restore` is `AppSync.Restore` seen from the device's session instead of its
tables, and its peers are the other devices of `AppSync`. `QuoteSync.StartJob` and `EndJob`
are the beginning and the end of a job of `PortfolioRecalc`. They are composed by these
shared steps only, not in one state space.

`AppSync` takes for granted that cycles are run again and again; `BackgroundLoop` is about
why they are. The two meet in the cycle: `BackgroundLoop` sees of it only when it lists the
outbox (`LoopLists`, `ManualLists`) and that it ends.

### Correspondence of `AppSync`

| Model | Code |
|---|---|
| `rows[d][e]` | the row of the entity: absent, as it was at the start, or as the event with that id left it. Payloads are not told apart further: a payload is determined by its event |
| `meta[d][e]` | `sync_entity_metadata.last_event_id` (operation and timestamp are those of the event) |
| `applied`, `pending`, `dead`, `cursor` | `sync_applied_events`, `sync_outbox` by status, `sync_cursor` |
| `oplog`, `snapshots` | the server, external |
| `phase`, `batch`, `acked`, `more`, `lo`, `hi`, `pos` | the local variables of `run_sync_cycle` and where it stands |
| `tx` | the uncommitted tables of the batch transaction |
| `anchor` | `local_cursor` of `generate_snapshot_now` |
| `LocalWrite` | a repository's write with its projection (`insert_outbox_event`, `upsert_entity_metadata_preserving_seq`) |
| `StartCycle`, `ServerAccepts`, `PushReply`, `PushRejected` | `run_sync_cycle` up to the end of the push |
| `Fetch`, `BeginBatch`, `BatchStep`, `BatchRollback`, `BatchCommit`, `FallbackStep`, `SetCursor`, `EndCycle` | the pull loop |
| `CycleFails` | a retryable error, a lost reply, an aborted task, a crash |
| `SnapshotBegin`, `SnapshotUpload`, `SnapshotCancelled` | `generate_snapshot_now` |
| `Restore` | `restore_snapshot_tables_from_file` |

The steps are as small as the awaits of the code: between any two of them every other
device, the user of the same device and the snapshot commands may act. What happens inside
one transaction of the write actor is one step where nothing can be seen of it, and a
sequence of steps on `tx` for the batch, because reads go through other connections.

Abstractions, and why they are sound for the properties:

- *Time.* `ts` is `clock + Skew[d]`, in milliseconds. Event ids are UUIDv7, here the index
  of creation. Two changes made within one millisecond on two devices may have their ids in
  either order; as neither device has seen the other's change yet, the two creations can be
  swapped, so the order of creation is taken to be that of the ids.
- *Retry times.* `list_pending_outbox` leaves out records whose `next_retry_at` lies ahead.
  Time is left out: any subset of the pending records may be due.
- *Server.* Appends an event unless its id is in the log; takes all events of a push or
  none; serves pages in the order of positions. These are assumptions on code that is not
  here, read off the engine (`accepted` and `duplicate` are treated alike, a page is asked
  for by position). That a snapshot's `oplog_seq` is the uploaded `base_seq` is another.
- *Snapshots.* Export and upload are one step; nothing in between can change the exported
  file. `Restore` may strike at any time and take any snapshot, more than the conditions of
  `sync_bootstrap_snapshot_if_needed` allow; the runs that depend on that are the two
  violations, whose traces were checked against those conditions.
- *Failing events.* `Unappliable` holds the pairs of device and entity whose event makes
  SQLite refuse the row. Failures that depend on the other events of a page (deferred foreign
  keys) are left out.
- *Left out.* Encryption and key versions, engine status, `lock_version`, the outcomes
  `WAIT_SNAPSHOT` and `BOOTSTRAP_SNAPSHOT` of a reconcile, outbox pruning (sent records are
  no longer looked at), records with an invalid entity id, `reset_local_sync_session`.

### Correspondence of `BackgroundLoop`

| Model | Code |
|---|---|
| `fresh` | a record was committed and no cycle has called `list_pending_outbox` since |
| `writer` | the write actor between the commit of a job and its observer |
| `wakes`, `HasRoom` | the channel of 128 tokens, filled with `try_send` |
| `worker`, `wasRunning` | where `start_sync_outbox_wake_worker` stands, and its local variable |
| `permit` | the permit `tokio::sync::Notify` stores for its one waiter; a waiter that is dropped hands a notification back |
| `loop`, `nap`, `notReady` | where `run_background_loop` stands, and its local variables. `ending`: the loop is left, `is_finished` is still false |
| `holder` | `cycle_mutex` |
| `manual` | one command that runs a cycle beside the loop; a bound, for more of them would only hold the mutex longer |
| `identity` | the sync identity; it may change at any time |
| `StopCommand` | `abort`: the task is dropped at its next await, its mutex guard with it |
| `Restart` | the process ends; the outbox and the identity survive. Nothing is started, because the server starts the loop only if the cloud answers that the device is ready |

A step is the code between two awaits. Left out: the lengths of the delays (only their sort:
within seconds, the period, the back-off), the pruning of the outbox, errors when the outbox
is read (taken as "nothing pending" by the code).

### Correspondence of `SyncSession`

| Model | Code |
|---|---|
| `secret` | the sync identity in the keyring: device id and epoch of the root key |
| `config`, `cursor`, `stale`, `rows` | SQLite: `sync_device_config`, `sync_cursor`, the engine status of the last cycle, and whose the rows of the synced tables are |
| `memGate`, `flow`, `approvals` | memory of the server process: freshness gates, the pairing flow, the kept approvals of a ready-state overwrite |
| `ui` | what the page shows: it decides which request may come next |
| `req[slot]` | a request being handled and the await it stands at. `main` is the one request at a time the page sends, `cancel` the cancellation that may run beside a poll or an approval |
| `cloud` | the server: trust of each device, key epoch, the latest snapshot and whether it covers the log, whether another device is left |
| `round` | pairings so far, the only time scale that gates and snapshots are compared on |
| `EnableSync` .. `SaveKey` | `enable_sync_inner`, `initialize_e2ee_keys`, `reinitialize_sync` |
| `BeginPairing` .. `CheckRows`, `PollFlow`, `ApproveOverwrite` | `begin_pairing_confirm`, `get_pairing_flow_state_handler`, `approve_pairing_overwrite_handler` |
| `CaptureGate` .. `MarkBootstrapped` | `sync_bootstrap_snapshot_if_needed`, whoever calls it; `Conclude` is what each caller does with the outcome |
| `CancelFlow` .. `ClearGate`, `ClearSyncData` | `cancel_pairing_flow_handler`, `abort_pairing_flow_local_state`, `clear_sync_data` |
| `RequestFails`, `Reload`, `Crash` | a call fails, the handler's future is dropped with the page, the process dies |

Every await of a handler ends a step; the writes between two awaits are one. The shown state
of the device (`SyncState`) is a function of keyring and server, as in `get_sync_state`.
Left out: the issuing side of a pairing and the key exchange itself (a pairing starts when
the key bundle is there), key rotation, the cycles of the background loop (only that one
ends with `stale_cursor`), the desktop twins of the handlers, the leeway for clock skew in the
freshness check (a snapshot up to 120 seconds older than the gate is accepted; here the gate
is obeyed to the round). The first rows are not entered
while a flow waits: the code counts them once, when the pairing begins (a hazard in
`PROJECT.json`).

### Correspondence of `PortfolioRecalc`

| Model | Code |
|---|---|
| `activities`, `updating` | the stored activities; `update_activity` between its read and its write |
| `unsent`, `channel`, `pending` | a committed edit whose service call has not emitted yet; the unbounded channel; the batch the worker debounces |
| `jobs[r]` | a portfolio job of the worker or of an API request: its mode, accounts and first day, what it has computed, what it has still to write |
| `frames[a]`, `total` | the keyframes of an account and of TOTAL; a day without one shows the latest before it |
| `Month`, `Recent` | the calendar: the month of a day, and the first of the last 30 days |
| `missed` | a history variable: days whose recalculation failed or was lost with the process. No code reads it |
| `Commit` and the edits | the calls of the activity service, each with the event it emits |
| `PlanAccounts`, `PlanSince` | the planner's merge of a batch |
| `SeedDay`, `ResumeDay`, `RestartsForSplit`, `StartDay` | `determine_calculation_range_and_initial_state` |
| `Read` | everything a job reads before its first write, with the early return for accounts without activities |
| `OverwriteAll`, `DeleteRange`, `SaveRange` | the writes of one account: one transaction, or two |
| `ReplaceTotal`; `BeginAppend`, `AppendTotal`; `DeleteTotalRange`, `SaveTotalRange` | TOTAL, in the three modes: replaced as a whole, appended to day by day with a transaction for each, or deleted from a day on and saved |
| `Prune`, `PruneAfterSave`, `PruneAfterTotal`, `FailPrune` | `prune_old_calculated_snapshots`, the second transaction of `save_snapshots`: it runs after each range of an account or of TOTAL that is saved, over all accounts and TOTAL; an error is only logged |
| `Retained` | the days the prune leaves as they are: the last of each month, and those of a month that began in the last 30 days |

Holdings are abstracted to how often each activity has been counted: `Replay` of an account
gives, for every activity up to a day, one unit, doubled by every later split. An activity
that is counted twice, left out, or not adjusted for a split is visible in that; prices,
currencies, cash and lots are functions of it and left out.

Pruning takes keyframes away that nothing asks to be computed again. After it a day in the
middle of a past month shows an earlier month's keyframe, or nothing, so the properties
speak of the days in `Retained`. They hold there although a prune of one job may come between
any two steps of another, because the keyframe a month keeps is the one its last day shows,
and because a job that starts on the first day of a month resumes from such a day. A job
that starts *inside* a pruned month does not: with trades on 5 and 20 January only the
keyframe of the 20th is left, and an edit of the 15th is recalculated from what was there
before January, without the trade of the 5th; every later day is then wrong, and nobody owes
it. That is the case `pruned_seed` below. Replacing all keyframes of an account or of TOTAL,
and appending a day to TOTAL, are not followed by a prune. A caller's job answers for the
days of TOTAL it has still to append; if it fails halfway, they are missed.

`Cases` names seven situations in which the code does leave stale days behind; a run admits
none of them or exactly one. One has a run (`portfolio_pull_with_edits`). For each of the
others, too, TLC shows that `SnapshotsAreReplay` fails once it is admitted, with the bounds
of `portfolio_recalc` (for `concurrent_updates` the run has to start from a trade on the
third day: an update has read it, an import moves it to the first day, a job recalculates,
and the update writes it back with an event that names the third day only). They are listed
as hazards, with the case that shows them.

### Correspondence of `QuoteSync`

| Model | Code |
|---|---|
| `row` | the asset's `quote_sync_state`: known, day of closing, data source, errors |
| `quotes[p]` | the stored days whose quotes come from provider `p` |
| `locked` | the asset's entry in `SYNC_LOCKS` |
| `calls[c]`, `tasks[c]` | the call of `sync` of the periodic scheduler or of a portfolio job, and the plans it executes; `made` is the day of the plan and serves the bound on its delay only |
| `held`, `owed` | what the latest snapshot says of the position; an edit whose job has not started |
| `CategoryOf`, `Window` | `determine_sync_category`, `calculate_sync_window` |
| `Skip`, `Start`, `EndTask` | `sync_asset` up to the lock, and `SyncLockGuard` |
| `Answer`, `AnswerEmpty`, `FetchFails` | the provider registry, as a free choice over its outcomes |
| `Purge`, `Save`, `Mark`, `WriteSource` | `sync_asset` after the answer: each a transaction of its own |
| `Tick` | midnight, in the middle of anything; no more than `MaxDelay` midnights pass before a plan is carried out |

Lengths in days are constants, so that 45, 7, 5 and 30 can be 1 or 0. One asset, priced by the
market; no manual quotes, exchange rates, bonds, imports or `RefetchRecent`; a portfolio job
runs alone; circuit breaker and rate limiter are part of the free choice.

## 3. Properties

| Property | Says |
|---|---|
| `TypeOK` | types, and no cursor or page beyond the log |
| `Agreement` | up-to-date devices show the same rows |
| `DeletedStaysDeleted` | a delete that a device knows of is never undone on it |
| `CursorCoversReplay` | the cursor never passes an event the rows do not reflect |
| `NoLostEdit` | a change is pending, in the log, or a dead letter |
| `SnapshotCovers` | a snapshot's rows reflect the log up to its position |
| `EveryEditDelivered` | every change reaches every device or becomes a dead letter |
| `NoRecordLeftWaiting` | a committed record never waits for the periodic timer: a loop that sleeps for long has been told |
| `EveryRecordListed` | while the loop runs, every record is listed by a cycle, however often the user writes |
| `ConsentedOverwrite` | rows that were never shared are replaced only with consent |
| `GateObeyed` | no snapshot older than the stored gate is restored, also after restarts and cancelled flows |
| `CursorBelongs` | a device that is ready and bootstrapped has no cursor of a former team's log |
| `EventuallyBootstrapped` | a device that is ready gets bootstrapped, whatever was interrupted before |
| `SnapshotsAreReplay` | a retained day of an account that nobody is going to recompute shows what replaying the activities gives |
| `TotalIsSum` | on retained days TOTAL is the sum of what the accounts show, though each is pruned on its own |
| `ImplementsWorklist` | a day made out of date is owed, taken up, or written off in the open; it never drops out of sight |
| `EventuallyReflected` | after the last edit every retained day comes right, unless it was lost to a failure |
| `OneAtWork` | one plan works on an asset, and the lock is held exactly as long |
| `NoHole` | no day between stored days is missing, from the buffer before the first activity on |
| `EventuallyPriced` | an asset of an open position is priced from the buffer before its first activity to today |

The first seven are `AppSync`'s (the other modules have a `TypeOK` of their own). They are
stated for devices that have not bootstrapped (`restored`), because a restore drops
the metadata last-writer-wins compares with and the pending records, and for `Regular`
entities: those whose ids are not reused and whose rows the device can store. What the code
does outside of that is what the three violations of `AppSync` show.

`EventuallyBootstrapped` leaves out a device whose gate asks for a snapshot when no other
device is left to upload one. `TotalIsSum` is stated for accounts without splits, because
TOTAL is not rebuilt before `since` when a split makes an account restart. `NoHole`
speaks of the days somebody wants to see. The days of the margin before the buffer, which
only a backfill and a new asset's first sync store, may have holes when the margin is two
days longer than the overlap, as in the program (7 and 5; TLC shows it for 3 and 1 and a
provider whose history begins in the margin, when a resync runs beside a backfill). `NoHole`
also depends on the bound `MaxDelay`, the midnights that may pass before a plan is carried
out: one in the run, as many as `Overlap + 1`, two, in the theorem `NoHoleHolds`. With three
TLC shows a resync planned on day 1 that purges on day 4 what a plan of day 4 was made
to continue. With the five days of the program a plan would have to take most of a week to do
that, while each of its requests times out after 30 seconds.
`EventuallyPriced` speaks of assets that are not given up after `MAX_SYNC_ERRORS` and whose
row does not say that the position is closed.

## 4. Runs

| Run | Question | Bounds and why they suffice |
|---|---|---|
| `app_sync` | do devices converge, whatever fails? | 2 devices, 1 entity with a row at the start, 3 changes, push of 2, pages of 1. Two changes of one device and one of the other are the least that show an overtaken retry against a concurrent change; a page of 1 and 3 events give several pages to a cycle. Merging is per entity, so one is enough |
| `app_sync_snapshots` | is a snapshot complete? | 2 changes, 1 snapshot, 1 restore, pruning from position 2 on |
| `app_sync_delivery` | does every change arrive, and does a delete survive wrong clocks? | 2 entities, one of which a device refuses, pages of 2 so that a good and a bad event share a page; the clock of one device is one tick ahead of the other's, and time passes once. `TicksThatMatter` leaves out the ticks that alter no order: only a local change reads the clock, so a tick can be taken right after the change before it, and it matters only if that change was made under the fast clock and the next one is not |
| `background_loop` | can a commit go unnoticed, or be put off for ever? | a channel of 2 tokens, so that it fills and is drained of several at once; back-off after 1 cycle, so that it begins, grows and is reset. One bit of outbox, one writer, one command; nothing else is bounded, and the run covers behaviours of any length |
| `sync_session` | does a session stay consistent, and does it get going again? | 2 device ids, 2 teams, 2 pairings, 2 faults or removals. Two teams give a former log to go on from, two pairings an older and a newer gate and snapshot, two faults an interruption of the repair of an interruption |
| `portfolio_recalc` | can an edit be lost on its way into the snapshots, or what it left there be pruned away? | 2 accounts, 2 activities, 3 days, of which the first two are a past month and the third is recent; 3 steps from outside, 2 of them edits at most, the others failures, crashes or API jobs (767,989 states). Two days of one month are the least of which the prune takes one, with a seed on the other; the third day is computed from what is left. Two edits share a batch or meet a running job; the fault strikes every write and every prune |
| `quote_sync` | does the asset get its prices? | 1 provider, days 0..4 beginning on day 2, all lengths 1 but the grace after closing, which is 0, plans up to a day late, 2 errors allowed, 1 edit, resync or crash (1,022,768 states). Two midnights pass, in the middle of anything. The first activity is on day 1 or 2, so that the history asked for begins before the first stored day, which is the usual path, or at it once a backfill has been stored; for an active asset that takes the two plans of a call started apart. All five categories of `CategoryOf` occur and are carried out. With two providers the run would be too long, only the next one has them, and two days' delay is left to the theorem |
| `portfolio_pull_with_edits`, `quote_backfill`, `app_sync_restore_race`, `app_sync_stale`, `app_sync_reuse` | claims of the code that do not hold | the smallest bounds that show the trace |

`CHECK_DEADLOCK FALSE`: a behaviour stops when its bounds are used up and nothing is left to
do. `background_loop` checks deadlock. `SYMMETRY` is used where no constant tells the
devices apart and only invariants are checked.

*Fairness.* `AppSync`: weak fairness of the steps of each device's cycle — the background
loop runs one after the other, with delays but without end while the device is enrolled —
and the assumption that failures (`CycleFails`) stop at some time. A rejected push that drops
no record is the same step as a failed one, so it stops too: a server that refuses every push
and lets every record wait would deliver nothing. Nothing is assumed of rejections that drop
records, or of the user. `StartCycle` with nothing due is enabled only while the log is
ahead, so the fairness does not force empty cycles.

`BackgroundLoop`: weak fairness of tasks and timers; strong fairness of taking the cycle
mutex, which tokio grants in the order of the requests; and strong fairness of listing the
outbox, that is, a cycle that is run again and again gets past its early returns (server not
reachable, device not ready) at some time. Nothing is assumed of the user or of the quiet
time of the debouncing, so that only its maximal wait ends it.

`SyncSession`: weak fairness of the handlers, which run on once they are called. The page
polls a waiting flow and checks a ready device again and again (`Interface`), and a user who
is asked says yes some time (`Answer`); both only when no other request is under way, hence
strong fairness. The other device uploads a snapshot when one is asked for. Faults are
bounded by `MaxOthers`.

`PortfolioRecalc`: weak fairness of emitting, receiving, processing a batch and of the steps
of each job: they are tasks without a condition to wait for. Edits, API calls and faults are
bounded and need not happen.

`QuoteSync`: weak fairness of the scheduler, the jobs, the plans at work and of time. The
first plan of the periodic sync, when it is tried again and again, is answered and stored
some time (strong fairness): without that a provider that never answers would refute
everything. Nothing of the kind is assumed of a second plan.

### Findings

1. *A bootstrap beside a cycle moves the cursor back* (`app_sync_restore_race`). The restore
   does not take the cycle mutex. A cycle that has fetched a page stores its own
   `local_cursor` after the restore has set the cursor to the snapshot's position.
2. *Stale events do leak into a restored baseline* (`app_sync_stale`). The restore deletes
   the metadata, so an old change that was pushed late has nothing to lose against.
3. *Reused ids* (`app_sync_reuse`). The comment at the tombstone rule says that reusing an
   id requires a bootstrap; goal plans reuse their goal's id without one.
4. *A pull that shares a batch with an edit is narrowed to the edit*
   (`portfolio_pull_with_edits`). The event of a pull is documented as a full recalculation
   of all accounts. It carries neither accounts nor a date, so that in a batch with a dated
   event the planner takes the accounts and the date of that event only.
5. *The backfill of an active asset never runs* (`quote_backfill`). The recent window and the
   backfill of one asset are two plans of one call; they are started in the same breath, the
   first holds the asset's lock, and the second is skipped, each time anew.

## 5. Proofs

No module of the project declares a recursive operator, so that the proof modules can
extend them. Each theorem is for every value of the constants that the module's assumptions
allow, for unbounded numbers of steps, devices, accounts, providers and so on.

| Module | Theorem | Beyond the module's assumptions |
|---|---|---|
| `AppSyncTables` | `ShouldApplyIrreflexive`, `ShouldApplyTransitive`, `ShouldApplyTotal`: replacing is a strict total order on changes with different ids | |
| `AppSyncProofs` | `TypeCorrect` | |
| `AppSyncAgreement` | `InvariantHolds`, and from it `DeletedStaysDeletedHolds`; `NoLostEditHolds` | |
| `AppSyncAgreement` | `AgreementHolds`, `CursorCoversReplayHolds`, `SnapshotCoversHolds`, from `InvariantHolds` too | `SameSkew`: the clocks agree |
| `BackgroundLoopProofs` | `TypeCorrect`, `NoRecordLeftWaitingHolds` | |
| `SyncSessionProofs` | `TypeCorrect`, `CursorBelongsHolds`, `GateObeyedHolds` and `ConsentedOverwriteHolds` (action properties) | |
| `PortfolioRecalcProofs` | `TypeCorrect` | |
| `PortfolioRecalcProofs` | `ListImplemented`: `Spec` implements `RecalcWorklist` | `Plain`: no pull shares a batch with an edit, no split is removed |
| `PortfolioReplayProofs` | `ReplayShown`: `SnapshotsAreReplay`, and `TotalShown`: `TotalIsSum` | `Cases = {}`: none of the seven situations in which the code is known to leave stale days |
| `QuoteSyncProofs` | `LockHolds`, and from it `TypeCorrect` and `OneAtWorkHolds` | |
| `QuoteSyncProofs` | `NoHoleHolds` | `Cases = {}`: no earlier days become wanted, and no store fails after its purge. `SameHistory`: the providers' histories begin on the same day. `InTime`: `MaxDelay <= Overlap + 1` |

*Agreement.* `Agreement` is not inductive: it speaks of devices at rest. `IInv` says what
is true of the tables at every moment: (`TablesSound`) the rows are what the metadata say,
and the metadata name a change that wins over, or is, every change the device made, every
applied id and every event of the log up to `Reached(d)`, which is the cursor, or the
position within a page while one is being replayed; (`TxSound`) the same of the open batch
up to `pos`; (`CycleSound`) the cycle's own cursor is the stored one, page bounds are in
order, acknowledged ids are in the log; (`EventsSound`) ids are in order of creation and no
timestamp lies ahead of its writer's clock. The clock matters in one place, a local write:
it overwrites the metadata unconditionally, and forgets what it replaces if that was written
under a clock further ahead. So the invariant only speaks of changes that are `Lasting`: all
of them if the clocks agree, and the deletes if they do not, since no local change is made on
top of a delete (`WriteSparesDeleted`) and the tombstone rule does not look at the clock.
`DeletedStaysDeleted` therefore holds for any clocks. While they agree, two up-to-date
devices hold the greatest change of the same set, and `LwwOrder` is total. `AppSyncTables`
has the lemmas about one device's tables, `AppSyncAgreement` one lemma for each action.

*No record left waiting* is inductive as it stands, given `TypeOK`: `Signalled` names every
place where the news of a commit can be (the writer, the channel, the worker, the permit),
and the loop decides on a long sleep only after it has looked at the outbox. The worker's
stale `wasRunning` does no harm, because a loop that sleeps was there when it was read, or
has looked at the outbox since.

*The gate.* `GateObeyed` is about one step, the restore, but the gate it must obey was read
several awaits earlier. `GateInv` adds: (`GatesSound`) no gate is later than the last
pairing, and where memory holds one, the one in SQLite is not later; (`MainSound`) a pairing
request carries the gate of the last pairing, a request between its reading and its restore
has seen a gate at least as high as the one now stored for its device, and once it has
chosen a snapshot, that snapshot meets the stored gate or covered the log; (`CancelSound`)
the request that runs beside it only ever cancels. It is inductive because everything else
can lift a gate but not set one (`GatesFrame`).

*The log of a team.* `TeamInv` says (`TeamSound`) that a bootstrapped device which the server
has not revoked holds no position or one in the log of the present team, and (`TurnSound`)
what the request under way must not forget until it stores the position: a request that has
chosen a snapshot carries the epoch it was chosen in, one that is about to mark the device
as bootstrapped has set the position to 0, and so on for every step. The other devices do no
harm because they can only revoke devices, make keys once, and begin a new epoch without the
old devices (`CloudCalm`): whoever could be left with an old position is not let in.

*The consent.* It is given in one request and used in another, so `ConsentInv` follows it:
(`FlowSound`) which requests can be under way together, and in which phase of the pairing
flow; (`HeldSound`) an approval that is kept, or is being asked for, is of the device at
hand, which stays ready until it is revoked; (`AskedSound`) the consent behind the approval
still stands, or the device is bootstrapped and there is a snapshot, so that the next
attempt cannot end in a reset that unmarks it; (`PathSound`) a request on its way to a
restore has no rows to overwrite, or the consent, or a marked device. No step but `Restore`
puts restored rows in the place of the user's own (`OnlyRestore`).

*The worklist.* `TypeInv` fixes the shape of the jobs; with `Unmixed` (the events under way
are all dated, or all those of pulls) it is inductive. A commit adds its event's days to the
list and takes none away, since splits stay. Planning takes the batch's days up: the job
starts at the least day of the batch (`PlanLeast`, from the well-foundedness of `<`) and has
all accounts that were named, so it covers what every single event asked for
(`BatchCovers`). A job that works on answers for the same days (`WorkKeeps`); when it ends
it is done with them or they are written off. Overlapping jobs and updates, moves to a later
day and emptied accounts are *included*: they spoil what a job computes, not who answers for
a day. Without `Plain` the theorem is false: finding 4 is the counterexample for a pull.

*The snapshots.* `SnapshotsAreReplay` is far from inductive: it says nothing of the days on
the list, and what the job that runs has computed but not yet written is not in the state
it looks at. `SnapInv` therefore speaks of the keyframes to come (`Coming`): those an account
will have once the running job has written what it holds for it. The job's own writes then
change nothing, not even the delete that comes before the save of a range (`DeletedFrom`).
A day that is kept, neither asked for, nor planned, nor lost for good, will show its replay
(`ReplayAt`). Kept (`KeptIn`) is a retained day, or one with a keyframe of its own: what a
prune leaves alone. Pruned keyframes show the same on every day that is still kept (`Thins`,
`PruneShows`), and so they do when a job writes over them later (`RewriteThins`), which
covers a prune while another account is between its two writes. The days that dated
recalculations resume from are retained (`SeedsKept`, from the plain situations).

`ReplayAt` is not enough for the next read: a calculation resumes from the keyframe of the
day before, and when a split lies ahead that day may be asked for too. For such days
(`HeldAt`) the weaker fact is kept that an account with nothing in hand shows nothing and
any other has a keyframe. It is what decides between resuming and starting over. A split
makes the code start from the first activity, so the wrong amounts of the days before are
never used; the one exception, an account whose activities all lie ahead, holds nothing
there. `ReadRight` is this argument, for the three ways a calculation begins (`StartKinds`).
Edits: the days of an account that the event does not ask for keep their replay
(`EditKeeps`), as every edit is covered by its event (`EditCovered`, for which
`UpdatesCurrent`, no update works on an outdated reading). Failures and crashes: what was
asked for or computed is written off, and everywhere else the keyframes stored are those to
come, since a job rewrites only days it answers for (`WritesAnswered`, `Settled`); days are
written off from some day on (`MissedUpwards`), so that a later job repairs an account as a
whole or not at all. TLC checked `SnapInv`, as a part of `TotalInv` below, over all states
of the run's instance and by simulation of a larger one (five days in three months, three activities, six edits, ten
steps from outside). The hypothesis `Cases = {}` is needed: each of the seven situations
breaks the property (see the correspondence of `PortfolioRecalc` above).

*TOTAL.* `TotalIsSum` compares TOTAL with the accounts, but TOTAL lags behind each write of
an account until the job is done, so it is not inductive either. `TotalInv` compares both
with the replays: it is `SnapInv` and, on every retained day that is calm, the TOTAL to come
(`TotalComing`: with the days that a job has still to append) shows the sum of the replays.
A day is calm when no account waits for it, except for a caller's incremental job, and no
split is stored (`Calm`): such a job only writes again what is shown already, so it may still
be busy with its accounts, or appending, while TOTAL is right. What the job at work carries
on to TOTAL is in `TotalSane`: its accounts; between the two writes, the amounts it will save
and the days it has deleted; between the save and the prune, that TOTAL shows the sum of the
accounts or no account has a keyframe from the job's first day to the day in question
(`SumOrEarlier`); and for a job from a day on, that an account shows a keyframe from the
job's first day on, on every retained day from there, unless the job has failed
(`SinceSound`, `ShowsFrom`: on the first day itself there need not be one any more, a prune
may have taken it). The last is what makes the deletion harmless: no retained day from the
first one deleted shows an amount from before the deletion (`AppendShows`). It holds because
the calculation of every account of the job begins on the job's first day and leaves a
keyframe on it (`ReadSound`), unless a split or the event of a pull is about, and then no day
is calm. A job that finishes leaves the calm days with the sums of what the accounts show
(`CloseShows`), which `SnapInv` says are the replays; one that appends leaves the TOTAL to
come as it is (`SavedOne`, `SavedLast`). The prunes of the accounts and of TOTAL keep different days of a
month, but they all show the same on the retained ones (`PruneShows`). TLC checked `TotalInv`
in the same two ways.

*The lock.* `LockInv` joins the types, `OneAtWork` and `ListsSound` (a call that is not
running has no plan left, so nothing can be fetched or stored by a call that waits).

*The history.* `NoHole` speaks of what is stored, but what will be stored was planned earlier,
from a history that others have changed since. `HistoryInv` therefore says of every plan,
from the day it is made until it is carried out, that it fits what is stored (`Fits`: of the
wanted days there are, it leaves out none before its own last day that is not stored), so
that storing it makes no hole. A resync takes the stored days away, hence each plan must also fit
the days of every resync under way (`PlansSound`); and between the purge and the store of a
resync no plan needs to fit what is stored (`Refilling`), nobody else being at work under the
lock. New plans fit both: each kind of window begins no later than `Overlap` days before the
last stored day, or covers everything wanted (`RecentBridges`, `ClosedBridges`,
`NewBridges`, `BackfillBridges`); and a resync under way reaches to the day it was made, which
lies at most `MaxDelay <= Overlap + 1` days back, so that a window of today that begins
`Overlap` days back leaves no day between the two (`BridgesFresh`). This is where the overlap
is needed, and why it need not be longer than the delay. TLC checked `HistoryInv` first: over
all states of an instance with days 0..3, plans two days late and all lengths 1, and of one
with a day more, and by simulation with two providers, a margin of three days and six days.
Each hypothesis is needed, and TLC shows `NoHole` violated without it: a resync planned before
an activity far in the past is entered replaces the history that a later backfill was planned
to join (on seven days); a store that fails after its purge leaves nothing for waiting plans
to join; a delay of one day more gives the trace told in section 3; and of two providers one
that begins later may answer a resync, so that the history gets shorter.

Only model-checked: liveness, which is out of the prover's reach (`EveryEditDelivered`,
`EveryRecordListed`, `EventuallyBootstrapped`, `EventuallyReflected`, `EventuallyPriced`).

## 6. Plan and what is not modelled

Done: data sync, background loop, session, portfolio pipeline, quotes of one asset. What
would come next, in this order: the cycle's `lock_version` and the reset of a session inside
`AppSync`'s cycle; several assets with the provider registry; the windows and checkpoints of
the broker sync.

Not modelled:

- *Provider registry* (circuit breaker, rate limiter, validation). `QuoteSync` takes the
  outcome of a request as a free choice, which contains whatever these can cause for one
  asset; what they do for each other's requests takes several assets.
- *Broker sync and its token.* The upserts it ends in are actions of `PortfolioRecalc`.
- *Activities* beyond what changes their account, day and kind: validation, symbol
  resolution, import with its duplicate check, transfer links. They run in one call before
  the write.
- *Lots, cash, valuations, performance, allocation, fx, planning, limits, health*: functions
  of the stored data without a state of their own; SQLite CRUD of single rows.
- *The issuer of a pairing, key exchange and rotation, encryption*: most of it is on the
  server or in libraries; a pairing is taken from the arrival of the key bundle on.
- *HTTP plumbing, authentication, secrets, AI chat, desktop shell, frontend, add-ons, file
  parsers*: I/O with little state. The Tauri commands mirror the server's handlers.
