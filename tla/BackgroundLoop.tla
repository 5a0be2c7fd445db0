--------------------------- MODULE BackgroundLoop ---------------------------
(***************************************************************************)
(* What makes sync cycles run on one device, and how a local change wakes  *)
(* the loop that runs them.                                                *)
(*                                                                         *)
(*   writer   the write actor commits outbox records and calls its         *)
(*            observer (crates/storage-sqlite/src/db/write_actor.rs), which *)
(*            puts a token into a bounded channel                           *)
(*   worker   start_sync_outbox_wake_worker drains the channel, makes sure  *)
(*            that the loop runs and notifies it (apps/server/src/          *)
(*            main_lib.rs, the same in apps/tauri/src/lib.rs)               *)
(*   loop     run_background_loop (crates/device-sync/src/engine/mod.rs)    *)
(*   manual   a cycle run by a command beside the loop                      *)
(*                                                                         *)
(* A step is the code between two awaits.  An aborted task is dropped at an *)
(* await, hence between two steps.  Durations are left out except for their *)
(* sort.  The outbox is seen through one bit: whether a record was          *)
(* committed that no cycle has been able to list.  Reads of the outbox      *)
(* succeed, and device sync is enabled.                                     *)
(***************************************************************************)
EXTENDS Integers

CONSTANTS
    ChannelCap,     \* tokens the channel holds (128 in the code)
    BackoffAfter    \* DEVICE_SYNC_NOT_READY_BACKOFF_AFTER (5)

ASSUME LimitsAssumption ==
    ChannelCap \in Nat \ {0} /\ BackoffAfter \in Nat

VARIABLES
    fresh,       \* a record was committed and no cycle has listed the outbox since
    writer,      \* "committed": the observer has not been called yet
    wakes,       \* tokens in the channel
    worker,      \* where the wake worker stands
    wasRunning,  \* was_running of its present pass
    permit,      \* the permit that Notify stores
    loop,        \* where the background task stands, "none" if there is none
    nap,         \* how long the loop has decided to sleep
    notReady,    \* consecutive_not_ready, counted up to BackoffAfter + 1
    holder,      \* who holds cycle_mutex
    manual,      \* where the command that runs a cycle stands
    identity     \* the sync identity in the credential store

writerVars == <<writer, wakes>>
workerVars == <<worker, wasRunning>>
loopVars == <<loop, nap, notReady>>
vars == <<fresh, writerVars, workerVars, permit, loopVars, holder, manual, identity>>

\* "ending": the loop was left, its task is not finished yet.
LoopPhase == {"none", "top", "lock", "cycle", "listed", "delay", "sleep", "debounce",
              "ending"}
Identity == {"none", "revoked", "enrolled"}

TypeOK ==
    /\ fresh \in BOOLEAN
    /\ writer \in {"idle", "committed"}
    /\ wakes \in 0..ChannelCap
    /\ worker \in {"recv", "check", "ensure", "notify"}
    /\ wasRunning \in BOOLEAN
    /\ permit \in BOOLEAN
    /\ loop \in LoopPhase
    /\ nap \in {"short", "long", "backoff"}
    /\ notReady \in 0..BackoffAfter + 1
    /\ holder \in {"nobody", "loop", "manual"}
    /\ manual \in {"none", "lock", "cycle", "listed"}
    /\ identity \in Identity

Init ==
    /\ fresh \in BOOLEAN
    /\ writer = "idle"
    /\ wakes = 0
    /\ worker = "recv"
    /\ wasRunning = FALSE
    /\ permit = FALSE
    /\ loop = "none"
    /\ nap = "long"
    /\ notReady = 0
    /\ holder = "nobody"
    /\ manual = "none"
    /\ identity \in Identity

CanRun == identity = "enrolled"

-----------------------------------------------------------------------------
(* The write actor.                                                         *)

Commit ==
    /\ writer = "idle"
    /\ fresh' = TRUE
    /\ writer' = "committed"
    /\ UNCHANGED <<wakes, workerVars, permit, loopVars, holder, manual, identity>>

\* A variant, to test TypeOK: off by one at the end of the channel.
HasRoomOffByOne == wakes <= ChannelCap

HasRoom == wakes < ChannelCap

\* try_send: a full channel drops the token.
Observe ==
    /\ writer = "committed"
    /\ writer' = "idle"
    /\ wakes' = IF HasRoom THEN wakes + 1 ELSE wakes
    /\ UNCHANGED <<fresh, workerVars, permit, loopVars, holder, manual, identity>>

-----------------------------------------------------------------------------
(* The wake worker.                                                         *)

\* recv, then try_recv until the channel is empty.
WorkerDrains ==
    /\ worker = "recv"
    /\ wakes > 0
    /\ wakes' = 0
    /\ worker' = "check"
    /\ UNCHANGED <<fresh, writer, wasRunning, permit, loopVars, holder, manual, identity>>

\* is_background_running: a task that is leaving its loop still counts.
WorkerChecks ==
    /\ worker = "check"
    /\ wasRunning' = (loop # "none")
    /\ worker' = "ensure"
    /\ UNCHANGED <<fresh, writerVars, permit, loopVars, holder, manual, identity>>

\* ensure_background_started: no task is started without an identity, and none
\* while one is running.
Started == IF loop = "none" /\ CanRun THEN "top" ELSE loop

\* A loop that starts knows nothing of the failures of an earlier one.
StartLoop ==
    /\ loop' = Started
    /\ notReady' = IF Started = loop THEN notReady ELSE 0
    /\ UNCHANGED nap

WorkerEnsures ==
    /\ worker = "ensure"
    /\ StartLoop
    /\ worker' = "notify"
    /\ UNCHANGED <<fresh, writerVars, wasRunning, permit, holder, manual, identity>>

\* A variant, to test NoRecordLeftWaiting: a loop that runs is left alone.
OnlyIfStarted == ~wasRunning /\ loop # "none"

\* The loop is notified if it was there already; a new one begins with a cycle.
Notifies == wasRunning

WorkerNotifies ==
    /\ worker = "notify"
    /\ permit' = (permit \/ Notifies)
    /\ worker' = "recv"
    /\ UNCHANGED <<fresh, writerVars, wasRunning, loopVars, holder, manual, identity>>

-----------------------------------------------------------------------------
(* The loop.                                                                *)

LoopChecksIdentity ==
    /\ loop = "top"
    /\ loop' = IF CanRun THEN "lock" ELSE "ending"
    /\ UNCHANGED <<fresh, writerVars, workerVars, permit, nap, notReady, holder, manual,
                   identity>>

\* The task counts as running until here (is_finished).
LoopFinishes ==
    /\ loop = "ending"
    /\ loop' = "none"
    /\ UNCHANGED <<fresh, writerVars, workerVars, permit, nap, notReady, holder, manual,
                   identity>>

LoopLocks ==
    /\ loop = "lock"
    /\ holder = "nobody"
    /\ holder' = "loop"
    /\ loop' = "cycle"
    /\ UNCHANGED <<fresh, writerVars, workerVars, permit, nap, notReady, manual, identity>>

\* The cycle lists the pending records; what becomes of them is AppSync's.
LoopLists ==
    /\ loop = "cycle"
    /\ fresh' = FALSE
    /\ loop' = "listed"
    /\ UNCHANGED <<writerVars, workerVars, permit, nap, notReady, holder, manual, identity>>

\* Returns, perhaps before it has listed anything.  A cycle that is not ready
\* counts, any other resets the count, and a revoked identity ends the loop.
LoopCycleEnds ==
    /\ loop \in {"cycle", "listed"}
    /\ holder' = "nobody"
    /\ \/ notReady' = 0 /\ loop' = "delay"
       \/ /\ notReady' = IF notReady > BackoffAfter THEN notReady ELSE notReady + 1
          /\ loop' = IF identity = "revoked" THEN "ending" ELSE "delay"
    /\ UNCHANGED <<fresh, writerVars, workerVars, permit, nap, manual, identity>>

\* What has_pending_outbox may return: a listed record may be pending and due.
HasPending(b) == fresh => b

\* compute_cycle_delay_ms and not_ready_backoff_ms.
DelayFor(hasPending) ==
    IF notReady > BackoffAfter THEN "backoff" ELSE IF hasPending THEN "short" ELSE "long"

LoopDecidesDelay ==
    /\ loop = "delay"
    /\ \E b \in BOOLEAN : HasPending(b) /\ nap' = DelayFor(b)
    /\ loop' = "sleep"
    /\ UNCHANGED <<fresh, writerVars, workerVars, permit, notReady, holder, manual,
                   identity>>

LoopSleepEnds ==
    /\ loop = "sleep"
    /\ loop' = "top"
    /\ UNCHANGED <<fresh, writerVars, workerVars, permit, nap, notReady, holder, manual,
                   identity>>

LoopWakes ==
    /\ loop = "sleep"
    /\ permit
    /\ permit' = FALSE
    /\ loop' = "debounce"
    /\ UNCHANGED <<fresh, writerVars, workerVars, nap, notReady, holder, manual, identity>>

\* wait_for_wake_debounce: another wake-up starts the quiet time anew.
DebounceRestarts ==
    /\ loop = "debounce"
    /\ permit
    /\ permit' = FALSE
    /\ UNCHANGED <<fresh, writerVars, workerVars, loopVars, holder, manual, identity>>

\* select! may take the timer although a permit is there; the permit stays.
DebounceQuiet ==
    /\ loop = "debounce"
    /\ loop' = "top"
    /\ UNCHANGED <<fresh, writerVars, workerVars, permit, nap, notReady, holder, manual,
                   identity>>

\* A variant, to test EveryRecordListed: only silence ends the debouncing.
NeverUnderWakes == loop = "debounce" /\ writer = "idle" /\ wakes = 0 /\ worker = "recv"

MaxWaitOver == loop = "debounce"

DebounceMaxWait ==
    /\ MaxWaitOver
    /\ loop' = "top"
    /\ UNCHANGED <<fresh, writerVars, workerVars, permit, nap, notReady, holder, manual,
                   identity>>

-----------------------------------------------------------------------------
(* Commands.                                                                *)

\* run_sync_cycle of a command or a pairing flow, through the same mutex.
ManualBegins ==
    /\ manual = "none"
    /\ manual' = "lock"
    /\ UNCHANGED <<fresh, writerVars, workerVars, permit, loopVars, holder, identity>>

ManualLocks ==
    /\ manual = "lock"
    /\ holder = "nobody"
    /\ holder' = "manual"
    /\ manual' = "cycle"
    /\ UNCHANGED <<fresh, writerVars, workerVars, permit, loopVars, identity>>

ManualLists ==
    /\ manual = "cycle"
    /\ fresh' = FALSE
    /\ manual' = "listed"
    /\ UNCHANGED <<writerVars, workerVars, permit, loopVars, holder, identity>>

ManualEnds ==
    /\ manual \in {"cycle", "listed"}
    /\ manual' = "none"
    /\ holder' = "nobody"
    /\ UNCHANGED <<fresh, writerVars, workerVars, permit, loopVars, identity>>

StartCommand ==
    /\ StartLoop
    /\ UNCHANGED <<fresh, writerVars, workerVars, permit, holder, manual, identity>>

\* ensure_background_stopped aborts the task; its lock guard is dropped with it.
StopCommand ==
    /\ loop # "none"
    /\ loop' = "none"
    /\ holder' = IF holder = "loop" THEN "nobody" ELSE holder
    /\ UNCHANGED <<fresh, writerVars, workerVars, permit, nap, notReady, manual, identity>>

IdentityChanges ==
    /\ identity' \in Identity \ {identity}
    /\ UNCHANGED <<fresh, writerVars, workerVars, permit, loopVars, holder, manual>>

\* The process ends and starts again: only the outbox and the identity survive.
Restart ==
    /\ writer' = "idle"
    /\ wakes' = 0
    /\ worker' = "recv"
    /\ wasRunning' = FALSE
    /\ permit' = FALSE
    /\ loop' = "none"
    /\ nap' = "long"
    /\ notReady' = 0
    /\ holder' = "nobody"
    /\ manual' = "none"
    /\ UNCHANGED <<fresh, identity>>

-----------------------------------------------------------------------------

WorkerStep == WorkerDrains \/ WorkerChecks \/ WorkerEnsures \/ WorkerNotifies

\* The steps of the loop that time alone brings about.
LoopStep ==
    \/ LoopChecksIdentity
    \/ LoopFinishes
    \/ LoopCycleEnds
    \/ LoopDecidesDelay
    \/ LoopSleepEnds
    \/ DebounceMaxWait

ManualStep == ManualLists \/ ManualEnds

CommandStep ==
    \/ ManualBegins
    \/ ManualLocks
    \/ StartCommand
    \/ StopCommand
    \/ IdentityChanges
    \/ Restart

Next ==
    \/ Commit
    \/ Observe
    \/ WorkerStep
    \/ LoopStep
    \/ LoopLocks
    \/ LoopLists
    \/ LoopWakes
    \/ DebounceRestarts
    \/ DebounceQuiet
    \/ ManualStep
    \/ CommandStep

Spec == Init /\ [][Next]_vars

\* Tasks are scheduled and timers fire.  cycle_mutex is granted in the order of
\* the requests, so a task that waits for it gets it (strong fairness); a cycle
\* that is run again and again lists its records at some time.  Nothing is
\* assumed of the user: writes, commands and restarts may go on for ever, and so
\* may the wake-ups that keep the quiet time from ending.
FairSpec ==
    /\ Spec
    /\ WF_vars(Observe)
    /\ WF_vars(WorkerStep)
    /\ WF_vars(LoopStep)
    /\ SF_vars(LoopLocks)
    /\ SF_vars(LoopLists)
    /\ WF_vars(ManualStep)

-----------------------------------------------------------------------------
(* Properties.                                                              *)

\* The news of a commit is on its way to the loop, or there.
Signalled ==
    \/ writer = "committed"
    \/ wakes > 0
    \/ worker = "check"
    \/ worker \in {"ensure", "notify"} /\ wasRunning
    \/ permit

\* A record that no cycle has listed never waits for the periodic timer: when
\* the loop sleeps for long it has been told, whatever loops were stopped and
\* started, whatever tokens were dropped or drained and whatever wake-ups the
\* debouncing has swallowed.
NoRecordLeftWaiting == fresh /\ loop = "sleep" /\ nap = "long" => Signalled

\* While the loop runs, every record is listed by a cycle, although the user
\* never stops writing and every write starts the debouncing anew.
EveryRecordListed == (fresh /\ loop # "none") ~> (~fresh \/ loop = "none")
=============================================================================
