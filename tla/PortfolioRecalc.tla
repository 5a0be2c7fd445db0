-------------------------- MODULE PortfolioRecalc --------------------------
(***************************************************************************)
(* The portfolio pipeline: an edit of the activities is committed, a       *)
(* domain event says which accounts it touched and from which day, a       *)
(* queue worker debounces the events, plans one job for a batch, and the   *)
(* job recomputes the holdings snapshots of the accounts and of TOTAL from *)
(* that day on.  Jobs are also started by API calls.                       *)
(*                                                                         *)
(* Snapshots are sparse: a keyframe is kept on the first day of a          *)
(* calculation and on days with activities, and a day without one shows    *)
(* the latest keyframe before it.  What a keyframe holds is kept as the    *)
(* quantity each activity contributed, so that an activity counted twice,  *)
(* left out or not adjusted for a split is visible.  After each batch of   *)
(* saved keyframes the old ones are pruned: of a month that is past, only  *)
(* the last one of an account is kept.                                     *)
(*                                                                         *)
(* The days up to today do not move; every account trades an asset of its  *)
(* own; manual snapshots, archived accounts and valuations are left out.   *)
(***************************************************************************)
EXTENDS Integers, FiniteSets

CONSTANTS
    Account,
    Activity,      \* ids of activities
    Today,         \* days are 1..Today
    Month,         \* the month of each day
    Recent,        \* the first of the last 30 days
    Initial,       \* the contents of the database a run may start from
    Caller,        \* API requests that start a portfolio job
    NoActivity,    \* an id that is not in use
    NoFrame,       \* a day without a keyframe
    Cases,         \* situations admitted beyond the plain ones, see below
    MaxEdits,      \* bound: commits of edits
    MaxSteps       \* bound: edits, failed steps, crashes and jobs of callers

(***************************************************************************)
(* The situations in which the code leaves stale snapshots behind.  The    *)
(* passing runs admit none of them; a run expected to fail admits one.     *)
(***************************************************************************)
KnownCases == {"emptying",           \* an account loses its last activity
               "move_later",         \* an activity moves to a later day or account
               "split_removal",      \* a split is moved or deleted
               "pull_with_edits",    \* a pull and an edit share a batch
               "pruned_seed",        \* an edit is dated inside a month that has been pruned
               "concurrent_updates", \* two edits of one activity overlap
               "concurrent_jobs"}    \* a caller's job overlaps the worker's

Worker == "worker"  \* the task that runs the event queue

ASSUME RecalcAssumption ==
    /\ Worker \notin Caller
    /\ Today \in Nat \ {0}
    /\ Month \in [1..Today -> Nat]
    /\ \A d, k \in 1..Today : d <= k => Month[d] <= Month[k]
    /\ Recent \in 1..Today
    /\ NoFrame \notin [Activity -> Int]
    /\ NoFrame \notin [Account -> [Activity -> Int]]
    /\ Cases \subseteq KnownCases
    /\ MaxEdits \in Nat /\ MaxSteps \in Nat

Day == 1..Today
Never == Today + 1
Cell == Account \X Day
Runner == {Worker} \union Caller
Record == [account : Account, day : Day, kind : {"trade", "split"}]

ASSUME InitialAssumption ==
    /\ NoActivity \notin Record
    /\ Initial \subseteq [Activity -> {NoActivity} \union Record]

VARIABLES
    activities,  \* the stored activities
    updating,    \* updates that have read the activity and not yet written it
    unsent,      \* events of committed edits whose handler has not emitted yet
    channel,     \* events sent and not yet received by the worker
    pending,     \* events the worker has collected and not yet processed
    jobs,        \* the portfolio job of each runner
    frames,      \* keyframes of each account
    total,       \* keyframes of TOTAL
    missed,      \* cells whose recalculation failed or was lost in a crash
    used         \* counters for the bounds

vars == <<activities, updating, unsent, channel, pending, jobs, frames, total,
          missed, used>>

-----------------------------------------------------------------------------
(***************************************************************************)
(* Activities and what they add up to.                                     *)
(***************************************************************************)
Holdings == [Activity -> Nat]
Empty == [i \in Activity |-> 0]
Plus(h, g) == [i \in Activity |-> h[i] + g[i]]

Of(acts, a) == {i \in Activity : acts[i] # NoActivity /\ acts[i].account = a}
DaysOf(acts, a) == {acts[i].day : i \in Of(acts, a)}
SplitDays(acts, a) ==
    {acts[i].day : i \in {j \in Of(acts, a) : acts[j].kind = "split"}}

First(acts, a) ==
    CHOOSE d \in DaysOf(acts, a) : \A k \in DaysOf(acts, a) : d <= k

\* A trade counts in units of today: doubled for every split after its day.
Quantity(acts, a, i) ==
    2 ^ Cardinality({s \in SplitDays(acts, a) : s > acts[i].day})

\* What the trades of the days from..to add.
Traded(acts, a, from, to) ==
    LET own == Of(acts, a) IN
    [i \in Activity |->
        IF /\ i \in own
           /\ acts[i].kind = "trade"
           /\ acts[i].day \in from..to
        THEN Quantity(acts, a, i)
        ELSE 0]

\* The holdings of account a at the end of day d, from its whole history.
Replay(acts, a, d) == Traded(acts, a, 1, d)

-----------------------------------------------------------------------------
(***************************************************************************)
(* Keyframes.                                                              *)
(***************************************************************************)
NoFrames == [k \in Day |-> NoFrame]
KeyDays(f, d) == {k \in Day : k <= d /\ f[k] # NoFrame}

\* The day of the latest keyframe on or before d, 0 if there is none.
LatestDay(f, d) ==
    LET days == KeyDays(f, d)
    IN IF days = {} THEN 0 ELSE CHOOSE k \in days : \A j \in days : j <= k

\* What a reader of the snapshots sees on day d.
Shown(f, d, none) ==
    LET k == LatestDay(f, d) IN IF k = 0 THEN none ELSE f[k]

\* Keyframes of a calculation that starts on day start from holdings seed.
Calculate(acts, a, start, seed) ==
    [k \in Day |->
        IF k = start \/ (k > start /\ k \in DaysOf(acts, a))
        THEN Plus(seed, Traded(acts, a, start, k))
        ELSE NoFrame]

DeleteFrom(f, d) == [k \in Day |-> IF k < d THEN f[k] ELSE NoFrame]
Save(f, new) == [k \in Day |-> IF new[k] = NoFrame THEN f[k] ELSE new[k]]

\* A mutated form of Prune: the first keyframe of a month is kept.
PruneToFirst(f) ==
    [k \in Day |->
        IF k < Recent /\ \E j \in Day : j < k /\ Month[j] = Month[k] /\ f[j] # NoFrame
        THEN NoFrame ELSE f[k]]

\* What prune_old_calculated_snapshots leaves of an account's keyframes.
Prune(f) ==
    [k \in Day |->
        IF k < Recent /\ \E j \in Day : j > k /\ Month[j] = Month[k] /\ f[j] # NoFrame
        THEN NoFrame ELSE f[k]]

\* The days that show the same after a prune, whatever keyframes there are:
\* the last of each month, and those of a month that began in the last 30
\* days.
Retained(d) == \A k, j \in Day : k <= d /\ d < j /\ Month[k] = Month[j] => k >= Recent

-----------------------------------------------------------------------------
(***************************************************************************)
(* Domain events and the planner.  since = 0 stands for no date: a full    *)
(* recalculation.  No accounts stands for all of them.                     *)
(***************************************************************************)
Event == [accounts : SUBSET Account, since : 0..Today]
ActivitiesChanged(accounts, day) == [accounts |-> accounts, since |-> day]
DeviceSyncPullComplete == [accounts |-> {}, since |-> 0]

PlanAccounts(batch) ==
    LET named == UNION {e.accounts : e \in batch}
    IN IF named = {} THEN Account ELSE named

\* A mutated form of PlanSince: the batch starts at its last day.
PlanSinceLast(batch) ==
    LET dated == {e.since : e \in batch} \ {0}
    IN IF dated = {} THEN 0
       ELSE CHOOSE d \in dated : \A k \in dated : d >= k

PlanSince(batch) ==
    LET dated == {e.since : e \in batch} \ {0}
    IN IF dated = {} THEN 0
       ELSE CHOOSE d \in dated : \A k \in dated : d <= k

\* mode is the SnapshotRecalcMode; stage says what the job does next.
IdleJob == [stage |-> "idle", mode |-> "full", accounts |-> {}, since |-> 0,
            todo |-> {},       \* accounts computed and not yet written
            cleanup |-> {},    \* accounts to clean up after those
            saving |-> {},     \* the account deleted and not yet saved
            failed |-> FALSE,  \* a write of an account failed
            start |-> [a \in Account |-> Never],
            out |-> [a \in Account |-> NoFrames],
            totalOut |-> NoFrames]

\* A recalculation from day s reaches back to day 1 when a split lies ahead.
Reaches(acts, a, s, d) ==
    s = 0 \/ d >= s \/ \E k \in SplitDays(acts, a) : k >= s

\* An event asks for the day c[2] of account c[1].
Asks(acts, e, c) ==
    /\ e.accounts = {} \/ c[1] \in e.accounts
    /\ Reaches(acts, c[1], e.since, c[2])

\* The worker's job answers for what its batch asked for from the moment it
\* is planned, a caller's job for what it overwrites once it has read, and
\* for the days of TOTAL it has still to append.
Answers(acts, r, j, c) ==
    /\ j.stage # "idle"
    /\ c[1] \in j.accounts
    /\ IF r = Worker THEN Reaches(acts, c[1], j.since, c[2])
       ELSE \/ j.stage # "planned" /\ (j.mode = "full" \/ c[2] >= j.start[c[1]])
            \/ j.stage = "total_append" /\ KeyDays(j.totalOut, c[2]) # {}

InFlight == unsent \union channel \union pending
Owed ==
    LET events == InFlight IN {c \in Cell : \E e \in events : Asks(activities, e, c)}
Answered(r) == {c \in Cell : Answers(activities, r, jobs[r], c)}
Running == UNION {Answered(r) : r \in Runner}
Due == Owed \union Running \union missed

-----------------------------------------------------------------------------
(***************************************************************************)
(* What a job computes from one read of the activities and the snapshots.  *)
(***************************************************************************)
\* A mutated form of SeedDay: the day before since is forgotten.
SeedDayInclusive(j, f) ==
    CASE j.mode = "full"        -> 0
      [] j.mode = "since"       -> LatestDay(f, j.since)
      [] j.mode = "incremental" -> LatestDay(f, Today)

\* The day of the keyframe the calculation would resume from, 0 for none.
SeedDay(j, f) ==
    CASE j.mode = "full"        -> 0
      [] j.mode = "since"       -> LatestDay(f, j.since - 1)
      [] j.mode = "incremental" -> LatestDay(f, Today)

FirstOrToday(acts, a) == IF Of(acts, a) = {} THEN Today ELSE First(acts, a)

ResumeDay(acts, j, f, a) ==
    CASE j.mode = "full"  -> FirstOrToday(acts, a)
      [] j.mode = "since" -> j.since
      [] j.mode = "incremental" ->
            IF SeedDay(j, f) = 0 THEN FirstOrToday(acts, a) ELSE SeedDay(j, f) + 1

\* A seed from before a split is not split-adjusted: start over.
RestartsForSplit(acts, j, f, a) ==
    /\ SeedDay(j, f) # 0
    /\ \E k \in SplitDays(acts, a) : k >= ResumeDay(acts, j, f, a)
    /\ First(acts, a) < ResumeDay(acts, j, f, a)

\* The day the calculation of account a starts; Never when it is skipped.
StartDay(acts, j, f, a) ==
    IF Of(acts, a) = {} /\ j.mode # "full" THEN Never
    ELSE IF RestartsForSplit(acts, j, f, a) THEN First(acts, a)
    ELSE ResumeDay(acts, j, f, a)

Computed(acts, j, f, a) ==
    Calculate(acts, a, StartDay(acts, j, f, a),
              IF SeedDay(j, f) = 0 \/ RestartsForSplit(acts, j, f, a)
              THEN Empty ELSE f[SeedDay(j, f)])

AccountDays == UNION {KeyDays(frames[a], Today) : a \in Account}

\* The first day TOTAL is computed for, Never when it is up to date.
TotalStart(j) ==
    CASE j.mode = "full"  -> 1
      [] j.mode = "since" -> j.since
      [] j.mode = "incremental" ->
            IF \A k \in AccountDays : LatestDay(total, Today) >= k THEN Never
            ELSE LatestDay(total, Today) + 1

TotalComputed(from) ==
    [k \in Day |-> IF k \in AccountDays /\ k >= from
                   THEN [a \in Account |-> Shown(frames[a], k, Empty)]
                   ELSE NoFrame]

-----------------------------------------------------------------------------
\* A database whose snapshots a full job has just rebuilt.
Init ==
    /\ activities \in Initial
    /\ updating = {} /\ unsent = {} /\ channel = {} /\ pending = {}
    /\ jobs = [r \in Runner |-> IdleJob]
    /\ frames = [a \in Account |->
            IF Of(activities, a) = {} THEN NoFrames
            ELSE Computed(activities, IdleJob, NoFrames, a)]
    /\ total = TotalComputed(1)
    /\ missed = {}
    /\ used = [edits |-> 0, others |-> 0]

-----------------------------------------------------------------------------
(***************************************************************************)
(* Edits.  Each commits in one transaction and only then emits its event.  *)
(***************************************************************************)
With(i, rec) == [activities EXCEPT ![i] = rec]
Present == {i \in Activity : activities[i] # NoActivity}
MinDay(d, e) == IF d <= e THEN d ELSE e

\* What a commit of the new activities does, whoever made it.
Commit(acts, event) ==
    /\ activities' = acts
    /\ unsent' = unsent \union {event}
    /\ UNCHANGED <<channel, pending, jobs, frames, total, missed>>

\* The situations a run leaves out.  A dated event lets the job resume from
\* the keyframe of the day before, which the prune may have taken.
Admitted(acts, since) ==
    /\ \/ "emptying" \in Cases
       \/ \A a \in Account : Of(activities, a) # {} => Of(acts, a) # {}
    /\ \/ "split_removal" \in Cases
       \/ \A i \in Present : activities[i].kind = "split" => acts[i] = activities[i]
    /\ \/ "pull_with_edits" \in Cases
       \/ DeviceSyncPullComplete \notin InFlight
    /\ "pruned_seed" \in Cases \/ since = 1 \/ Retained(since - 1)
Alone(i) ==
    "concurrent_updates" \in Cases \/ \A u \in updating : u.id # i

\* create_activity, and import_activities with one row.
CreateActivity(i, rec) ==
    /\ i \notin Present
    /\ Alone(i)
    /\ Admitted(With(i, rec), rec.day)
    /\ Commit(With(i, rec), ActivitiesChanged({rec.account}, rec.day))
    /\ UNCHANGED updating

\* update_activity reads the activity, waits for its preparation and writes.
BeginUpdate(i) ==
    /\ i \in Present
    /\ Alone(i)
    /\ updating' = updating \union
            {[id |-> i, account |-> activities[i].account, day |-> activities[i].day]}
    /\ UNCHANGED <<activities, unsent, channel, pending, jobs, frames, total, missed>>

CommitUpdate(u, rec) ==
    /\ u.id \in Present
    /\ Admitted(With(u.id, rec), MinDay(u.day, rec.day))
    /\ Commit(With(u.id, rec),
              ActivitiesChanged({u.account, rec.account}, MinDay(u.day, rec.day)))
    /\ updating' = updating \ {u}

\* The preparation fails, or the activity is gone when it is written.
FailUpdate(u) ==
    /\ updating' = updating \ {u}
    /\ UNCHANGED <<activities, unsent, channel, pending, jobs, frames, total, missed, used>>

DeleteActivity(i) ==
    /\ i \in Present
    /\ Alone(i)
    /\ Admitted(With(i, NoActivity), activities[i].day)
    /\ Commit(With(i, NoActivity),
              ActivitiesChanged({activities[i].account}, activities[i].day))
    /\ UNCHANGED updating

\* One bulk call creates or updates activity i and deletes those in gone.
\* Its event names the old accounts too, but only the new days.
BulkMutate(i, rec, gone) ==
    LET acts == [k \in Activity |->
                    IF k \in gone THEN NoActivity
                    ELSE IF k = i THEN rec ELSE activities[k]]
        since == CHOOSE d \in {rec.day} \union {activities[k].day : k \in gone} :
                    /\ d <= rec.day
                    /\ \A k \in gone : d <= activities[k].day
        old == {activities[k].account : k \in Present \cap ({i} \union gone)}
    IN /\ gone \subseteq Present \ {i}
       /\ \A k \in {i} \union gone : Alone(k)
       /\ "move_later" \in Cases \/ (i \in Present => since <= activities[i].day)
       /\ Admitted(acts, since)
       /\ Commit(acts, ActivitiesChanged(old \union {rec.account}, since))
       /\ UNCHANGED updating

\* A broker's record replaces what is stored under its id; the event names
\* the account and the day of the record only.
UpsertActivity(i, rec) ==
    /\ Alone(i)
    /\ \/ "move_later" \in Cases
       \/ (i \in Present => /\ activities[i].account = rec.account
                           /\ activities[i].day >= rec.day)
    /\ Admitted(With(i, rec), rec.day)
    /\ Commit(With(i, rec), ActivitiesChanged({rec.account}, rec.day))
    /\ UNCHANGED updating

\* A sync cycle, or the restore of a snapshot, writes what another device has.
Pull(i, rec) ==
    /\ activities[i] # rec
    /\ \/ "pull_with_edits" \in Cases
       \/ updating = {} /\ InFlight \subseteq {DeviceSyncPullComplete}
    /\ Commit(With(i, rec), DeviceSyncPullComplete)
    /\ UNCHANGED updating

-----------------------------------------------------------------------------
(***************************************************************************)
(* The event queue.  The worker runs a batch to its end before it receives *)
(* again, so events wait in the channel meanwhile.                         *)
(***************************************************************************)
Emit(e) ==
    /\ e \in unsent
    /\ unsent' = unsent \ {e}
    /\ channel' = channel \union {e}
    /\ UNCHANGED <<activities, updating, pending, jobs, frames, total, missed, used>>

Receive(e) ==
    /\ e \in channel
    /\ jobs[Worker].stage = "idle"
    /\ channel' = channel \ {e}
    /\ pending' = pending \union {e}
    /\ UNCHANGED <<activities, updating, unsent, jobs, frames, total, missed, used>>

MayStart(r) ==
    /\ jobs[r].stage = "idle"
    /\ \/ "concurrent_jobs" \in Cases
       \/ \A q \in Runner : jobs[q].stage = "idle"

\* The debounce window passes without an event: the batch becomes a job.
ProcessBatch ==
    /\ pending # {}
    /\ MayStart(Worker)
    /\ pending' = {}
    /\ jobs' = [jobs EXCEPT ![Worker] =
            [IdleJob EXCEPT !.stage = "planned",
                            !.mode = IF PlanSince(pending) = 0 THEN "full" ELSE "since",
                            !.accounts = PlanAccounts(pending),
                            !.since = PlanSince(pending)]]
    /\ UNCHANGED <<activities, updating, unsent, channel, frames, total, missed, used>>

\* enqueue_portfolio_job of an API request: a spawned task of its own.
StartCall(c, mode, accounts) ==
    /\ used.edits + used.others < MaxSteps
    /\ MayStart(c)
    /\ used' = [used EXCEPT !.others = @ + 1]
    /\ jobs' = [jobs EXCEPT ![c] = [IdleJob EXCEPT !.stage = "planned", !.mode = mode,
                                                  !.accounts = accounts]]
    /\ UNCHANGED <<activities, updating, unsent, channel, pending, frames, total, missed>>

-----------------------------------------------------------------------------
(***************************************************************************)
(* A portfolio job: read and compute, write account by account, TOTAL.     *)
(***************************************************************************)
Edits == <<activities, updating, unsent, channel, pending>>

\* The job without the accounts already dealt with; TOTAL follows the last.
Step(j) == IF j.todo \union j.cleanup = {} THEN [j EXCEPT !.stage = "total"] ELSE j

Read(r) ==
    LET j == jobs[r]
        begin == [a \in Account |-> IF a \in j.accounts
                                    THEN StartDay(activities, j, frames[a], a) ELSE Never]
        processed == {a \in Account : begin[a] # Never}
        cleaned == IF j.mode = "since" /\ processed # {} THEN j.accounts \ processed ELSE {}
        inactive == \A a \in j.accounts : Of(activities, a) = {}
    IN /\ j.stage = "planned"
       /\ \/ /\ inactive
             /\ frames' = [a \in Account |->
                    IF j.mode = "full" /\ a \in j.accounts THEN NoFrames ELSE frames[a]]
             /\ jobs' = [jobs EXCEPT ![r].stage = "total"]
          \/ /\ ~inactive
             /\ frames' = frames
             /\ jobs' = [jobs EXCEPT ![r] = Step(
                    [j EXCEPT !.stage = "write", !.todo = processed, !.cleanup = cleaned,
                              !.start = [a \in Account |->
                                  IF a \in cleaned THEN j.since ELSE begin[a]],
                              !.out = [a \in Account |->
                                  IF a \in processed
                                  THEN Computed(activities, j, frames[a], a)
                                  ELSE NoFrames]])]
       /\ UNCHANGED <<Edits, total, missed, used>>

\* overwrite_all_snapshots_for_account: one transaction.
OverwriteAll(r, a) ==
    /\ jobs[r].stage = "write" /\ jobs[r].mode = "full"
    /\ a \in jobs[r].todo
    /\ frames' = [frames EXCEPT ![a] = jobs[r].out[a]]
    /\ jobs' = [jobs EXCEPT ![r] = Step([jobs[r] EXCEPT !.todo = @ \ {a}])]
    /\ UNCHANGED <<Edits, total, missed, used>>

\* overwrite_snapshots_for_account_in_range: the days from start on are
\* deleted in one transaction and saved in the next.
DeleteRange(r, a) ==
    LET j == jobs[r] IN
    /\ j.stage = "write" /\ j.mode # "full" /\ j.saving = {}
    /\ a \in IF j.todo # {} THEN j.todo ELSE j.cleanup
    /\ frames' = [frames EXCEPT ![a] = DeleteFrom(frames[a], j.start[a])]
    /\ jobs' = [jobs EXCEPT ![r] =
            IF a \in j.todo THEN [j EXCEPT !.saving = {a}]
            ELSE Step([j EXCEPT !.cleanup = @ \ {a}])]
    /\ UNCHANGED <<Edits, total, missed, used>>

\* A mutated form of SaveRange: the account stays marked as being saved.
SaveRangeAgain(r, a) ==
    /\ jobs[r].stage = "write"
    /\ a \in jobs[r].saving
    /\ frames' = [frames EXCEPT ![a] = Save(frames[a], jobs[r].out[a])]
    /\ jobs' = [jobs EXCEPT ![r] = [jobs[r] EXCEPT !.stage = "prune", !.todo = @ \ {a}]]
    /\ UNCHANGED <<Edits, total, missed, used>>

SaveRange(r, a) ==
    /\ jobs[r].stage = "write"
    /\ a \in jobs[r].saving
    /\ frames' = [frames EXCEPT ![a] = Save(frames[a], jobs[r].out[a])]
    /\ jobs' = [jobs EXCEPT ![r] =
            [jobs[r] EXCEPT !.stage = "prune", !.saving = {}, !.todo = @ \ {a}]]
    /\ UNCHANGED <<Edits, total, missed, used>>

\* The second transaction of save_snapshots prunes all accounts and TOTAL.
PruneOld ==
    /\ frames' = [a \in Account |-> Prune(frames[a])]
    /\ total' = Prune(total)

AfterPrune(r) ==
    /\ jobs[r].stage = "prune"
    /\ jobs' = [jobs EXCEPT ![r] = Step([jobs[r] EXCEPT !.stage = "write"])]
    /\ UNCHANGED missed

PruneAfterSave(r) ==
    /\ AfterPrune(r)
    /\ PruneOld
    /\ UNCHANGED <<Edits, used>>

\* The cells the job has made right: an earlier failure needs no more work.
Repaired(r) ==
    LET j == jobs[r] IN
    {c \in missed :
        /\ c[1] \in j.accounts /\ ~j.failed
        /\ \/ j.mode = "full"
           \/ /\ j.mode = "since"
              /\ \A d \in Day : <<c[1], d>> \in missed => d >= j.start[c[1]]}

Finish(r) ==
    /\ jobs' = [jobs EXCEPT ![r] = IdleJob]
    /\ missed' = missed \ Repaired(r)

\* TOTAL is up to date, has no day to compute, or is replaced as a whole.
ReplaceTotal(r) ==
    LET j == jobs[r]
        new == TotalComputed(TotalStart(j))
        whole == AccountDays = {} \/ (new # NoFrames /\ TotalStart(j) = 1)
    IN /\ j.stage = "total"
       /\ whole \/ new = NoFrames
       /\ j.mode # "since" \/ AccountDays = {} \/ new = NoFrames
       /\ total' = IF whole THEN new ELSE total
       /\ Finish(r)
       /\ UNCHANGED <<Edits, frames, used>>

\* An incremental job computes the days after the latest TOTAL keyframe and
\* appends them one by one, each in a transaction of its own.
BeginAppend(r) ==
    LET j == jobs[r] IN
    /\ j.stage = "total" /\ j.mode = "incremental" /\ AccountDays # {}
    /\ TotalStart(j) > 1 /\ TotalComputed(TotalStart(j)) # NoFrames
    /\ jobs' = [jobs EXCEPT ![r].stage = "total_append",
                            ![r].totalOut = TotalComputed(TotalStart(j))]
    /\ UNCHANGED <<Edits, frames, total, missed, used>>

AppendTotal(r) ==
    LET j == jobs[r]
        days == KeyDays(j.totalOut, Today)
        k == CHOOSE d \in days : \A i \in days : d <= i
    IN /\ j.stage = "total_append"
       /\ total' = [total EXCEPT ![k] = j.totalOut[k]]
       /\ IF days = {k} THEN Finish(r)
          ELSE /\ jobs' = [jobs EXCEPT ![r].totalOut[k] = NoFrame]
               /\ UNCHANGED missed
       /\ UNCHANGED <<Edits, frames, used>>

DeleteTotalRange(r) ==
    LET j == jobs[r] IN
    /\ j.stage = "total" /\ j.mode = "since"
    /\ TotalComputed(j.since) # NoFrames
    /\ total' = DeleteFrom(total, j.since)
    /\ jobs' = [jobs EXCEPT ![r].stage = "total_save",
                            ![r].totalOut = TotalComputed(j.since)]
    /\ UNCHANGED <<Edits, frames, missed, used>>

SaveTotalRange(r) ==
    /\ jobs[r].stage = "total_save"
    /\ total' = Save(total, jobs[r].totalOut)
    /\ jobs' = [jobs EXCEPT ![r].stage = "total_prune", ![r].totalOut = NoFrames]
    /\ UNCHANGED <<Edits, frames, missed, used>>

AfterTotalPrune(r) ==
    /\ jobs[r].stage = "total_prune"
    /\ Finish(r)

PruneAfterTotal(r) ==
    /\ AfterTotalPrune(r)
    /\ PruneOld
    /\ UNCHANGED <<Edits, used>>

-----------------------------------------------------------------------------
(***************************************************************************)
(* Faults.  A failed job is not retried and its events are gone; after a   *)
(* crash nothing in memory is left.                                        *)
(***************************************************************************)
Fault ==
    /\ used.edits + used.others < MaxSteps
    /\ used' = [used EXCEPT !.others = @ + 1]
    /\ UNCHANGED <<activities, frames, total>>
InMemory == <<updating, unsent, channel, pending>>

\* The market sync, or TOTAL, fails: the job ends there.
FailJob(r) ==
    /\ Fault
    /\ jobs[r].stage \in {"planned", "total", "total_append", "total_save"}
    /\ jobs' = [jobs EXCEPT ![r] = IdleJob]
    /\ missed' = missed \union Answered(r)
    /\ UNCHANGED InMemory

\* A mutated form of FailWrite: the job is not moved on to TOTAL.
FailWriteStuck(r) ==
    /\ Fault
    /\ jobs[r].stage = "write"
    /\ jobs' = [jobs EXCEPT ![r].failed = TRUE, ![r].todo = {},
                            ![r].cleanup = {}, ![r].saving = {}]
    /\ missed' = missed \union Answered(r)
    /\ UNCHANGED InMemory

\* A write of an account fails: the others are skipped, TOTAL is not.
FailWrite(r) ==
    /\ Fault
    /\ jobs[r].stage = "write"
    /\ jobs' = [jobs EXCEPT ![r].stage = "total", ![r].failed = TRUE, ![r].todo = {},
                            ![r].cleanup = {}, ![r].saving = {}]
    /\ missed' = missed \union Answered(r)
    /\ UNCHANGED InMemory

\* A prune that fails is only logged.
FailPrune(r) ==
    /\ Fault
    /\ AfterPrune(r) \/ AfterTotalPrune(r)
    /\ UNCHANGED InMemory

Crash ==
    /\ Fault
    /\ updating' = {} /\ unsent' = {} /\ channel' = {} /\ pending' = {}
    /\ jobs' = [r \in Runner |-> IdleJob]
    /\ missed' = missed \union Owed \union Running

-----------------------------------------------------------------------------
\* An update counts from its beginning.
Edit ==
    \/ /\ used.edits < MaxEdits /\ used.edits + used.others < MaxSteps
       /\ used' = [used EXCEPT !.edits = @ + 1]
       /\ \/ \E i \in Activity, rec \in Record :
               \/ CreateActivity(i, rec)
               \/ UpsertActivity(i, rec)
               \/ Pull(i, rec)
               \/ \E gone \in SUBSET Present : BulkMutate(i, rec, gone)
          \/ \E i \in Activity :
               \/ BeginUpdate(i)
               \/ DeleteActivity(i)
               \/ Pull(i, NoActivity)
    \/ /\ \E u \in updating, rec \in Record : CommitUpdate(u, rec)
       /\ UNCHANGED used

Queue ==
    \/ \E e \in unsent : Emit(e)
    \/ \E e \in channel : Receive(e)
    \/ ProcessBatch

JobStep(r) ==
    \/ Read(r)
    \/ \E a \in Account : OverwriteAll(r, a) \/ DeleteRange(r, a) \/ SaveRange(r, a)
    \/ PruneAfterSave(r)
    \/ ReplaceTotal(r) \/ BeginAppend(r) \/ AppendTotal(r)
    \/ DeleteTotalRange(r) \/ SaveTotalRange(r) \/ PruneAfterTotal(r)

Next ==
    \/ Edit
    \/ \E u \in updating : FailUpdate(u)
    \/ Queue
    \/ \E c \in Caller, accounts \in (SUBSET Account) \ {{}} :
        StartCall(c, "full", accounts) \/ StartCall(c, "incremental", accounts)
    \/ \E r \in Runner : JobStep(r) \/ FailJob(r) \/ FailWrite(r) \/ FailPrune(r)
    \/ Crash

Spec == Init /\ [][Next]_vars

\* The tasks run on; nobody is obliged to edit, to call or to fail.
FairSpec ==
    /\ Spec
    /\ WF_vars(\E e \in unsent : Emit(e)) /\ WF_vars(\E e \in channel : Receive(e))
    /\ WF_vars(ProcessBatch)
    /\ \A r \in Runner : WF_vars(JobStep(r))

-----------------------------------------------------------------------------
(***************************************************************************)
(* Properties.                                                             *)
(***************************************************************************)
Stages == {"idle", "planned", "write", "prune", "total", "total_append", "total_save",
           "total_prune"}

\* The stored values, the events and the jobs keep their types.
TypeOK ==
    /\ activities \in [Activity -> Record \union {NoActivity}]
    /\ updating \subseteq [id : Activity, account : Account, day : Day]
    /\ InFlight \subseteq Event
    /\ \A r \in Runner :
        /\ jobs[r].stage \in Stages
        /\ jobs[r].mode \in {"full", "since", "incremental"}
        /\ jobs[r].todo \union jobs[r].cleanup \subseteq jobs[r].accounts
        /\ jobs[r].saving \subseteq jobs[r].todo
    /\ missed \subseteq Cell

\* What the holdings snapshots show of an account on a day is what replaying
\* its activities gives, unless that day is still due: named by an event not
\* yet processed, in a running job, or lost to a failure, and unless the
\* prune thins out the days before it.  No edit, no batch of events, no
\* resumption from an older keyframe, no split and no prune leaves a wrong
\* day behind that nothing is going to recompute.
SnapshotsAreReplay ==
    LET due == Due
    IN \A a \in Account, d \in Day :
        Retained(d) /\ <<a, d>> \notin due =>
            Shown(frames[a], d, Empty) = Replay(activities, a, d)

\* TOTAL shows on a retained day the sum of what the accounts show, as long
\* as no account is due on that day and no split is stored.
TotalIsSum ==
    LET due == Due
    IN \A d \in Day :
        (/\ Retained(d)
         /\ \A a \in Account : <<a, d>> \notin due /\ SplitDays(activities, a) = {})
            => Shown(total, d, [a \in Account |-> Empty])
                = [a \in Account |-> Shown(frames[a], d, Empty)]

\* The queue, the planner and the jobs implement the worklist: a day a change
\* has made out of date stays owed until a job takes it up, and taken up
\* until the job has finished with it or given it up.
Worklist == INSTANCE RecalcWorklist WITH owed <- Owed, running <- Running
ImplementsWorklist == Worklist!Spec

\* Edits end, and then every retained day that was not lost to a failure comes
\* to show the replay of the activities: events reach the worker, batches are
\* processed, jobs end.
EventuallyReflected ==
    <>[](\A a \in Account, d \in {k \in Day : Retained(k)} :
            <<a, d>> \in missed \/ Shown(frames[a], d, Empty) = Replay(activities, a, d))
=============================================================================
