------------------------------ MODULE QuoteSync ------------------------------
(***************************************************************************)
(* The price history of one asset.  Two callers of the sync service work   *)
(* on it side by side: the periodic sync, and the portfolio jobs, which    *)
(* also tell the service whether the asset is held.  A sync plans date     *)
(* windows from the activities and the stored quotes, runs the plans       *)
(* concurrently under a lock of the asset, asks the provider registry, and *)
(* stores what it gets.                                                    *)
(*                                                                         *)
(* Every day is a trading day, a quote is the day and the provider it      *)
(* comes from, and the asset is in the catalogue, priced by the market and *)
(* without quotes of the user.  The registry answers with the quotes of    *)
(* any provider or with an error.  Lengths in days are parameters, so that *)
(* small ones stand for 45, 7, 5 and 30.                                   *)
(***************************************************************************)
EXTENDS Integers, Sequences

CONSTANTS
    Order,       \* the providers of the asset, the preferred one first
    NoSource,    \* the data source of a row that was never synced
    Since,       \* the first day a provider has quotes of
    LastDay,     \* bound: days are 0..LastDay
    FirstToday,  \* the day the run starts on
    Buffer,      \* QUOTE_HISTORY_BUFFER_DAYS
    Margin,      \* BACKFILL_SAFETY_MARGIN_DAYS
    Overlap,     \* OVERLAP_DAYS
    MinLookback, \* MIN_SYNC_LOOKBACK_DAYS
    MaxDelay,    \* bound: days that may begin before a plan is carried out
    Grace,       \* CLOSED_POSITION_GRACE_PERIOD_DAYS
    MaxErrors,   \* MAX_SYNC_ERRORS
    Cases,       \* situations admitted beyond the plain ones, see below
    MaxEvents    \* bound: edits, resyncs asked for and crashes

(***************************************************************************)
(* "backdate": an activity before the first one makes earlier days wanted. *)
(* "storage": the quotes are not stored after the old ones were purged.    *)
(* Both leave an asset whose history has to be filled in backwards.        *)
(***************************************************************************)
ASSUME QuoteAssumption ==
    /\ LastDay \in Nat /\ FirstToday \in 0..LastDay
    /\ 1 \in DOMAIN Order
    /\ Buffer \in Nat /\ Margin \in Nat /\ Overlap \in Nat
    /\ MinLookback \in Nat /\ Grace \in Nat
    /\ MinLookback <= Buffer + Margin
    /\ MaxDelay \in Nat \ {0}
    /\ MaxErrors \in Nat \ {0}
    /\ Cases \subseteq {"backdate", "storage"}
    /\ MaxEvents \in Nat

Provider == {Order[i] : i \in DOMAIN Order}
Day == 0..LastDay
NoDay == -1

ASSUME SinceAssumption == Since \in [Provider -> Day] /\ NoSource \notin Provider

Caller == {"periodic", "portfolio"}
Slot == 1..2

VARIABLES
    today,
    activities,  \* first and last day with an activity, and whether a position is left
    held,        \* whether the latest TOTAL snapshot holds the asset
    owed,        \* an edit whose portfolio job has not started
    row,         \* the asset's quote_sync_state
    quotes,      \* stored days of each provider
    locked,      \* SYNC_LOCKS holds the asset
    calls,       \* what each caller is at
    tasks,       \* the plans each caller executes
    used         \* counter for the bound

vars == <<today, activities, held, owed, row, quotes, locked, calls,
          tasks, used>>

-----------------------------------------------------------------------------
(***************************************************************************)
(* Planning.                                                               *)
(***************************************************************************)
First(S) == CHOOSE d \in S : \A e \in S : d <= e
Last(S) == CHOOSE d \in S : \A e \in S : e <= d
Later(d, e) == IF d >= e THEN d ELSE e

Priced == UNION {quotes[p] : p \in Provider}

\* Planning looks at the quotes of the provider that was last successful.
Source == IF row.known /\ row.source # NoSource THEN row.source ELSE Order[1]
Active == row.known => row.closed = NoDay

\* The days the asset is to be priced on when its first activity is on day d.
Wanted(d) == {e \in Day : d - Buffer <= e /\ e <= today}

RequiredStart == activities.first - Buffer - Margin

CategoryOf ==
    CASE quotes[Source] = {}                          -> "New"
      [] quotes[Source] # {} /\ RequiredStart < First(quotes[Source])
                                                      -> "NeedsBackfill"
      [] OTHER ->
            IF Active THEN "Active"
            ELSE IF today - row.closed <= Grace \/ today - activities.last <= Grace
                 THEN "RecentlyClosed"
                 ELSE "Closed"

\* Mutant: only today is asked for, whatever is stored.
RecentWindowTodayOnly == <<today, today>>

\* The days a plan of category cat asks for, <<from, to>>.
RecentWindow ==
    LET from == Last(quotes[Source]) - Overlap
    IN  <<IF from >= today THEN today - MinLookback ELSE from, today>>
NewWindow == <<activities.first - Buffer, today>>
BackfillWindow ==
    LET to == First(quotes[Source]) - 1
    IN  <<RequiredStart,
          IF Later(to - RequiredStart, 0) < MinLookback
          THEN RequiredStart + MinLookback
          ELSE to>>
Window(cat) ==
    CASE cat = "New"                             -> NewWindow
      [] cat = "NeedsBackfill"                   -> BackfillWindow
      [] cat \in {"Active", "RecentlyClosed"}    -> RecentWindow

\* A refresh the user asks for of a position that was closed long ago.
ClosedWindow == <<Last(quotes[Source]) - Overlap, today>>

\* purge: the stored quotes are to be replaced.  lenient: having no quotes to
\* give is not an error of the asset.  made: the day of the plan, for the bound.
Plan(window, purge, lenient) ==
    [pc |-> "ready", days |-> {d \in Day : window[1] <= d /\ d <= window[2]},
     purge |-> purge, lenient |-> lenient, by |-> NoSource, closed |-> NoDay,
     made |-> today]

Finished == [Plan(<<1, 0>>, FALSE, FALSE) EXCEPT !.pc = "done", !.made = NoDay]

IncrementalPlans(targeted) ==
    LET cat == CategoryOf
    IN  CASE row.known /\ row.errors >= MaxErrors -> <<>>
          [] cat = "NeedsBackfill" /\ Active ->
                <<Plan(RecentWindow, FALSE, FALSE), Plan(BackfillWindow, FALSE, TRUE)>>
          [] cat = "Closed" ->
                IF targeted /\ ClosedWindow[1] <= today
                THEN <<Plan(ClosedWindow, FALSE, FALSE)>>
                ELSE <<>>
          [] OTHER -> <<Plan(Window(cat), FALSE, cat = "NeedsBackfill")>>

\* A full resync replaces what is stored, from the first activity on.
ResyncPlans(targeted) ==
    LET cat == CategoryOf
    IN  <<Plan(NewWindow, TRUE, cat = "NeedsBackfill" \/ (cat = "Closed" /\ ~targeted))>>

NewRow == [known |-> TRUE, closed |-> NoDay, source |-> NoSource, errors |-> 0]

-----------------------------------------------------------------------------
(***************************************************************************)
(* The callers.                                                            *)
(***************************************************************************)
Idle == [pc |-> "idle", mode |-> "incremental", targeted |-> FALSE, split |-> FALSE]

\* There are other assets, hence a snapshot that does not hold this one yet.
Init ==
    /\ today = FirstToday
    /\ \E d \in Buffer..FirstToday, open \in BOOLEAN :
            activities = [first |-> d, last |-> FirstToday, open |-> open]
    /\ held = FALSE
    /\ owed = TRUE
    /\ row = [NewRow EXCEPT !.known = FALSE]
    /\ quotes = [p \in Provider |-> {}]
    /\ locked = FALSE
    /\ calls = [c \in Caller |-> Idle]
    /\ tasks = [c \in Caller |-> <<>>]
    /\ used = 0

MakePlans(c, call, split) ==
    LET plans == IF call.mode = "resync"
                 THEN ResyncPlans(call.targeted)
                 ELSE IncrementalPlans(call.targeted)
    IN  /\ split => Len(plans) = 2
        /\ row' = IF plans # <<>> /\ ~row.known THEN NewRow ELSE row
        /\ tasks' = [tasks EXCEPT ![c] = plans]
        /\ calls' = [calls EXCEPT ![c] = [Idle EXCEPT !.pc = "run", !.split = split]]
        /\ UNCHANGED <<today, activities, held, owed, quotes, locked, used>>

StartPeriodic(split) ==
    /\ calls["periodic"].pc = "idle"
    /\ MakePlans("periodic", Idle, split)

PlanJob(split) ==
    /\ calls["portfolio"].pc = "plan"
    /\ MakePlans("portfolio", calls["portfolio"], split)

\* Mutant: the closing day is the day after.
ReconciledTomorrow(holds) ==
    IF holds
    THEN [(IF row.known THEN row ELSE NewRow) EXCEPT !.closed = NoDay]
    ELSE IF row.known /\ row.closed = NoDay THEN [row EXCEPT !.closed = today + 1] ELSE row

\* The status of the position as the latest snapshot has it.
Reconciled(holds) ==
    CASE holds /\ ~row.known                       -> NewRow
      [] holds /\ row.known                        -> [row EXCEPT !.closed = NoDay]
      [] ~holds /\ row.known /\ row.closed = NoDay -> [row EXCEPT !.closed = today]
      [] OTHER                                     -> row

\* A portfolio job sets the status of the position before its sync, from the
\* snapshot of the previous job.
StartPortfolio(mode, targeted) ==
    /\ calls["portfolio"].pc = "idle"
    /\ row' = Reconciled(held)
    /\ calls' = [calls EXCEPT !["portfolio"] =
            [Idle EXCEPT !.pc = "plan", !.mode = mode, !.targeted = targeted]]
    /\ UNCHANGED <<today, activities, held, quotes, locked, tasks>>

\* The job of an edit asks for the assets of the edit.
StartJob ==
    /\ owed
    /\ owed' = FALSE
    /\ StartPortfolio("incremental", TRUE)
    /\ UNCHANGED used

StartResync(targeted) ==
    /\ used < MaxEvents
    /\ used' = used + 1
    /\ StartPortfolio("resync", targeted)
    /\ UNCHANGED owed

AllDone(c) == calls[c].pc = "run" /\ \A i \in DOMAIN tasks[c] : tasks[c][i].pc = "done"

EndPeriodic ==
    /\ AllDone("periodic")
    /\ tasks' = [tasks EXCEPT !["periodic"] = <<>>]
    /\ calls' = [calls EXCEPT !["periodic"] = Idle]
    /\ UNCHANGED <<today, activities, held, owed, row, quotes, locked, used>>

\* After its sync the job recomputes the snapshots, here: whether the asset is
\* held, and sets the status of the position by them.
EndJob ==
    /\ AllDone("portfolio")
    /\ tasks' = [tasks EXCEPT !["portfolio"] = <<>>]
    /\ calls' = [calls EXCEPT !["portfolio"] = Idle]
    /\ held' = activities.open
    /\ row' = Reconciled(activities.open)
    /\ UNCHANGED <<today, activities, owed, quotes, locked, used>>

-----------------------------------------------------------------------------
(***************************************************************************)
(* The plans of a call.  Plans are started in order, and those of one      *)
(* asset follow each other: the second is started in the same breath as    *)
(* the first, unless SYNC_CONCURRENCY plans are under way already (split). *)
(***************************************************************************)
Startable(c, i) ==
    /\ i \in DOMAIN tasks[c]
    /\ tasks[c][i].pc = "ready"
    /\ i = 2 => IF calls[c].split
                THEN tasks[c][1].pc = "done"
                ELSE tasks[c][1].pc # "ready"

\* Plan i of caller c holds the lock and is at pc.
At(c, i, pc) ==
    /\ i \in DOMAIN tasks[c]
    /\ tasks[c][i].pc = pc
    /\ \A j \in DOMAIN tasks[c] : ~Startable(c, j)

Working == {"fetch", "purge", "save", "mark", "source"}
Pending == {"ready", "fetch", "purge", "save"}

\* Mutant: the guard of a skipped plan frees the lock of the plan at work.
SkipFreesLock(c, i) ==
    /\ Startable(c, i)
    /\ locked
    /\ locked' = FALSE
    /\ tasks' = [tasks EXCEPT ![c][i] = Finished]
    /\ UNCHANGED <<today, activities, held, owed, row, quotes, calls, used>>

\* A plan that finds the lock taken is skipped.
Skip(c, i) ==
    /\ Startable(c, i)
    /\ locked
    /\ tasks' = [tasks EXCEPT ![c][i] = Finished]
    /\ UNCHANGED <<today, activities, held, owed, row, quotes, locked, calls, used>>

Start(c, i) ==
    /\ Startable(c, i)
    /\ ~locked
    /\ locked' = TRUE
    /\ tasks' = [tasks EXCEPT ![c][i].pc = "fetch"]
    /\ UNCHANGED <<today, activities, held, owed, row, quotes, calls, used>>

\* Mutant: a plan that fails keeps the lock.
EndTaskLeaksLock(c, i, errors) ==
    /\ row' = [row EXCEPT !.errors = errors]
    /\ tasks' = [tasks EXCEPT ![c][i] = Finished]
    /\ locked' = (errors # 0)

\* The plan ends and frees the lock; counted says what becomes of the errors.
EndTask(c, i, errors) ==
    /\ row' = [row EXCEPT !.errors = errors]
    /\ tasks' = [tasks EXCEPT ![c][i] = Finished]
    /\ locked' = FALSE

\* The bound on errors is the limit itself: what is above it is not told apart.
OneMoreError == IF row.errors < MaxErrors THEN row.errors + 1 ELSE row.errors

Offered(p, t) == {d \in t.days : Since[p] <= d}

Answer(c, i) ==
    LET t == tasks[c][i]
    IN  \E p \in Provider :
            /\ At(c, i, "fetch")
            /\ Offered(p, t) # {}
            /\ tasks' = [tasks EXCEPT ![c][i].pc = IF t.purge THEN "purge" ELSE "save",
                                      ![c][i].by = p]
            /\ UNCHANGED <<today, activities, held, owed, row, quotes, locked, calls, used>>

\* A provider answers without quotes: a sync that went well.
AnswerEmpty(c, i) ==
    /\ At(c, i, "fetch")
    /\ EndTask(c, i, 0)
    /\ UNCHANGED <<today, activities, held, owed, quotes, calls, used>>

\* No provider answers: an error of the asset, unless none has data and the plan
\* is lenient.
FetchFails(c, i, nodata) ==
    /\ At(c, i, "fetch")
    /\ EndTask(c, i, IF tasks[c][i].lenient /\ nodata THEN 0 ELSE OneMoreError)
    /\ UNCHANGED <<today, activities, held, owed, quotes, calls, used>>

Purge(c, i) ==
    /\ At(c, i, "purge")
    /\ quotes' = [p \in Provider |-> {}]
    /\ tasks' = [tasks EXCEPT ![c][i].pc = "save"]
    /\ UNCHANGED <<today, activities, held, owed, row, locked, calls, used>>

Save(c, i) ==
    LET t == tasks[c][i]
    IN  /\ At(c, i, "save")
        /\ quotes' = [quotes EXCEPT ![t.by] = @ \union Offered(t.by, t)]
        /\ tasks' = [tasks EXCEPT ![c][i] = [Finished EXCEPT !.pc = "mark", !.by = t.by]]
        /\ UNCHANGED <<today, activities, held, owed, row, locked, calls, used>>

\* A purge that fails is logged and the quotes are stored all the same.
PurgeFails(c, i) ==
    /\ At(c, i, "purge")
    /\ tasks' = [tasks EXCEPT ![c][i].pc = "save"]
    /\ UNCHANGED <<today, activities, held, owed, row, quotes, locked, calls, used>>

SaveFails(c, i) ==
    /\ At(c, i, "save")
    /\ tasks[c][i].purge => "storage" \in Cases
    /\ EndTask(c, i, OneMoreError)
    /\ UNCHANGED <<today, activities, held, owed, quotes, calls, used>>

\* The row is marked as synced and read again; if another provider answered
\* than the one it names, the whole row is written back with that provider.
Mark(c, i) ==
    LET t == tasks[c][i]
    IN  /\ At(c, i, "mark")
        /\ IF row.source = t.by
           THEN EndTask(c, i, 0)
           ELSE /\ row' = [row EXCEPT !.errors = 0]
                /\ tasks' = [tasks EXCEPT ![c][i].pc = "source", ![c][i].closed = row.closed]
                /\ UNCHANGED locked
        /\ UNCHANGED <<today, activities, held, owed, quotes, calls, used>>

WriteSource(c, i) ==
    LET t == tasks[c][i]
    IN  /\ At(c, i, "source")
        /\ row' = [NewRow EXCEPT !.source = t.by, !.closed = t.closed]
        /\ tasks' = [tasks EXCEPT ![c][i] = Finished]
        /\ locked' = FALSE
        /\ UNCHANGED <<today, activities, held, owed, quotes, calls, used>>

-----------------------------------------------------------------------------
(***************************************************************************)
(* The world around.                                                       *)
(***************************************************************************)
\* Requests end by an answer or a timeout (REQUEST_TIMEOUT), so that a plan is
\* carried out before many days have begun.
Tick ==
    /\ today < LastDay
    /\ \A c \in Caller : \A i \in DOMAIN tasks[c] :
            tasks[c][i].pc \in Pending => today < tasks[c][i].made + MaxDelay
    /\ today' = today + 1
    /\ UNCHANGED <<activities, held, owed, row, quotes, locked, calls, tasks, used>>

Edits ==
    /\ used < MaxEvents
    /\ used' = used + 1
    /\ owed' = TRUE
    /\ UNCHANGED <<today, held, row, quotes, locked, calls, tasks>>

\* The position is sold off, or opened again.
Trade ==
    /\ activities' = [activities EXCEPT !.last = today, !.open = ~@]
    /\ Edits

\* An activity is entered before the first one.
Backdate(d) ==
    /\ d < activities.first
    /\ "backdate" \notin Cases => Wanted(d) = Wanted(activities.first)
    /\ activities' = [activities EXCEPT !.first = d]
    /\ Edits

\* Calls, locks and queued events are lost, the database stays.
Crash ==
    /\ used < MaxEvents
    /\ used' = used + 1
    /\ owed' = FALSE
    /\ calls' = [c \in Caller |-> Idle]
    /\ tasks' = [c \in Caller |-> <<>>]
    /\ locked' = FALSE
    /\ UNCHANGED <<today, activities, held, row, quotes>>

-----------------------------------------------------------------------------
Serve(c, i) ==
    \/ Skip(c, i)
    \/ Start(c, i)
    \/ Purge(c, i)
    \/ Save(c, i)
    \/ Mark(c, i)
    \/ WriteSource(c, i)

FetchEnds(c, i) ==
    \/ Answer(c, i)
    \/ AnswerEmpty(c, i)
    \/ \E nodata \in BOOLEAN : FetchFails(c, i, nodata)

WriteFails(c, i) ==
    \/ PurgeFails(c, i)
    \/ SaveFails(c, i)

TasksGoOn(c) == \E i \in Slot : Serve(c, i) \/ FetchEnds(c, i)

PeriodicStep ==
    \/ \E split \in BOOLEAN : StartPeriodic(split)
    \/ EndPeriodic

JobStep ==
    \/ StartJob
    \/ \E split \in BOOLEAN : PlanJob(split)
    \/ EndJob

Next ==
    \/ PeriodicStep
    \/ JobStep
    \/ \E targeted \in BOOLEAN : StartResync(targeted)
    \/ \E c \in Caller : TasksGoOn(c)
    \/ \E c \in Caller, i \in Slot : WriteFails(c, i)
    \/ Tick
    \/ Trade
    \/ \E d \in Day : Backdate(d)
    \/ Crash

Spec == Init /\ [][Next]_vars

(***************************************************************************)
(* The periodic sync recurs, a job that is owed or under way goes on, days *)
(* pass and requests end.  If the first plan of a periodic sync is tried   *)
(* again and again, its request is answered and its quotes are stored some *)
(* time.  Nothing is assumed of users, crashes and the other plans.        *)
(***************************************************************************)
Fairness ==
    /\ WF_vars(PeriodicStep)
    /\ WF_vars(JobStep)
    /\ WF_vars(Tick)
    /\ \A c \in Caller : WF_vars(TasksGoOn(c))
    /\ SF_vars(Answer("periodic", 1))
    /\ SF_vars(Save("periodic", 1))

FairSpec == Spec /\ Fairness

-----------------------------------------------------------------------------
(***************************************************************************)
(* Properties.                                                             *)
(***************************************************************************)
Task ==
    [pc      : {"ready", "done"} \union Working,
     days    : SUBSET Day,
     purge   : BOOLEAN,
     lenient : BOOLEAN,
     by      : Provider \union {NoSource},
     closed  : Day \union {NoDay},
     made    : Day \union {NoDay}]

\* Every variable has its type.
TypeOK ==
    /\ today \in Day
    /\ activities \in [first : Day, last : Day, open : BOOLEAN]
    /\ held \in BOOLEAN
    /\ owed \in BOOLEAN
    /\ row \in [known : BOOLEAN, closed : Day \union {NoDay},
                source : Provider \union {NoSource}, errors : 0..MaxErrors]
    /\ quotes \in [Provider -> SUBSET Day]
    /\ locked \in BOOLEAN
    /\ calls \in [Caller -> [pc : {"idle", "plan", "run"}, mode : {"incremental", "resync"},
                             targeted : BOOLEAN, split : BOOLEAN]]
    /\ tasks \in [Caller -> Seq(Task)] /\ \A c \in Caller : Len(tasks[c]) <= 2
    /\ used \in 0..MaxEvents

\* At most one plan works on the asset, and the lock is held exactly as long
\* (SyncLockGuard: every way out of sync_asset drops it, and a plan that was
\* skipped must not free the lock of the plan at work).
AtWork == {w \in Caller \X Slot : w[2] \in DOMAIN tasks[w[1]] /\ tasks[w[1]][w[2]].pc \in Working}

OneAtWork ==
    /\ \A v, w \in AtWork : v = w
    /\ locked <=> AtWork # {}

\* The stored history has no hole (calculate_sync_window, sync_asset): planning
\* only looks at the first and the last stored day of one provider, so a day in
\* between that no provider has would never be asked for again.  The days before
\* the buffer, which only a backfill stores, are not wanted by anyone.
NoHole ==
    \A d \in Wanted(activities.first) :
        (\E e \in Priced : e < d) /\ (\E e \in Priced : e > d) => d \in Priced

\* The asset of an open position is priced in the end from the buffer before its
\* first activity to today (SyncMode::Incremental, sync), unless the asset was
\* given up after MAX_SYNC_ERRORS or its sync state still says closed.
Followed == activities.open /\ row.closed = NoDay /\ row.errors < MaxErrors

EventuallyPriced == <>[](Followed => Wanted(activities.first) \subseteq Priced)

=============================================================================
