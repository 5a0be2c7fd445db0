--------------------------- MODULE QuoteSyncProofs ---------------------------
(***************************************************************************)
(* Proofs about QuoteSync, for any providers, any lengths in days and any  *)
(* number of edits and crashes: who holds the lock of the asset, and that  *)
(* its history has no hole.                                                *)
(***************************************************************************)
EXTENDS QuoteSync, SequenceTheorems, WellFoundedInduction, TLAPS

Row == [known : BOOLEAN, closed : Day \union {NoDay},
        source : Provider \union {NoSource}, errors : 0..MaxErrors]

Call == [pc : {"idle", "plan", "run"}, mode : {"incremental", "resync"},
         targeted : BOOLEAN, split : BOOLEAN]

-----------------------------------------------------------------------------
(***************************************************************************)
(* The plans.                                                              *)
(***************************************************************************)
\* A plan is of its type whatever its window, and is not at work yet.
LEMMA PlanTyped ==
    ASSUME today \in Day, NEW window, NEW purge \in BOOLEAN, NEW lenient \in BOOLEAN
    PROVE  /\ Plan(window, purge, lenient) \in Task
           /\ Plan(window, purge, lenient).pc = "ready"
BY DEF Plan, Task

\* A plan that has ended is of its type.
LEMMA FinishedTyped == Finished \in Task /\ Finished.pc = "done" /\ Finished.pc \notin Working
<1>1. {d \in Day : <<1, 0>>[1] <= d /\ d <= <<1, 0>>[2]} \subseteq Day
  OBVIOUS
<1> QED
  BY <1>1 DEF Finished, Plan, Task, Working

ReadyPlans == {p \in Seq(Task) : Len(p) <= 2 /\ \A i \in DOMAIN p : p[i].pc = "ready"}

LEMMA FewPlans ==
    ASSUME NEW p \in Task, p.pc = "ready", NEW q \in Task, q.pc = "ready"
    PROVE  <<>> \in ReadyPlans /\ <<p>> \in ReadyPlans /\ <<p, q>> \in ReadyPlans
BY DEF ReadyPlans

\* What planning returns is a list of at most two plans, none of them at work.
LEMMA PlansReady ==
    ASSUME today \in Day, NEW targeted \in BOOLEAN
    PROVE  IncrementalPlans(targeted) \in ReadyPlans /\ ResyncPlans(targeted) \in ReadyPlans
<1>1. \A p, q \in Task : p.pc = "ready" /\ q.pc = "ready" =>
          <<>> \in ReadyPlans /\ <<p>> \in ReadyPlans /\ <<p, q>> \in ReadyPlans
  BY FewPlans
<1>2. ASSUME NEW w PROVE Plan(w, FALSE, FALSE) \in Task /\ Plan(w, FALSE, FALSE).pc = "ready"
  BY PlanTyped
<1>3. ASSUME NEW w PROVE Plan(w, FALSE, TRUE) \in Task /\ Plan(w, FALSE, TRUE).pc = "ready"
  BY PlanTyped
<1>4. ASSUME NEW w, NEW lenient \in BOOLEAN
      PROVE  Plan(w, TRUE, lenient) \in Task /\ Plan(w, TRUE, lenient).pc = "ready"
  BY PlanTyped
<1>5. <<>> \in ReadyPlans
  BY <1>1, <1>2
<1>6. IncrementalPlans(targeted) \in ReadyPlans
  <2> DEFINE cat == CategoryOf
             lenient == cat = "NeedsBackfill"
  <2>1. Plan(Window(cat), FALSE, lenient) \in Task /\ Plan(Window(cat), FALSE, lenient).pc = "ready"
    BY PlanTyped
  <2>2. <<Plan(Window(cat), FALSE, lenient)>> \in ReadyPlans
    BY <1>1, <2>1
  <2>3. <<Plan(RecentWindow, FALSE, FALSE), Plan(BackfillWindow, FALSE, TRUE)>> \in ReadyPlans
    BY <1>1, <1>2, <1>3
  <2>4. <<Plan(ClosedWindow, FALSE, FALSE)>> \in ReadyPlans
    BY <1>1, <1>2
  <2> QED
    BY <1>5, <2>2, <2>3, <2>4 DEF IncrementalPlans
<1>7. ResyncPlans(targeted) \in ReadyPlans
  BY <1>1, <1>4 DEF ResyncPlans
<1> QED
  BY <1>6, <1>7

\* One plan of one caller changes, everything else stays.
LEMMA OneChanges ==
    ASSUME tasks \in [Caller -> Seq(Task)],
           NEW c \in Caller, NEW i \in DOMAIN tasks[c], NEW t \in Task,
           tasks' = [tasks EXCEPT ![c] = [tasks[c] EXCEPT ![i] = t]]
    PROVE  /\ tasks' \in [Caller -> Seq(Task)]
           /\ \A k \in Caller : Len(tasks'[k]) = Len(tasks[k]) /\ DOMAIN tasks'[k] = DOMAIN tasks[k]
           /\ \A k \in Caller : \A j \in DOMAIN tasks[k] :
                 tasks'[k][j] = IF k = c /\ j = i THEN t ELSE tasks[k][j]
<1> DEFINE s == [tasks[c] EXCEPT ![i] = t]
<1>1. tasks[c] \in Seq(Task) /\ i \in 1..Len(tasks[c])
  OBVIOUS
<1>2. s \in Seq(Task) /\ Len(s) = Len(tasks[c]) /\ DOMAIN s = DOMAIN tasks[c]
  BY <1>1, ExceptSeq
<1>3. \A j \in DOMAIN tasks[c] : s[j] = IF j = i THEN t ELSE tasks[c][j]
  OBVIOUS
<1> HIDE DEF s
<1>4. tasks' = [tasks EXCEPT ![c] = s]
  BY DEF s
<1> QED
  BY <1>2, <1>3, <1>4

\* The same, as the lock sees it.
LEMMA AtWorkThen ==
    ASSUME tasks \in [Caller -> Seq(Task)],
           NEW c \in Caller, NEW i \in Slot, i \in DOMAIN tasks[c], NEW t \in Task,
           tasks' = [tasks EXCEPT ![c] = [tasks[c] EXCEPT ![i] = t]]
    PROVE  /\ t.pc \in Working => AtWork' = AtWork \union {<<c, i>>}
           /\ t.pc \notin Working => AtWork' = AtWork \ {<<c, i>>}
<1>1. \A k \in Caller, j \in Slot :
          <<k, j>> \in AtWork' <=>
              /\ j \in DOMAIN tasks[k]
              /\ IF k = c /\ j = i THEN t.pc \in Working ELSE tasks[k][j].pc \in Working
  BY OneChanges DEF AtWork
<1>2. \A k \in Caller, j \in Slot :
          <<k, j>> \in AtWork <=> j \in DOMAIN tasks[k] /\ tasks[k][j].pc \in Working
  BY DEF AtWork
<1>3. AtWork \subseteq Caller \X Slot /\ AtWork' \subseteq Caller \X Slot
  BY DEF AtWork
<1>4. ASSUME NEW k \in Caller, NEW j \in Slot
      PROVE  /\ t.pc \in Working =>
                    (<<k, j>> \in AtWork' <=> <<k, j>> \in AtWork \union {<<c, i>>})
             /\ t.pc \notin Working =>
                    (<<k, j>> \in AtWork' <=> <<k, j>> \in AtWork \ {<<c, i>>})
  <2>1. CASE k = c /\ j = i
    BY <1>1, <1>2, <2>1
  <2>2. CASE ~(k = c /\ j = i)
    <3>1. <<k, j>> # <<c, i>>
      BY <2>2
    <3> QED
      BY <1>1, <1>2, <2>2, <3>1
  <2> QED
    BY <2>1, <2>2
<1> QED
  BY <1>3, <1>4

\* A plan of the list changes: how it takes part in the lock before and after.
LEMMA LockFollows ==
    ASSUME TypeOK, OneAtWork,
           NEW c \in Caller, NEW i \in Slot, i \in DOMAIN tasks[c], NEW t \in Task,
           tasks' = [tasks EXCEPT ![c] = [tasks[c] EXCEPT ![i] = t]],
           \/ /\ tasks[c][i].pc \in Working /\ t.pc \in Working /\ locked' = locked
           \/ /\ tasks[c][i].pc \in Working /\ t.pc \notin Working /\ locked' = FALSE
           \/ /\ tasks[c][i].pc \notin Working /\ t.pc \notin Working /\ locked' = locked
           \/ /\ ~locked /\ t.pc \in Working /\ locked' = TRUE
    PROVE  OneAtWork'
<1>1. /\ t.pc \in Working => AtWork' = AtWork \union {<<c, i>>}
      /\ t.pc \notin Working => AtWork' = AtWork \ {<<c, i>>}
  BY AtWorkThen DEF TypeOK
<1>2. <<c, i>> \in AtWork <=> tasks[c][i].pc \in Working
  BY DEF AtWork
<1>3. CASE tasks[c][i].pc \in Working /\ t.pc \in Working /\ locked' = locked
  BY <1>1, <1>2, <1>3 DEF OneAtWork
<1>4. CASE tasks[c][i].pc \in Working /\ t.pc \notin Working /\ locked' = FALSE
  <2>1. AtWork' = {}
    BY <1>1, <1>2, <1>4 DEF OneAtWork
  <2> QED
    BY <1>4, <2>1 DEF OneAtWork
<1>5. CASE tasks[c][i].pc \notin Working /\ t.pc \notin Working /\ locked' = locked
  BY <1>1, <1>2, <1>5 DEF OneAtWork
<1>6. CASE ~locked /\ t.pc \in Working /\ locked' = TRUE
  <2>1. AtWork' = {<<c, i>>}
    BY <1>1, <1>6 DEF OneAtWork
  <2> QED
    BY <1>6, <2>1 DEF OneAtWork
<1> QED
  BY <1>3, <1>4, <1>5, <1>6

-----------------------------------------------------------------------------

\* A caller that is not running its plans has none (MakePlans, EndPeriodic, EndJob).
ListsSound == \A c \in Caller : calls[c].pc # "run" => tasks[c] = <<>>

LockInv == TypeOK /\ OneAtWork /\ ListsSound

\* What the row becomes when the position is looked at is a row.
LEMMA ReconciledTyped ==
    ASSUME TypeOK, NEW holds \in BOOLEAN
    PROVE  Reconciled(holds) \in Row
<1>1. NewRow \in Row
  BY QuoteAssumption DEF NewRow, Row
<1>2. row \in Row /\ today \in Day
  BY DEF TypeOK, Row
<1>3. [row EXCEPT !.closed = NoDay] \in Row /\ [row EXCEPT !.closed = today] \in Row
  BY <1>2 DEF Row
<1> QED
  BY <1>1, <1>2, <1>3 DEF Reconciled

\* A step of one plan: it stays of its type, the lock follows it, the list stays.
LEMMA PlanSteps ==
    ASSUME LockInv, NEW c \in Caller, NEW i \in Slot,
           Serve(c, i) \/ FetchEnds(c, i) \/ WriteFails(c, i)
    PROVE  LockInv'
<1>0. /\ tasks \in [Caller -> Seq(Task)] /\ row \in Row /\ OneAtWork
      /\ \A k \in Caller : Len(tasks[k]) <= 2
  BY DEF LockInv, TypeOK, Row
<1>1. i \in DOMAIN tasks[c]
  BY DEF Serve, FetchEnds, WriteFails, Skip, Start, Purge, Save, Mark, WriteSource, Answer,
         AnswerEmpty, FetchFails, PurgeFails, SaveFails, Startable, At
<1> DEFINE old == tasks[c][i]
<1>2. old \in Task
  BY <1>0, <1>1
<1> HIDE DEF old
<1>3. ASSUME NEW t \in Task,
             tasks' = [tasks EXCEPT ![c] = [tasks[c] EXCEPT ![i] = t]],
             \/ /\ old.pc \in Working /\ t.pc \in Working /\ locked' = locked
             \/ /\ old.pc \in Working /\ t.pc \notin Working /\ locked' = FALSE
             \/ /\ old.pc \notin Working /\ t.pc \notin Working /\ locked' = locked
             \/ /\ ~locked /\ t.pc \in Working /\ locked' = TRUE,
             row' \in Row, quotes' \in [Provider -> SUBSET Day],
             UNCHANGED <<today, activities, held, owed, calls, used>>
      PROVE  LockInv'
  <2>1. OneAtWork'
    BY <1>0, <1>1, <1>3, LockFollows DEF LockInv, old
  <2>2. /\ tasks' \in [Caller -> Seq(Task)]
        /\ \A k \in Caller : Len(tasks'[k]) = Len(tasks[k])
    BY <1>0, <1>1, <1>3, OneChanges
  <2>3. locked' \in BOOLEAN
    BY <1>3 DEF LockInv, TypeOK
  <2>4. TypeOK'
    BY <1>0, <1>3, <2>2, <2>3 DEF LockInv, TypeOK, Row
  <2>5. ASSUME NEW k \in Caller, calls'[k].pc # "run" PROVE tasks'[k] = <<>>
    <3>1. tasks[k] = <<>>
      BY <1>3, <2>5 DEF LockInv, ListsSound
    <3>2. tasks'[k] \in Seq(Task) /\ Len(tasks'[k]) = 0
      BY <2>2, <3>1
    <3> QED
      BY <3>2
  <2> QED
    BY <2>1, <2>4, <2>5 DEF LockInv, ListsSound
<1>4. /\ Finished \in Task /\ Finished.pc \notin Working
      /\ \A pc \in {"ready", "done"} \union Working :
            [old EXCEPT !.pc = pc] \in Task /\ [old EXCEPT !.pc = pc].pc = pc
  BY <1>2, FinishedTyped DEF Task
<1>5. ASSUME NEW errors \in 0..MaxErrors, old.pc \in Working, EndTask(c, i, errors),
             UNCHANGED <<today, activities, held, owed, quotes, calls, used>>
      PROVE  LockInv'
  <2>1. row' \in Row
    BY <1>0, <1>5 DEF EndTask, Row
  <2>2. quotes' \in [Provider -> SUBSET Day]
    BY <1>5 DEF LockInv, TypeOK
  <2> QED
    BY <1>3, <1>4, <1>5, <2>1, <2>2 DEF EndTask
<1>6. /\ OneMoreError \in 0..MaxErrors /\ 0 \in 0..MaxErrors
  BY <1>0, QuoteAssumption DEF OneMoreError, Row
<1>7. UNCHANGED <<row, quotes>> => row' \in Row /\ quotes' \in [Provider -> SUBSET Day]
  BY <1>0 DEF LockInv, TypeOK
<1>8. CASE Skip(c, i)
  BY <1>3, <1>4, <1>7, <1>8 DEF Skip, Startable, old, Working
<1>9. CASE Start(c, i)
  <2>1. tasks' = [tasks EXCEPT ![c] = [tasks[c] EXCEPT ![i] = [old EXCEPT !.pc = "fetch"]]]
    BY <1>9 DEF Start, old
  <2> QED
    BY <1>3, <1>4, <1>7, <1>9, <2>1 DEF Start, Working
<1>10. CASE Purge(c, i)
  <2>1. tasks' = [tasks EXCEPT ![c] = [tasks[c] EXCEPT ![i] = [old EXCEPT !.pc = "save"]]]
    BY <1>10 DEF Purge, old
  <2>2. old.pc \in Working /\ quotes' \in [Provider -> SUBSET Day] /\ row' \in Row
    BY <1>0, <1>10 DEF Purge, At, Working, old
  <2> QED
    BY <1>3, <1>4, <1>10, <2>1, <2>2 DEF Purge, Working
<1>11. CASE Save(c, i)
  <2> DEFINE t == [Finished EXCEPT !.pc = "mark", !.by = old.by]
  <2>1. t \in Task /\ t.pc = "mark"
    BY <1>2, <1>4 DEF Task, Working
  <2>2. tasks' = [tasks EXCEPT ![c] = [tasks[c] EXCEPT ![i] = t]]
    BY <1>11 DEF Save, old
  <2>3. old.pc \in Working /\ row' \in Row
    BY <1>0, <1>11 DEF Save, At, Working, old
  <2>4. quotes' \in [Provider -> SUBSET Day]
    <3>1. old.days \subseteq Day
      BY <1>2 DEF Task
    <3>2. Offered(old.by, old) \subseteq Day
      BY <3>1 DEF Offered
    <3>3. quotes' = [quotes EXCEPT ![old.by] = @ \union Offered(old.by, old)]
      BY <1>11 DEF Save, old
    <3>4. quotes \in [Provider -> SUBSET Day]
      BY DEF LockInv, TypeOK
    <3> QED
      BY <3>2, <3>3, <3>4
  <2> HIDE DEF t
  <2> QED
    BY <1>3, <1>11, <2>1, <2>2, <2>3, <2>4 DEF Save, Working
<1>12. CASE Mark(c, i)
  <2>1. old.pc \in Working
    BY <1>12 DEF Mark, At, Working, old
  <2>2. CASE EndTask(c, i, 0)
    BY <1>5, <1>6, <1>12, <2>1, <2>2 DEF Mark
  <2>3. CASE /\ row' = [row EXCEPT !.errors = 0]
             /\ tasks' = [tasks EXCEPT ![c][i].pc = "source", ![c][i].closed = row.closed]
             /\ UNCHANGED locked
    <3> DEFINE t == [old EXCEPT !.pc = "source", !.closed = row.closed]
    <3>1. t \in Task /\ t.pc = "source"
      BY <1>0, <1>2 DEF Task, Row, Working
    <3>2. tasks' = [tasks EXCEPT ![c] = [tasks[c] EXCEPT ![i] = t]]
      BY <1>0, <1>1, <2>3 DEF old
    <3>3. row' \in Row /\ quotes' \in [Provider -> SUBSET Day]
      BY <1>0, <1>6, <1>12, <2>3 DEF Mark, Row, LockInv, TypeOK
    <3> HIDE DEF t
    <3> QED
      BY <1>3, <1>12, <2>1, <2>3, <3>1, <3>2, <3>3 DEF Mark, Working
  <2> QED
    BY <1>12, <2>2, <2>3 DEF Mark
<1>13. CASE WriteSource(c, i)
  <2>1. tasks' = [tasks EXCEPT ![c] = [tasks[c] EXCEPT ![i] = Finished]]
    BY <1>13 DEF WriteSource
  <2>2. old.pc \in Working /\ quotes' \in [Provider -> SUBSET Day]
    BY <1>13 DEF WriteSource, At, Working, old, LockInv, TypeOK
  <2>3. NewRow \in Row
    BY QuoteAssumption DEF NewRow, Row
  <2>4. row' = [NewRow EXCEPT !.source = old.by, !.closed = old.closed]
    BY <1>13 DEF WriteSource, old
  <2>5. row' \in Row
    BY <1>2, <2>3, <2>4 DEF Task, Row
  <2> QED
    BY <1>3, <1>4, <1>13, <2>1, <2>2, <2>5 DEF WriteSource
<1>14. CASE Answer(c, i)
  <2>1. PICK p \in Provider :
            /\ At(c, i, "fetch")
            /\ tasks' = [tasks EXCEPT ![c][i].pc = IF tasks[c][i].purge THEN "purge" ELSE "save",
                                      ![c][i].by = p]
            /\ UNCHANGED <<today, activities, held, owed, row, quotes, locked, calls, used>>
    BY <1>14 DEF Answer
  <2> DEFINE pc == IF old.purge THEN "purge" ELSE "save"
             t == [old EXCEPT !.pc = pc, !.by = p]
  <2>2. pc \in Working
    BY DEF Working
  <2>3. t \in Task /\ t.pc \in Working
    BY <1>2, <2>2 DEF Task
  <2>4. tasks' = [tasks EXCEPT ![c] = [tasks[c] EXCEPT ![i] = t]]
    BY <1>0, <1>1, <2>1 DEF old
  <2>5. old.pc \in Working
    BY <2>1 DEF At, Working, old
  <2> HIDE DEF t, pc
  <2> QED
    BY <1>3, <1>7, <2>1, <2>3, <2>4, <2>5
<1>15. CASE AnswerEmpty(c, i)
  BY <1>5, <1>6, <1>15 DEF AnswerEmpty, At, Working, old
<1>16. CASE \E nodata \in BOOLEAN : FetchFails(c, i, nodata)
  <2>1. PICK nodata \in BOOLEAN : FetchFails(c, i, nodata)
    BY <1>16
  <2>2. (IF tasks[c][i].lenient /\ nodata THEN 0 ELSE OneMoreError) \in 0..MaxErrors
    BY <1>6
  <2> QED
    BY <1>5, <2>1, <2>2 DEF FetchFails, At, Working, old
<1>17. CASE PurgeFails(c, i)
  <2>1. tasks' = [tasks EXCEPT ![c] = [tasks[c] EXCEPT ![i] = [old EXCEPT !.pc = "save"]]]
    BY <1>17 DEF PurgeFails, old
  <2>2. old.pc \in Working
    BY <1>17 DEF PurgeFails, At, Working, old
  <2> QED
    BY <1>3, <1>4, <1>7, <1>17, <2>1, <2>2 DEF PurgeFails, Working
<1>18. CASE SaveFails(c, i)
  BY <1>5, <1>6, <1>18 DEF SaveFails, At, Working, old
<1> QED
  BY <1>8, <1>9, <1>10, <1>11, <1>12, <1>13, <1>14, <1>15, <1>16, <1>17, <1>18
     DEF Serve, FetchEnds, WriteFails

\* One caller's list is replaced, by one of which no plan is at work or by none.
LEMMA ListReplaced ==
    ASSUME LockInv, NEW c \in Caller, NEW list \in ReadyPlans,
           \A i \in DOMAIN tasks[c] : tasks[c][i].pc \notin Working,
           tasks' = [tasks EXCEPT ![c] = list], locked' = locked
    PROVE  /\ tasks' \in [Caller -> Seq(Task)] /\ \A k \in Caller : Len(tasks'[k]) <= 2
           /\ OneAtWork'
<1>1. tasks \in [Caller -> Seq(Task)] /\ \A k \in Caller : Len(tasks[k]) <= 2
  BY DEF LockInv, TypeOK
<1>2. list \in Seq(Task) /\ Len(list) <= 2 /\ \A i \in DOMAIN list : list[i].pc \notin Working
  BY DEF ReadyPlans, Working
<1>3. \A k \in Caller : tasks'[k] = IF k = c THEN list ELSE tasks[k]
  BY <1>1
<1>4. tasks' \in [Caller -> Seq(Task)] /\ \A k \in Caller : Len(tasks'[k]) <= 2
  BY <1>1, <1>2, <1>3
<1>5. AtWork' = AtWork
  <2>1. \A k \in Caller, j \in Slot : <<k, j>> \in AtWork' <=> <<k, j>> \in AtWork
    <3>1. ASSUME NEW k \in Caller, NEW j \in Slot
          PROVE  <<k, j>> \in AtWork' <=> <<k, j>> \in AtWork
      <4>1. <<k, j>> \in AtWork <=> j \in DOMAIN tasks[k] /\ tasks[k][j].pc \in Working
        BY DEF AtWork
      <4>2. <<k, j>> \in AtWork' <=> j \in DOMAIN tasks'[k] /\ tasks'[k][j].pc \in Working
        BY DEF AtWork
      <4> QED
        BY <1>2, <1>3, <4>1, <4>2
    <3> QED
      BY <3>1
  <2>2. AtWork \subseteq Caller \X Slot /\ AtWork' \subseteq Caller \X Slot
    BY DEF AtWork
  <2> QED
    BY <2>1, <2>2
<1>6. OneAtWork'
  BY <1>5 DEF LockInv, OneAtWork
<1> QED
  BY <1>4, <1>6

\* Planning: the caller's list was empty and is filled.
LEMMA PlanningSteps ==
    ASSUME LockInv, NEW c \in Caller, NEW call \in Call, NEW split \in BOOLEAN,
           calls[c].pc # "run", MakePlans(c, call, split)
    PROVE  LockInv'
<1> DEFINE plans == IF call.mode = "resync" THEN ResyncPlans(call.targeted)
                    ELSE IncrementalPlans(call.targeted)
<1>1. plans \in ReadyPlans
  <2>1. call.targeted \in BOOLEAN
    BY DEF Call
  <2> QED
    BY <2>1, PlansReady DEF LockInv, TypeOK
<1>2. /\ row' = IF plans # <<>> /\ ~row.known THEN NewRow ELSE row
      /\ tasks' = [tasks EXCEPT ![c] = plans]
      /\ calls' = [calls EXCEPT ![c] = [Idle EXCEPT !.pc = "run", !.split = split]]
      /\ UNCHANGED <<today, activities, held, owed, quotes, locked, used>>
  BY DEF MakePlans
<1> HIDE DEF plans
<1>3. tasks[c] = <<>>
  BY DEF LockInv, ListsSound
<1>4. /\ tasks' \in [Caller -> Seq(Task)] /\ \A k \in Caller : Len(tasks'[k]) <= 2
      /\ OneAtWork'
  <2>1. \A i \in DOMAIN tasks[c] : tasks[c][i].pc \notin Working
    BY <1>3
  <2>2. tasks' = [tasks EXCEPT ![c] = plans] /\ locked' = locked
    BY <1>2
  <2> QED
    BY <1>1, <2>1, <2>2, ListReplaced
<1>5. row' \in Row
  <2>1. NewRow \in Row
    BY QuoteAssumption DEF NewRow, Row
  <2>2. row \in Row
    BY DEF LockInv, TypeOK, Row
  <2> QED
    BY <1>2, <2>1, <2>2
<1>6. calls' \in [Caller -> Call] /\ calls'[c].pc = "run"
  <2>1. [Idle EXCEPT !.pc = "run", !.split = split] \in Call
    BY DEF Idle, Call
  <2>2. [Idle EXCEPT !.pc = "run", !.split = split].pc = "run"
    BY DEF Idle
  <2>3. calls \in [Caller -> Call]
    BY DEF LockInv, TypeOK, Call
  <2> QED
    BY <1>2, <2>1, <2>2, <2>3
<1>7. TypeOK'
  BY <1>2, <1>4, <1>5, <1>6 DEF LockInv, TypeOK, Row, Call
<1>8. ListsSound'
  <2>1. \A k \in Caller : k # c => calls'[k] = calls[k] /\ tasks'[k] = tasks[k]
    BY <1>2 DEF LockInv, TypeOK
  <2> QED
    BY <1>6, <2>1 DEF LockInv, ListsSound
<1> QED
  BY <1>4, <1>7, <1>8 DEF LockInv

\* A portfolio job that starts has no plans yet.
LEMMA JobStarts ==
    ASSUME LockInv, NEW mode \in {"incremental", "resync"}, NEW targeted \in BOOLEAN,
           StartPortfolio(mode, targeted), owed' \in BOOLEAN, used' \in 0..MaxEvents
    PROVE  LockInv'
<1>1. [Idle EXCEPT !.pc = "plan", !.mode = mode, !.targeted = targeted] \in Call
  BY DEF Idle, Call
<1>2. calls' \in [Caller -> Call]
  BY <1>1 DEF StartPortfolio, LockInv, TypeOK, Call
<1>3. row' \in Row
  <2>1. held \in BOOLEAN
    BY DEF LockInv, TypeOK
  <2>2. Reconciled(held) \in Row
    BY <2>1, ReconciledTyped DEF LockInv
  <2> QED
    BY <2>2 DEF StartPortfolio
<1>4. TypeOK'
  BY <1>2, <1>3 DEF StartPortfolio, LockInv, TypeOK, Row, Call
<1>5. OneAtWork'
  BY DEF StartPortfolio, LockInv, OneAtWork, AtWork
<1>6. ListsSound'
  <2>1. tasks["portfolio"] = <<>>
    BY DEF StartPortfolio, LockInv, ListsSound, Caller
  <2>2. tasks' = tasks /\ \A k \in Caller : k # "portfolio" => calls'[k] = calls[k]
    BY DEF StartPortfolio, LockInv, TypeOK
  <2> QED
    BY <2>1, <2>2 DEF LockInv, ListsSound
<1> QED
  BY <1>4, <1>5, <1>6 DEF LockInv

\* A call ends when none of its plans is at work.
LEMMA CallEnds ==
    ASSUME LockInv, NEW c \in Caller, AllDone(c),
           tasks' = [tasks EXCEPT ![c] = <<>>], calls' = [calls EXCEPT ![c] = Idle],
           row' \in Row, held' \in BOOLEAN,
           UNCHANGED <<today, activities, owed, quotes, locked, used>>
    PROVE  LockInv'
<1>1. \A i \in DOMAIN tasks[c] : tasks[c][i].pc \notin Working
  BY DEF AllDone, Working
<1>2. <<>> \in ReadyPlans
  BY DEF ReadyPlans
<1>3. /\ tasks' \in [Caller -> Seq(Task)] /\ \A k \in Caller : Len(tasks'[k]) <= 2
      /\ OneAtWork'
  BY <1>1, <1>2, ListReplaced
<1>4. calls' \in [Caller -> Call]
  BY DEF LockInv, TypeOK, Call, Idle
<1>5. TypeOK'
  BY <1>3, <1>4 DEF LockInv, TypeOK, Row, Call
<1>6. ListsSound'
  <2>1. \A k \in Caller : k # c => calls'[k] = calls[k] /\ tasks'[k] = tasks[k]
    BY DEF LockInv, TypeOK
  <2>2. tasks'[c] = <<>>
    BY DEF LockInv, TypeOK
  <2> QED
    BY <2>1, <2>2 DEF LockInv, ListsSound
<1> QED
  BY <1>3, <1>5, <1>6 DEF LockInv

\* The lock and the lists do not look at the day, the activities and the history.
LEMMA WorldMoves ==
    ASSUME LockInv, UNCHANGED <<held, row, quotes, locked, calls, tasks>>,
           today' \in Day, owed' \in BOOLEAN, used' \in 0..MaxEvents,
           activities' \in [first : Day, last : Day, open : BOOLEAN]
    PROVE  LockInv'
<1>1. TypeOK'
  BY DEF LockInv, TypeOK
<1>2. OneAtWork' /\ ListsSound'
  BY DEF LockInv, OneAtWork, AtWork, ListsSound
<1> QED
  BY <1>1, <1>2 DEF LockInv

LEMMA InitLock == Init => LockInv
<1> SUFFICES ASSUME Init PROVE LockInv
  OBVIOUS
<1>1. PICK d \in Buffer..FirstToday, open \in BOOLEAN :
          activities = [first |-> d, last |-> FirstToday, open |-> open]
  BY DEF Init
<1>2. activities \in [first : Day, last : Day, open : BOOLEAN] /\ today \in Day
  <2>1. d \in Day /\ FirstToday \in Day
    BY QuoteAssumption DEF Day
  <2> QED
    BY <1>1, <2>1 DEF Init
<1>3. row \in Row
  <2>1. NewRow \in Row
    BY QuoteAssumption DEF NewRow, Row
  <2> QED
    BY <2>1 DEF Init, Row
<1>4. calls \in [Caller -> Call] /\ quotes \in [Provider -> SUBSET Day]
  BY DEF Init, Idle, Call
<1>5. /\ tasks \in [Caller -> Seq(Task)] /\ \A c \in Caller : tasks[c] = <<>>
      /\ \A c \in Caller : Len(tasks[c]) <= 2
  BY DEF Init
<1>6. used \in 0..MaxEvents
  BY QuoteAssumption DEF Init
<1>7. TypeOK
  BY <1>2, <1>3, <1>4, <1>5, <1>6 DEF Init, TypeOK, Row, Call
<1>8. OneAtWork
  <2>1. AtWork = {}
    BY <1>5 DEF AtWork
  <2> QED
    BY <2>1 DEF OneAtWork, Init
<1> QED
  BY <1>5, <1>7, <1>8 DEF LockInv, ListsSound

LEMMA NextLock == LockInv /\ [Next]_vars => LockInv'
<1> SUFFICES ASSUME LockInv, [Next]_vars PROVE LockInv'
  OBVIOUS
<1>0. /\ today \in Day /\ owed \in BOOLEAN /\ used \in 0..MaxEvents /\ row \in Row
      /\ activities \in [first : Day, last : Day, open : BOOLEAN]
      /\ calls \in [Caller -> Call] /\ held \in BOOLEAN
      /\ "periodic" \in Caller /\ "portfolio" \in Caller
  BY DEF LockInv, TypeOK, Row, Call, Caller
<1>1. CASE \E split \in BOOLEAN : StartPeriodic(split)
  <2>1. Idle \in Call
    BY DEF Idle, Call
  <2> QED
    BY <1>0, <1>1, <2>1, PlanningSteps DEF StartPeriodic
<1>2. CASE EndPeriodic
  BY <1>0, <1>2, CallEnds DEF EndPeriodic
<1>3. CASE StartJob
  BY <1>0, <1>3, JobStarts DEF StartJob
<1>4. CASE \E split \in BOOLEAN : PlanJob(split)
  <2>1. calls["portfolio"] \in Call
    BY <1>0
  <2> QED
    BY <1>0, <1>4, <2>1, PlanningSteps DEF PlanJob
<1>5. CASE EndJob
  <2>1. activities.open \in BOOLEAN
    BY <1>0
  <2>2. row' \in Row
    BY <1>5, <2>1, ReconciledTyped DEF EndJob, LockInv
  <2> QED
    BY <1>0, <1>5, <2>1, <2>2, CallEnds DEF EndJob
<1>6. CASE \E targeted \in BOOLEAN : StartResync(targeted)
  <2>1. used' \in 0..MaxEvents
    BY <1>0, <1>6, QuoteAssumption DEF StartResync
  <2>2. owed' \in BOOLEAN
    BY <1>0, <1>6 DEF StartResync
  <2> QED
    BY <1>6, <2>1, <2>2, JobStarts DEF StartResync
<1>7. CASE \E c \in Caller : TasksGoOn(c)
  BY <1>7, PlanSteps DEF TasksGoOn
<1>8. CASE \E c \in Caller, i \in Slot : WriteFails(c, i)
  BY <1>8, PlanSteps
<1>9. CASE Tick
  <2>1. today' \in Day
    BY <1>0, <1>9, QuoteAssumption DEF Tick, Day
  <2> QED
    BY <1>0, <1>9, <2>1, WorldMoves DEF Tick
<1>10. ASSUME Edits PROVE used' \in 0..MaxEvents /\ owed' \in BOOLEAN
  <2>1. used' \in 0..MaxEvents
    BY <1>0, <1>10, QuoteAssumption DEF Edits
  <2> QED
    BY <1>10, <2>1 DEF Edits
<1>11. CASE Trade
  <2>1. activities' \in [first : Day, last : Day, open : BOOLEAN]
    BY <1>0, <1>11 DEF Trade
  <2> QED
    BY <1>0, <1>10, <1>11, <2>1, WorldMoves DEF Trade, Edits
<1>12. CASE \E d \in Day : Backdate(d)
  <2>1. activities' \in [first : Day, last : Day, open : BOOLEAN]
    BY <1>0, <1>12 DEF Backdate
  <2> QED
    BY <1>0, <1>10, <1>12, <2>1, WorldMoves DEF Backdate, Edits
<1>13. CASE Crash
  <2>1. used' \in 0..MaxEvents
    BY <1>0, <1>13, QuoteAssumption DEF Crash
  <2>2. /\ tasks' \in [Caller -> Seq(Task)] /\ \A c \in Caller : tasks'[c] = <<>>
        /\ \A c \in Caller : Len(tasks'[c]) <= 2
    BY <1>13 DEF Crash
  <2>3. calls' \in [Caller -> Call]
    BY <1>13 DEF Crash, Idle, Call
  <2>4. AtWork' = {}
    BY <2>2 DEF AtWork
  <2>5. TypeOK'
    BY <1>0, <1>13, <2>1, <2>2, <2>3 DEF Crash, LockInv, TypeOK, Call
  <2>6. OneAtWork'
    BY <1>13, <2>4 DEF OneAtWork, Crash
  <2> QED
    BY <2>2, <2>5, <2>6 DEF LockInv, ListsSound
<1>14. CASE UNCHANGED vars
  BY <1>0, <1>14, WorldMoves DEF vars
<1> QED
  BY <1>1, <1>2, <1>3, <1>4, <1>5, <1>6, <1>7, <1>8, <1>9, <1>11, <1>12, <1>13, <1>14
     DEF Next, PeriodicStep, JobStep

\* The lock of the asset is held by exactly the plan that works on it, whatever
\* is skipped, fails or is lost in a crash (sync_asset, SyncLockGuard).
THEOREM LockHolds == Spec => []LockInv
BY InitLock, NextLock, PTL DEF Spec

\* Every variable has its type.
THEOREM TypeCorrect == Spec => []TypeOK
BY LockHolds, PTL DEF LockInv

\* At most one plan works on the asset, and the lock is held exactly as long.
THEOREM OneAtWorkHolds == Spec => []OneAtWork
BY LockHolds, PTL DEF LockInv

-----------------------------------------------------------------------------
(***************************************************************************)
(* No hole in the history.  Of the wanted days that providers have, those  *)
(* up to the last stored one are stored, but for the moments between the   *)
(* two writes of a resync.  A plan fits a set of days if it stores nothing *)
(* beyond a day that neither it nor the set has.  Every plan has to fit    *)
(* what is stored, and what any resync will store in its place.            *)
(***************************************************************************)
\* The days from which on the history is wanted and there is one.
Zone == {d \in Day : \E p \in Provider : Since[p] <= d /\ activities.first - Buffer <= d}

Fits(zone, days, stored) == \A x \in days : \A d \in zone : d <= x => d \in days \union stored

Plans == {t \in Task : \E c \in Caller : \E i \in DOMAIN tasks[c] : t = tasks[c][i]}

\* A resync has purged the history, or tried to, and has yet to store its own.
Refilling == \E u \in Plans : u.pc = "save" /\ u.purge

PlanOK(t, zone, now) ==
    /\ \A x \in t.days : x <= now
    /\ t.pc \in Pending => t.made \in Day /\ t.made <= now /\ now <= t.made + MaxDelay
    /\ t.pc \in {"purge", "save"} => t.by \in Provider
    /\ t.pc = "purge" => t.purge
    /\ t.purge => t.pc \in Pending /\ \A d \in zone : d <= t.made => d \in t.days

PlansSound ==
    /\ \A t \in Plans : PlanOK(t, Zone, today) /\ (Fits(Zone, t.days, Priced) \/ Refilling)
    /\ \A t, u \in Plans : u.purge => Fits(Zone, t.days, u.days)

StoredSound ==
    /\ activities.first <= today
    /\ \A p \in Provider : \A e \in quotes[p] : Since[p] <= e /\ e <= today
    /\ Fits(Zone, Priced, Priced)

HistoryInv == LockInv /\ StoredSound /\ PlansSound

\* The providers have the same history, and plans are carried out in time.
SameHistory == \A p, q \in Provider : Since[p] = Since[q]
InTime == MaxDelay <= Overlap + 1

LEMMA DaysAreInts ==
    /\ \A d \in Day : d \in Int /\ d \in Nat /\ 0 <= d /\ d <= LastDay
    /\ LastDay \in Int /\ Buffer \in Int /\ Margin \in Int /\ Overlap \in Int
    /\ MinLookback \in Int /\ MaxDelay \in Int
    /\ 0 <= Buffer /\ 0 <= Margin /\ 0 <= Overlap /\ 0 <= MinLookback /\ 1 <= MaxDelay
    /\ MinLookback <= Buffer + Margin
    /\ Zone \subseteq Day
BY QuoteAssumption DEF Day, Zone

\* Some natural number of a set is the least.
LEMMA LeastExists ==
    ASSUME NEW S \in SUBSET Nat, S # {}
    PROVE  \E m \in S : \A k \in S : m <= k
<1>1. \E R : IsWellFoundedOn(R, Nat) /\ \A k, m \in Nat : <<k, m>> \in R <=> k < m
  <2> DEFINE Less == OpToRel(<, Nat)
  <2>1. IsWellFoundedOn(Less, Nat)
    BY NatLessThanWellFounded
  <2>2. \A k, m \in Nat : <<k, m>> \in Less <=> k < m
    BY DEF OpToRel
  <2> HIDE DEF Less
  <2> QED
    BY <2>1, <2>2
<1>2. PICK R : IsWellFoundedOn(R, Nat) /\ \A k, m \in Nat : <<k, m>> \in R <=> k < m
  BY <1>1
<1>3. PICK m \in S : \A k \in S : ~ (<<k, m>> \in R)
  <2>1. S \subseteq Nat
    OBVIOUS
  <2>2. IsWellFoundedOn(R, Nat)
    BY <1>2
  <2> QED
    BY <2>1, <2>2, WFMin
<1>4. \A k \in S : m <= k
  <2>1. \A k \in S : ~(k < m)
    BY <1>2, <1>3
  <2> QED
    BY <2>1
<1> QED
  BY <1>4

\* The first and the last day of a history.
LEMMA FirstAndLast ==
    ASSUME NEW S \in SUBSET Day, S # {}
    PROVE  /\ First(S) \in S /\ \A e \in S : First(S) <= e
           /\ Last(S) \in S /\ \A e \in S : e <= Last(S)
<1>0. S \subseteq Nat /\ LastDay \in Nat /\ \A e \in S : e <= LastDay
  BY DaysAreInts, QuoteAssumption
<1>1. \E m \in S : \A e \in S : m <= e
  BY <1>0, LeastExists
<1>2. \E m \in S : \A e \in S : e <= m
  <2> DEFINE Back == {LastDay - e : e \in S}
  <2>1. Back \in SUBSET Nat /\ Back # {}
    <3>1. \A e \in S : LastDay - e \in Nat
      BY <1>0
    <3> QED
      BY <3>1
  <2> HIDE DEF Back
  <2>2. PICK b \in Back : \A k \in Back : b <= k
    BY <2>1, LeastExists
  <2>3. PICK m \in S : b = LastDay - m
    BY <2>2 DEF Back
  <2>4. ASSUME NEW e \in S PROVE e <= m
    <3>1. LastDay - m <= LastDay - e
      BY <2>2, <2>3, <2>4 DEF Back
    <3> QED
      BY <1>0, <2>3, <2>4, <3>1
  <2> QED
    BY <2>3, <2>4
<1> QED
  BY <1>1, <1>2 DEF First, Last

\* The plans after one of them has changed.
LEMMA PlansThen ==
    ASSUME TypeOK, NEW c \in Caller, NEW i \in DOMAIN tasks[c], NEW t \in Task,
           tasks' = [tasks EXCEPT ![c] = [tasks[c] EXCEPT ![i] = t]]
    PROVE  /\ Plans' \subseteq Plans \union {t}
           /\ t \in Plans'
           /\ \A u \in Plans : u # tasks[c][i] => u \in Plans'
<1>1. tasks \in [Caller -> Seq(Task)]
  BY DEF TypeOK
<1>2. /\ \A k \in Caller : DOMAIN tasks'[k] = DOMAIN tasks[k]
      /\ \A k \in Caller : \A j \in DOMAIN tasks[k] :
            tasks'[k][j] = IF k = c /\ j = i THEN t ELSE tasks[k][j]
  BY <1>1, OneChanges
<1> QED
  BY <1>2 DEF Plans

\* The plans after a caller's list has been replaced.
LEMMA PlansReplaced ==
    ASSUME TypeOK, NEW c \in Caller, NEW list \in Seq(Task),
           tasks' = [tasks EXCEPT ![c] = list]
    PROVE  /\ \A t \in Plans' : t \in Plans \/ \E i \in DOMAIN list : t = list[i]
           /\ \A u \in Plans : u \in Plans' \/ \E i \in DOMAIN tasks[c] : u = tasks[c][i]
<1>1. \A k \in Caller : tasks'[k] = IF k = c THEN list ELSE tasks[k]
  BY DEF TypeOK
<1> QED
  BY <1>1 DEF Plans

\* The zone does not move: an activity may only be entered before the first one
\* if no other days become wanted by that.
LEMMA ZoneStays ==
    ASSUME Cases = {}, TypeOK, activities.first <= today, [Next]_vars
    PROVE  Zone' = Zone
<1>1. CASE activities'.first = activities.first
  BY <1>1 DEF Zone
<1>2. CASE \E d \in Day : Backdate(d)
  <2>1. PICK e \in Day : e < activities.first /\ Wanted(e) = Wanted(activities.first)
                         /\ activities' = [activities EXCEPT !.first = e]
    BY <1>2 DEF Backdate
  <2>2. activities'.first = e /\ activities.first \in Day /\ today \in Day
    BY <2>1 DEF TypeOK
  <2>3. ASSUME NEW d \in Day PROVE activities.first - Buffer <= d <=> e - Buffer <= d
    <3>1. CASE d <= today
      <4>1. d \in Wanted(e) <=> d \in Wanted(activities.first)
        BY <2>1
      <4> QED
        BY <3>1, <4>1 DEF Wanted
    <3>2. CASE ~(d <= today)
      BY <2>1, <2>2, <2>3, <3>2, DaysAreInts
    <3> QED
      BY <3>1, <3>2
  <2> QED
    BY <2>2, <2>3 DEF Zone
<1>3. activities'.first = activities.first \/ \E d \in Day : Backdate(d)
  <2>1. CASE Trade
    BY <2>1 DEF Trade, TypeOK
  <2>2. CASE UNCHANGED activities
    BY <2>2
  <2>3. ASSUME NEW c \in Caller, NEW i \in Slot,
               Serve(c, i) \/ FetchEnds(c, i) \/ WriteFails(c, i)
        PROVE  UNCHANGED activities
    BY <2>3 DEF Serve, FetchEnds, WriteFails, Skip, Start, Purge, Save, Mark, WriteSource,
                Answer, AnswerEmpty, FetchFails, PurgeFails, SaveFails
  <2>4. Trade \/ (\E d \in Day : Backdate(d)) \/ UNCHANGED activities
    <3>1. PeriodicStep \/ JobStep => UNCHANGED activities
      BY DEF PeriodicStep, JobStep, StartPeriodic, EndPeriodic, StartJob, PlanJob, EndJob,
             MakePlans, StartPortfolio
    <3>2. (\E targeted \in BOOLEAN : StartResync(targeted)) \/ Tick \/ Crash
          => UNCHANGED activities
      BY DEF StartResync, StartPortfolio, Tick, Crash
    <3>3. (\E c \in Caller : TasksGoOn(c)) \/ (\E c \in Caller, i \in Slot : WriteFails(c, i))
          => UNCHANGED activities
      BY <2>3 DEF TasksGoOn
    <3>4. UNCHANGED vars => UNCHANGED activities
      BY DEF vars
    <3> QED
      BY <3>1, <3>2, <3>3, <3>4 DEF Next
  <2> QED
    BY <2>1, <2>2, <2>4
<1> QED
  BY <1>1, <1>2, <1>3

-----------------------------------------------------------------------------
(***************************************************************************)
(* New plans.                                                              *)
(***************************************************************************)
\* A window that ends by today and leaves out no wanted day but such as are
\* stored, and were past when the oldest plan that is still about was made.
Bridges(w) ==
    /\ w[2] <= today
    /\ \A d \in Zone : d < w[1] => d \in Priced /\ d + MaxDelay <= today

Fresh(t) ==
    /\ t.pc = "ready" /\ t.made = today
    /\ \A x \in t.days : x <= today
    /\ t.purge => \A d \in Zone : d <= today => d \in t.days
    /\ \A x \in t.days : \A d \in Zone :
          d <= x => d \in t.days \/ (d \in Priced /\ d + MaxDelay <= today)

LEMMA BridgesFresh ==
    ASSUME TypeOK, NEW a \in Int, NEW b \in Int, Bridges(<<a, b>>),
           NEW purge \in BOOLEAN, NEW lenient \in BOOLEAN,
           purge => b = today /\ \A d \in Zone : a <= d
    PROVE  Fresh(Plan(<<a, b>>, purge, lenient))
<1> DEFINE t == Plan(<<a, b>>, purge, lenient)
<1>0. today \in Int /\ \A d \in Day : d \in Int
  BY DaysAreInts DEF TypeOK
<1>1. /\ t.pc = "ready" /\ t.made = today /\ t.purge = purge
      /\ t.days = {d \in Day : a <= d /\ d <= b}
  BY DEF Plan
<1>2. b <= today /\ \A d \in Zone : d < a => d \in Priced /\ d + MaxDelay <= today
  BY DEF Bridges
<1> HIDE DEF t
<1>3. \A x \in t.days : x <= today
  BY <1>0, <1>1, <1>2
<1>4. purge => \A d \in Zone : d <= today => d \in t.days
  BY <1>1, DaysAreInts
<1>5. ASSUME NEW x \in t.days, NEW d \in Zone, d <= x
      PROVE  d \in t.days \/ (d \in Priced /\ d + MaxDelay <= today)
  <2>1. d \in Day /\ x \in Day /\ x <= b
    BY <1>1, DaysAreInts
  <2>2. CASE d < a
    BY <1>2, <2>2
  <2>3. CASE ~(d < a)
    <3>1. a <= d /\ d <= b
      BY <1>0, <1>5, <2>1, <2>3
    <3> QED
      BY <1>1, <2>1, <3>1
  <2> QED
    BY <2>2, <2>3
<1> QED
  BY <1>1, <1>3, <1>4, <1>5 DEF Fresh, t

\* What is stored of a provider.
LEMMA SourceStored ==
    ASSUME TypeOK, StoredSound, quotes[Source] # {}
    PROVE  /\ Source \in Provider
           /\ First(quotes[Source]) \in Day /\ First(quotes[Source]) <= today
           /\ Last(quotes[Source]) \in Day /\ Last(quotes[Source]) <= today
           /\ Last(quotes[Source]) \in Priced
<1>1. Source \in Provider
  BY QuoteAssumption DEF TypeOK, Source, Provider
<1>2. quotes[Source] \in SUBSET Day
  BY <1>1 DEF TypeOK
<1>3. First(quotes[Source]) \in quotes[Source] /\ Last(quotes[Source]) \in quotes[Source]
  BY <1>2, FirstAndLast
<1> QED
  BY <1>1, <1>2, <1>3 DEF StoredSound, Priced

\* A window that begins Overlap days before the last stored day, or earlier
\* still, bridges the days in between.
LEMMA FromLastBridges ==
    ASSUME InTime, TypeOK, StoredSound, quotes[Source] # {},
           NEW a \in Int,
           LET from == Last(quotes[Source]) - Overlap
           IN  a = from \/ (from >= today /\ a <= today)
    PROVE  Bridges(<<a, today>>)
<1> DEFINE last == Last(quotes[Source])
<1>0. /\ last \in Day /\ last <= today /\ last \in Priced
  BY SourceStored
<1>1. a = last - Overlap \/ (last - Overlap >= today /\ a <= today)
  OBVIOUS
<1> HIDE DEF last
<1>2. /\ today \in Int /\ last \in Int /\ \A d \in Zone : d \in Int /\ d \in Day
      /\ Overlap \in Int /\ MaxDelay \in Int /\ 0 <= Overlap /\ 1 <= MaxDelay
      /\ MaxDelay <= Overlap + 1
  BY <1>0, DaysAreInts DEF TypeOK, InTime
<1>3. ASSUME NEW d \in Zone, d < a PROVE d \in Priced /\ d + MaxDelay <= today
  <2>1. d <= last /\ d + MaxDelay <= today
    BY <1>0, <1>1, <1>2, <1>3
  <2>2. d \in Priced
    BY <1>0, <2>1 DEF StoredSound, Fits
  <2> QED
    BY <2>1, <2>2
<1>4. today <= today
  BY <1>2
<1> QED
  BY <1>3, <1>4 DEF Bridges

LEMMA RecentBridges ==
    ASSUME InTime, TypeOK, StoredSound, quotes[Source] # {}
    PROVE  \E a \in Int : RecentWindow = <<a, today>> /\ Bridges(<<a, today>>)
<1> DEFINE from == Last(quotes[Source]) - Overlap
           a == IF from >= today THEN today - MinLookback ELSE from
<1>1. /\ from \in Int /\ today \in Int /\ MinLookback \in Int /\ 0 <= MinLookback
  BY SourceStored, DaysAreInts DEF TypeOK
<1>2. a \in Int /\ (a = from \/ (from >= today /\ a <= today))
  BY <1>1
<1>3. RecentWindow = <<a, today>>
  BY DEF RecentWindow
<1> HIDE DEF a
<1>4. Bridges(<<a, today>>)
  BY <1>2, FromLastBridges
<1> QED
  BY <1>2, <1>3, <1>4

LEMMA ClosedBridges ==
    ASSUME InTime, TypeOK, StoredSound, quotes[Source] # {}
    PROVE  \E a \in Int : ClosedWindow = <<a, today>> /\ Bridges(<<a, today>>)
<1> DEFINE a == Last(quotes[Source]) - Overlap
<1>1. a \in Int
  BY SourceStored, DaysAreInts
<1>2. ClosedWindow = <<a, today>>
  BY DEF ClosedWindow
<1>3. a = Last(quotes[Source]) - Overlap
  OBVIOUS
<1> HIDE DEF a
<1>4. Bridges(<<a, today>>)
  BY <1>1, <1>3, FromLastBridges
<1> QED
  BY <1>1, <1>2, <1>4

\* The other windows begin no later than the zone.
LEMMA NewBridges ==
    ASSUME TypeOK
    PROVE  \E a \in Int : /\ NewWindow = <<a, today>> /\ Bridges(<<a, today>>)
                          /\ \A d \in Zone : a <= d
<1> DEFINE a == activities.first - Buffer
<1>1. a \in Int /\ today \in Int /\ NewWindow = <<a, today>>
  BY DaysAreInts DEF TypeOK, NewWindow
<1>2. \A d \in Zone : a <= d /\ ~(d < a)
  BY <1>1, DaysAreInts DEF Zone
<1> HIDE DEF a
<1>3. Bridges(<<a, today>>)
  BY <1>1, <1>2 DEF Bridges
<1> QED
  BY <1>1, <1>2, <1>3

LEMMA BackfillBridges ==
    ASSUME TypeOK, StoredSound, quotes[Source] # {}
    PROVE  \E a, b \in Int : BackfillWindow = <<a, b>> /\ Bridges(<<a, b>>)
<1> DEFINE a == RequiredStart
           to == First(quotes[Source]) - 1
           b == IF Later(to - a, 0) < MinLookback THEN a + MinLookback ELSE to
<1>0. /\ activities.first \in Int /\ today \in Int /\ First(quotes[Source]) \in Int
      /\ activities.first <= today /\ First(quotes[Source]) <= today
  BY SourceStored, DaysAreInts DEF TypeOK, StoredSound
<1>1. a \in Int /\ a = activities.first - Buffer - Margin /\ to \in Int /\ to <= today
  BY <1>0, DaysAreInts DEF RequiredStart
<1>2. b \in Int /\ b <= today
  BY <1>0, <1>1, DaysAreInts
<1>3. BackfillWindow = <<a, b>>
  BY DEF BackfillWindow
<1>4. \A d \in Zone : ~(d < a)
  BY <1>0, <1>1, DaysAreInts DEF Zone
<1> HIDE DEF a, b, to
<1>5. Bridges(<<a, b>>)
  BY <1>2, <1>4 DEF Bridges
<1> QED
  BY <1>1, <1>2, <1>3, <1>5

\* Lists of new plans.
LEMMA FreshLists ==
    ASSUME NEW p, NEW q, Fresh(p), Fresh(q)
    PROVE  /\ \A i \in DOMAIN <<p>> : Fresh(<<p>>[i])
           /\ \A i \in DOMAIN <<p, q>> : Fresh(<<p, q>>[i])
<1>1. \A i \in DOMAIN <<p>> : <<p>>[i] = p
  OBVIOUS
<1>2. \A i \in DOMAIN <<p, q>> : <<p, q>>[i] = p \/ <<p, q>>[i] = q
  OBVIOUS
<1> QED
  BY <1>1, <1>2

\* Whatever planning returns is new, and bridges.
LEMMA PlansAreFresh ==
    ASSUME InTime, TypeOK, StoredSound, NEW targeted \in BOOLEAN
    PROVE  /\ \A i \in DOMAIN ResyncPlans(targeted) : Fresh(ResyncPlans(targeted)[i])
           /\ \A i \in DOMAIN IncrementalPlans(targeted) : Fresh(IncrementalPlans(targeted)[i])
<1> DEFINE cat == CategoryOf
           Good(list) == \A i \in DOMAIN list : Fresh(list[i])
<1>1. cat # "New" => quotes[Source] # {}
  BY DEF CategoryOf
<1>2. ASSUME NEW w, NEW lenient \in BOOLEAN,
             \E a, b \in Int : w = <<a, b>> /\ Bridges(<<a, b>>)
      PROVE  Fresh(Plan(w, FALSE, lenient))
  BY <1>2, BridgesFresh
<1>3. today \in Int
  BY DaysAreInts DEF TypeOK
<1>4. ASSUME NEW lenient \in BOOLEAN
      PROVE  /\ Fresh(Plan(NewWindow, FALSE, lenient))
             /\ Fresh(Plan(NewWindow, TRUE, lenient))
  BY <1>3, <1>2, NewBridges, BridgesFresh
<1>5. ASSUME NEW lenient \in BOOLEAN, quotes[Source] # {}
      PROVE  /\ Fresh(Plan(RecentWindow, FALSE, lenient))
             /\ Fresh(Plan(BackfillWindow, FALSE, lenient))
             /\ Fresh(Plan(ClosedWindow, FALSE, lenient))
  <2>1. \E a, b \in Int : RecentWindow = <<a, b>> /\ Bridges(<<a, b>>)
    BY <1>3, <1>5, RecentBridges
  <2>2. \E a, b \in Int : ClosedWindow = <<a, b>> /\ Bridges(<<a, b>>)
    BY <1>3, <1>5, ClosedBridges
  <2>3. \E a, b \in Int : BackfillWindow = <<a, b>> /\ Bridges(<<a, b>>)
    BY <1>5, BackfillBridges
  <2> QED
    BY <1>2, <2>1, <2>2, <2>3
<1>6. ASSUME NEW p, Fresh(p), NEW q, Fresh(q)
      PROVE  Good(<<p>>) /\ Good(<<p, q>>) /\ Good(<<>>)
  BY <1>6, FreshLists
<1>7. Good(<<>>)
  OBVIOUS
<1>8. Good(ResyncPlans(targeted))
  <2> DEFINE lenient == cat = "NeedsBackfill" \/ (cat = "Closed" /\ ~targeted)
  <2>1. Fresh(Plan(NewWindow, TRUE, lenient))
    BY <1>4
  <2> HIDE DEF Good
  <2>2. Good(<<Plan(NewWindow, TRUE, lenient)>>)
    BY <1>6, <2>1
  <2> QED
    BY <2>2 DEF ResyncPlans
<1>9. Good(IncrementalPlans(targeted))
  <2>1. CASE quotes[Source] # {}
    <3>1. Good(<<Plan(RecentWindow, FALSE, FALSE), Plan(BackfillWindow, FALSE, TRUE)>>)
      BY <1>5, <1>6, <2>1
    <3>2. Good(<<Plan(ClosedWindow, FALSE, FALSE)>>)
      BY <1>5, <1>6, <2>1
    <3>3. cat # "Closed" => Good(<<Plan(Window(cat), FALSE, cat = "NeedsBackfill")>>)
      <4> DEFINE lenient == cat = "NeedsBackfill"
      <4>1. cat \in {"New", "NeedsBackfill", "Active", "RecentlyClosed", "Closed"}
        BY DEF CategoryOf
      <4>2. cat # "Closed" => Window(cat) \in {NewWindow, BackfillWindow, RecentWindow}
        BY <4>1 DEF Window
      <4>3. lenient \in BOOLEAN
        OBVIOUS
      <4> HIDE DEF cat, lenient, Good
      <4>4. cat # "Closed" => Fresh(Plan(Window(cat), FALSE, lenient))
        BY <1>4, <1>5, <2>1, <4>2, <4>3
      <4>5. cat # "Closed" => Good(<<Plan(Window(cat), FALSE, lenient)>>)
        BY <1>6, <4>4
      <4> QED
        BY <4>5 DEF lenient
    <3> HIDE DEF Good
    <3> QED
      BY <1>7, <3>1, <3>2, <3>3 DEF IncrementalPlans
  <2>2. CASE quotes[Source] = {}
    <3>1. cat = "New"
      BY <2>2 DEF CategoryOf
    <3>2. Fresh(Plan(NewWindow, FALSE, FALSE))
      BY <1>4
    <3> HIDE DEF Good
    <3>3. Good(<<Plan(NewWindow, FALSE, FALSE)>>)
      BY <1>6, <3>2
    <3>4. IncrementalPlans(targeted) \in {<<>>, <<Plan(NewWindow, FALSE, FALSE)>>}
      <4>1. CategoryOf = "New" /\ Window("New") = NewWindow
        BY <3>1 DEF Window
      <4> QED
        BY <4>1 DEF IncrementalPlans
    <3> QED
      BY <1>7, <3>3, <3>4
  <2> QED
    BY <2>1, <2>2
<1> QED
  BY <1>8, <1>9

-----------------------------------------------------------------------------
(***************************************************************************)
(* The steps.                                                              *)
(***************************************************************************)
Stays == UNCHANGED <<activities, today>> /\ Zone' = Zone

\* A call that has no plan under way gets a list of new ones, or none.
LEMMA ListTaken ==
    ASSUME HistoryInv, LockInv', Stays, quotes' = quotes, NEW c \in Caller, NEW list \in Seq(Task),
           tasks' = [tasks EXCEPT ![c] = list], \A i \in DOMAIN list : Fresh(list[i]),
           \A i \in DOMAIN tasks[c] : tasks[c][i].pc = "done"
    PROVE  HistoryInv'
<1>0. /\ TypeOK /\ StoredSound /\ PlansSound /\ Priced' = Priced /\ today' = today /\ Zone' = Zone
      /\ today \in Int /\ today \in Day /\ MaxDelay \in Int /\ 1 <= MaxDelay
      /\ \A d \in Day : d \in Int
      /\ Zone \subseteq Day
  BY DaysAreInts DEF HistoryInv, LockInv, TypeOK, Priced, Stays
<1>1. StoredSound'
  BY <1>0 DEF StoredSound, Stays
<1>2. ASSUME NEW t \in Plans' PROVE t \in Plans \/ Fresh(t)
  <2>1. \A s \in Plans' : s \in Plans \/ \E i \in DOMAIN list : s = list[i]
    BY <1>0, PlansReplaced
  <2> QED
    BY <2>1
<1>3. Refilling => Refilling'
  BY <1>0, PlansReplaced DEF Refilling
<1>4. \A t \in Plans \union Plans' : t \in Task /\ t.days \subseteq Day
  <2>1. \A t \in Plans \union Plans' : t \in Task
    BY DEF Plans
  <2> QED
    BY <2>1 DEF Task
<1>5. ASSUME NEW t \in Plans'
      PROVE  PlanOK(t, Zone, today) /\ (Fits(Zone, t.days, Priced) \/ Refilling')
  <2>1. CASE t \in Plans
    BY <1>0, <1>3, <2>1 DEF PlansSound
  <2>2. CASE Fresh(t)
    <3>1. today <= today /\ today <= today + MaxDelay
      BY <1>0
    <3>2. PlanOK(t, Zone, today)
      BY <1>0, <2>2, <3>1 DEF Fresh, PlanOK, Pending
    <3>3. Fits(Zone, t.days, Priced)
      BY <2>2 DEF Fresh, Fits
    <3> QED
      BY <3>2, <3>3
  <2> QED
    BY <1>2, <2>1, <2>2
<1>6. ASSUME NEW t \in Plans', NEW u \in Plans', u.purge PROVE Fits(Zone, t.days, u.days)
  <2>1. CASE t \in Plans /\ u \in Plans
    BY <1>0, <1>6, <2>1 DEF PlansSound
  <2>2. CASE Fresh(u)
    <3> SUFFICES ASSUME NEW x \in t.days, NEW d \in Zone, d <= x PROVE d \in u.days
      BY DEF Fits
    <3>1. x <= today
      BY <1>5 DEF PlanOK
    <3>2. d \in Int /\ x \in Int
      BY <1>0, <1>4
    <3>3. d <= today
      BY <1>0, <3>1, <3>2
    <3> QED
      BY <1>6, <2>2, <3>3 DEF Fresh
  <2>3. CASE Fresh(t) /\ u \in Plans
    <3> SUFFICES ASSUME NEW x \in t.days, NEW d \in Zone, d <= x, d \notin t.days
                 PROVE  d \in u.days
      BY DEF Fits
    <3>1. d + MaxDelay <= today
      BY <2>3 DEF Fresh
    <3>2. u.made \in Day /\ today <= u.made + MaxDelay
      <4>1. PlanOK(u, Zone, today)
        BY <1>0, <2>3 DEF PlansSound
      <4> QED
        BY <1>6, <4>1 DEF PlanOK
    <3>3. d <= u.made
      <4>1. d \in Int /\ u.made \in Int
        BY <1>0, <3>2
      <4> QED
        BY <1>0, <3>1, <3>2, <4>1
    <3> QED
      <4>1. PlanOK(u, Zone, today)
        BY <1>0, <2>3 DEF PlansSound
      <4> QED
        BY <1>6, <3>3, <4>1 DEF PlanOK
  <2> QED
    BY <1>2, <2>1, <2>2, <2>3
<1> QED
  BY <1>0, <1>1, <1>5, <1>6 DEF HistoryInv, PlansSound

\* One plan goes on or ends, and nothing is stored by that.
LEMMA PlanMoves ==
    ASSUME HistoryInv, LockInv', Stays, quotes' = quotes,
           NEW c \in Caller, NEW i \in DOMAIN tasks[c], NEW old, old = tasks[c][i],
           NEW t \in Task, tasks' = [tasks EXCEPT ![c] = [tasks[c] EXCEPT ![i] = t]],
           ~(old.pc = "save" /\ old.purge) \/ (t.pc = "save" /\ t.purge),
           \/ t.days = {} /\ ~t.purge /\ t.pc \notin Pending
           \/ /\ t.days = old.days /\ t.purge = old.purge /\ t.made = old.made
              /\ old.pc \in Pending <=> t.pc \in Pending
              /\ t.pc \in {"purge", "save"} => t.by \in Provider
              /\ t.pc = "purge" => t.purge
    PROVE  HistoryInv'
<1>0. /\ TypeOK /\ StoredSound /\ PlansSound /\ Priced' = Priced /\ today' = today /\ Zone' = Zone
      /\ old \in Plans
  <2>1. tasks[c][i] \in Task
    BY DEF HistoryInv, LockInv, TypeOK
  <2> QED
    BY <2>1 DEF HistoryInv, LockInv, TypeOK, Priced, Stays, Plans
<1>1. StoredSound'
  BY <1>0 DEF StoredSound, Stays
<1>2. /\ \A u \in Plans' : u \in Plans \/ u = t
      /\ t \in Plans'
      /\ \A u \in Plans : u # old => u \in Plans'
  BY <1>0, PlansThen
<1>3. Refilling => Refilling'
  BY <1>2 DEF Refilling
<1>4. /\ PlanOK(old, Zone, today) /\ (Fits(Zone, old.days, Priced) \/ Refilling')
      /\ \A u \in Plans : /\ u.purge => Fits(Zone, old.days, u.days)
                          /\ old.purge => Fits(Zone, u.days, old.days)
  BY <1>0, <1>3 DEF PlansSound
<1>5. CASE t.days = {} /\ ~t.purge /\ t.pc \notin Pending
  <2>1. PlanOK(t, Zone, today) /\ \A s : Fits(Zone, t.days, s)
    BY <1>5 DEF PlanOK, Fits, Pending
  <2> QED
    BY <1>0, <1>1, <1>2, <1>3, <1>5, <2>1 DEF HistoryInv, PlansSound
<1>6. CASE /\ t.days = old.days /\ t.purge = old.purge /\ t.made = old.made
           /\ old.pc \in Pending <=> t.pc \in Pending
           /\ t.pc \in {"purge", "save"} => t.by \in Provider
           /\ t.pc = "purge" => t.purge
  <2>1. PlanOK(t, Zone, today)
    BY <1>4, <1>6 DEF PlanOK
  <2>2. ASSUME NEW s \in Plans', NEW u \in Plans', u.purge PROVE Fits(Zone, s.days, u.days)
    BY <1>0, <1>2, <1>4, <1>6, <2>2 DEF PlansSound
  <2>3. ASSUME NEW s \in Plans'
        PROVE  PlanOK(s, Zone, today) /\ (Fits(Zone, s.days, Priced) \/ Refilling')
    BY <1>0, <1>2, <1>3, <1>4, <1>6, <2>1, <2>3 DEF PlansSound
  <2> QED
    BY <1>0, <1>1, <2>2, <2>3 DEF HistoryInv, PlansSound
<1> QED
  BY <1>5, <1>6

\* The plan at work is the only one.
LEMMA OnlyOneSaves ==
    ASSUME HistoryInv, NEW c \in Caller, NEW i \in DOMAIN tasks[c], tasks[c][i].pc \in Working,
           NEW u \in Plans, u.pc = "save"
    PROVE  u = tasks[c][i]
<1>1. PICK k \in Caller : \E j \in DOMAIN tasks[k] : u = tasks[k][j]
  BY DEF Plans
<1> PICK j \in DOMAIN tasks[k] : u = tasks[k][j]
  BY <1>1
<1>2. \A m \in Caller : DOMAIN tasks[m] \subseteq Slot
  <2>1. \A m \in Caller : tasks[m] \in Seq(Task) /\ Len(tasks[m]) <= 2
    BY DEF HistoryInv, LockInv, TypeOK
  <2> QED
    BY <2>1 DEF Slot
<1>3. <<c, i>> \in AtWork /\ <<k, j>> \in AtWork
  BY <1>1, <1>2 DEF AtWork, Working
<1>4. <<c, i>> = <<k, j>>
  BY <1>3 DEF HistoryInv, LockInv, OneAtWork
<1> QED
  BY <1>1, <1>4

\* A resync purges the history: whoever fits it will fit what it stores.
LEMMA PurgeStep ==
    ASSUME HistoryInv, LockInv', Zone' = Zone, NEW c \in Caller, NEW i \in Slot, Purge(c, i)
    PROVE  HistoryInv'
<1> DEFINE old == tasks[c][i]
           t == [old EXCEPT !.pc = "save"]
<1>0. /\ TypeOK /\ StoredSound /\ PlansSound /\ Zone' = Zone
      /\ UNCHANGED <<activities, today>> /\ quotes' = [p \in Provider |-> {}]
      /\ i \in DOMAIN tasks[c] /\ old.pc = "purge"
      /\ tasks' = [tasks EXCEPT ![c] = [tasks[c] EXCEPT ![i] = t]]
  BY DEF HistoryInv, LockInv, Purge, At
<1>1. old \in Task /\ old \in Plans
  BY <1>0 DEF TypeOK, Plans
<1>2. PlanOK(old, Zone, today)
  BY <1>0, <1>1 DEF PlansSound
<1>3. /\ t \in Task /\ t.pc = "save" /\ t.days = old.days /\ t.purge = old.purge
      /\ t.made = old.made /\ t.by = old.by
  BY <1>1 DEF Task, Working
<1> HIDE DEF old, t
<1>4. t.purge /\ PlanOK(t, Zone, today)
  BY <1>0, <1>2, <1>3 DEF PlanOK, Pending
<1>5. Priced' = {}
  BY <1>0 DEF Priced
<1>6. StoredSound'
  BY <1>0, <1>5 DEF StoredSound, Fits
<1>7. (\A u \in Plans' : u \in Plans \/ u = t) /\ t \in Plans'
  BY <1>0, <1>3, PlansThen DEF old
<1>8. Refilling'
  BY <1>3, <1>4, <1>7 DEF Refilling
<1>9. ASSUME NEW s \in Plans', NEW u \in Plans', u.purge PROVE Fits(Zone, s.days, u.days)
  BY <1>0, <1>1, <1>3, <1>4, <1>7, <1>9 DEF PlansSound
<1>10. \A s \in Plans' : PlanOK(s, Zone, today)
  BY <1>0, <1>4, <1>7 DEF PlansSound
<1> QED
  BY <1>0, <1>6, <1>8, <1>9, <1>10 DEF HistoryInv, PlansSound

\* What a plan stores it stores up to its last day, together with what there is.
LEMMA SaveStep ==
    ASSUME SameHistory, HistoryInv, LockInv', Zone' = Zone,
           NEW c \in Caller, NEW i \in Slot, Save(c, i)
    PROVE  HistoryInv'
<1> DEFINE old == tasks[c][i]
           t == [Finished EXCEPT !.pc = "mark", !.by = old.by]
           days == Offered(old.by, old)
<1>0. /\ TypeOK /\ StoredSound /\ PlansSound /\ Zone' = Zone
      /\ UNCHANGED <<activities, today>>
      /\ quotes' = [quotes EXCEPT ![old.by] = @ \union days]
      /\ i \in DOMAIN tasks[c] /\ old.pc = "save"
      /\ tasks' = [tasks EXCEPT ![c] = [tasks[c] EXCEPT ![i] = t]]
  BY DEF HistoryInv, LockInv, Save, At
<1>1. old \in Task /\ old \in Plans
  BY <1>0 DEF TypeOK, Plans
<1>2. PlanOK(old, Zone, today)
  BY <1>0, <1>1 DEF PlansSound
<1>3. old.by \in Provider
  BY <1>0, <1>2 DEF PlanOK
<1>4. t \in Task /\ t.pc = "mark" /\ t.days = {} /\ ~t.purge
  <2>1. Finished \in Task /\ Finished.days = {} /\ ~Finished.purge
    <3>1. {d \in Day : <<1, 0>>[1] <= d /\ d <= <<1, 0>>[2]} = {}
      BY DaysAreInts
    <3> QED
      BY <3>1, FinishedTyped DEF Finished, Plan
  <2> QED
    BY <1>3, <2>1 DEF Task, Working
<1>5. days \subseteq old.days /\ \A d \in Zone : d \in old.days => d \in days
  BY <1>3 DEF Offered, Zone, SameHistory
<1>6. \A d \in days : Since[old.by] <= d /\ d <= today
  BY <1>2 DEF Offered, PlanOK
<1> HIDE DEF t, days
<1>7. Priced' = Priced \union days
  <2>1. quotes \in [Provider -> SUBSET Day]
    BY <1>0 DEF TypeOK
  <2>2. \A p \in Provider : quotes'[p] = IF p = old.by THEN quotes[p] \union days ELSE quotes[p]
    BY <1>0, <2>1
  <2>3. /\ \A x : x \in Priced' <=> \E p \in Provider : x \in quotes'[p]
        /\ \A x : x \in Priced <=> \E p \in Provider : x \in quotes[p]
    BY DEF Priced
  <2> HIDE DEF old
  <2>4. \A x : x \in Priced' <=> x \in Priced \/ x \in days
    BY <1>3, <2>2, <2>3
  <2> QED
    BY <2>4
<1>8. Fits(Zone, old.days, Priced \union days)
  <2>1. CASE old.purge
    BY <1>0, <1>1, <1>5, <2>1 DEF PlansSound, Fits
  <2>2. CASE ~old.purge
    <3>1. ~Refilling
      BY <1>0, <2>2, OnlyOneSaves DEF Refilling, Working
    <3>2. Fits(Zone, old.days, Priced)
      BY <1>0, <1>1, <3>1 DEF PlansSound
    <3> QED
      BY <1>5, <3>2 DEF Fits
  <2> QED
    BY <2>1, <2>2
<1>9. StoredSound'
  <2>1. ASSUME NEW x \in Priced \union days, NEW d \in Zone, d <= x
        PROVE  d \in Priced \union days
    BY <1>0, <1>5, <1>8, <2>1 DEF StoredSound, Fits
  <2>2. \A p \in Provider : \A e \in quotes'[p] : Since[p] <= e /\ e <= today
    <3>1. quotes \in [Provider -> SUBSET Day]
      BY <1>0 DEF TypeOK
    <3>2. \A p \in Provider : quotes'[p] = IF p = old.by THEN quotes[p] \union days ELSE quotes[p]
      BY <1>0, <3>1
    <3> QED
      BY <1>0, <1>6, <3>2 DEF StoredSound
  <2> QED
    BY <1>0, <1>7, <2>1, <2>2 DEF StoredSound, Fits
<1>10. \A u \in Plans' : u \in Plans \/ u = t
  BY <1>0, <1>4, PlansThen
<1>11. PlanOK(t, Zone, today) /\ \A s : Fits(Zone, t.days, s)
  BY <1>4 DEF PlanOK, Fits, Pending
<1>12. ASSUME NEW s \in Plans PROVE Fits(Zone, s.days, Priced \union days)
  <2>1. CASE Fits(Zone, s.days, Priced)
    BY <2>1 DEF Fits
  <2>2. CASE Refilling
    <3>1. old.purge
      BY <1>0, <2>2, OnlyOneSaves DEF Refilling, Working
    <3>2. Fits(Zone, s.days, old.days)
      BY <1>0, <1>1, <3>1 DEF PlansSound
    <3> QED
      BY <1>5, <3>2 DEF Fits
  <2> QED
    BY <1>0, <2>1, <2>2 DEF PlansSound
<1>13. ASSUME NEW s \in Plans', NEW u \in Plans', u.purge PROVE Fits(Zone, s.days, u.days)
  BY <1>0, <1>4, <1>10, <1>11, <1>13 DEF PlansSound
<1>14. ASSUME NEW s \in Plans' PROVE PlanOK(s, Zone, today) /\ Fits(Zone, s.days, Priced')
  BY <1>0, <1>7, <1>10, <1>11, <1>12 DEF PlansSound
<1> QED
  BY <1>0, <1>9, <1>13, <1>14 DEF HistoryInv, PlansSound

\* The days pass and activities come in.
LEMMA WorldHistory ==
    ASSUME HistoryInv, LockInv', Zone' = Zone, UNCHANGED <<quotes, tasks>>,
           today <= today', activities'.first <= today',
           \A t \in Plans : t.pc \in Pending => today' <= t.made + MaxDelay
    PROVE  HistoryInv'
<1>0. /\ StoredSound /\ PlansSound /\ today \in Int /\ today' \in Int
      /\ \A d \in Day : d \in Int
      /\ quotes \in [Provider -> SUBSET Day]
  BY DaysAreInts DEF HistoryInv, LockInv, TypeOK
<1>1. Priced' = Priced /\ Plans' = Plans /\ Refilling' = Refilling
  BY DEF Priced, Plans, Refilling
<1>2. StoredSound'
  <2>1. ASSUME NEW p \in Provider, NEW e \in quotes[p] PROVE Since[p] <= e /\ e <= today'
    <3>1. e \in Int /\ e <= today /\ Since[p] <= e
      BY <1>0, <2>1 DEF StoredSound
    <3> QED
      BY <1>0, <3>1
  <2> QED
    BY <1>0, <1>1, <2>1 DEF StoredSound
<1>3. ASSUME NEW t \in Plans PROVE PlanOK(t, Zone, today')
  <2>1. PlanOK(t, Zone, today) /\ t \in Task
    BY <1>0 DEF PlansSound, Plans
  <2>2. ASSUME NEW x \in t.days PROVE x <= today'
    <3>1. x \in Int /\ x <= today
      BY <1>0, <2>1 DEF Task, PlanOK
    <3> QED
      BY <1>0, <3>1
  <2>3. ASSUME t.pc \in Pending
        PROVE  t.made \in Day /\ t.made <= today' /\ today' <= t.made + MaxDelay
    <3>1. t.made \in Day /\ t.made <= today
      BY <2>1, <2>3 DEF PlanOK
    <3> QED
      BY <1>0, <2>3, <3>1
  <2> QED
    BY <2>1, <2>2, <2>3 DEF PlanOK
<1> QED
  BY <1>0, <1>1, <1>2, <1>3 DEF HistoryInv, PlansSound

\* A plan under way.
LEMMA TaskHistory ==
    ASSUME Cases = {}, SameHistory, HistoryInv, LockInv', Zone' = Zone,
           NEW c \in Caller, NEW i \in Slot,
           Serve(c, i) \/ FetchEnds(c, i) \/ WriteFails(c, i)
    PROVE  HistoryInv'
<1>1. i \in DOMAIN tasks[c]
  BY DEF Serve, FetchEnds, WriteFails, Skip, Start, Purge, Save, Mark, WriteSource, Answer,
         AnswerEmpty, FetchFails, PurgeFails, SaveFails, Startable, At
<1> DEFINE old == tasks[c][i]
<1>2. /\ old \in Task /\ PlanOK(old, Zone, today)
      /\ row \in Row
  <2>1. old \in Task /\ row \in Row
    BY <1>1 DEF HistoryInv, LockInv, TypeOK, Row
  <2>2. old \in Plans
    BY <1>1, <2>1 DEF Plans
  <2> QED
    BY <2>1, <2>2 DEF HistoryInv, PlansSound
<1>3. Finished \in Task /\ Finished.days = {} /\ ~Finished.purge /\ Finished.pc \notin Pending
  <2>1. {d \in Day : <<1, 0>>[1] <= d /\ d <= <<1, 0>>[2]} = {}
    BY DaysAreInts
  <2> QED
    BY <2>1, FinishedTyped DEF Finished, Plan, Pending
<1>4. ASSUME tasks' = [tasks EXCEPT ![c] = [tasks[c] EXCEPT ![i] = Finished]],
             UNCHANGED <<activities, today, quotes>>, old.pc # "save" \/ ~old.purge
      PROVE  HistoryInv'
  BY <1>1, <1>3, <1>4, PlanMoves DEF Stays
<1>5. ASSUME NEW t \in Task, tasks' = [tasks EXCEPT ![c] = [tasks[c] EXCEPT ![i] = t]],
             UNCHANGED <<activities, today, quotes>>,
             t.days = old.days, t.purge = old.purge, t.made = old.made,
             old.pc # "save", old.pc \in Pending <=> t.pc \in Pending,
             t.pc \in {"purge", "save"} => t.by \in Provider,
             t.pc = "purge" => t.purge
      PROVE  HistoryInv'
  BY <1>1, <1>5, PlanMoves DEF Stays
<1> HIDE DEF old
<1>6. ASSUME NEW pc \in {"fetch", "save"}
      PROVE  LET t == [old EXCEPT !.pc = pc] IN
             /\ t \in Task /\ t.pc = pc /\ t.days = old.days /\ t.purge = old.purge
             /\ t.made = old.made /\ t.by = old.by
  BY <1>2 DEF Task, Working
<1>7. CASE Skip(c, i)
  BY <1>4, <1>7 DEF Skip, Startable, old
<1>8. CASE Start(c, i)
  <2> DEFINE t == [old EXCEPT !.pc = "fetch"]
  <2>1. old.pc = "ready" /\ UNCHANGED <<activities, today, quotes>>
        /\ tasks' = [tasks EXCEPT ![c] = [tasks[c] EXCEPT ![i] = t]]
    BY <1>8 DEF Start, Startable, old
  <2>2. /\ t \in Task /\ t.pc = "fetch" /\ t.days = old.days
        /\ t.purge = old.purge /\ t.made = old.made
    BY <1>6
  <2> HIDE DEF t
  <2> QED
    BY <1>5, <2>1, <2>2 DEF Pending
<1>9. CASE Purge(c, i)
  BY <1>9, PurgeStep
<1>10. CASE Save(c, i)
  BY <1>10, SaveStep
<1>11. CASE Mark(c, i)
  <2>1. old.pc = "mark" /\ UNCHANGED <<activities, today, quotes>>
    BY <1>11 DEF Mark, At, old
  <2>2. CASE EndTask(c, i, 0)
    BY <1>4, <2>1, <2>2 DEF EndTask
  <2>3. CASE tasks' = [tasks EXCEPT ![c][i].pc = "source", ![c][i].closed = row.closed]
    <3> DEFINE t == [old EXCEPT !.pc = "source", !.closed = row.closed]
    <3>1. /\ t \in Task /\ t.pc = "source" /\ t.days = old.days /\ t.purge = old.purge
          /\ t.made = old.made
      BY <1>2 DEF Task, Row, Working
    <3>2. tasks' = [tasks EXCEPT ![c] = [tasks[c] EXCEPT ![i] = t]]
      BY <1>1, <2>3 DEF old, HistoryInv, LockInv, TypeOK
    <3> HIDE DEF t
    <3> QED
      BY <1>5, <2>1, <3>1, <3>2 DEF Pending
  <2> QED
    BY <1>11, <2>2, <2>3 DEF Mark
<1>12. CASE WriteSource(c, i)
  BY <1>4, <1>12 DEF WriteSource, At, old
<1>13. CASE Answer(c, i)
  <2>1. PICK p \in Provider :
            /\ old.pc = "fetch"
            /\ tasks' = [tasks EXCEPT ![c][i].pc = IF old.purge THEN "purge" ELSE "save",
                                      ![c][i].by = p]
            /\ UNCHANGED <<activities, today, quotes>>
    BY <1>13 DEF Answer, At, old
  <2> DEFINE pc == IF old.purge THEN "purge" ELSE "save"
             t == [old EXCEPT !.pc = pc, !.by = p]
  <2>2. pc \in {"purge", "save"} /\ (pc = "purge" => old.purge)
    OBVIOUS
  <2>3. tasks' = [tasks EXCEPT ![c] = [tasks[c] EXCEPT ![i] = t]]
    BY <1>1, <2>1 DEF old, HistoryInv, LockInv, TypeOK
  <2> HIDE DEF pc
  <2>4. /\ t \in Task /\ t.pc = pc /\ t.days = old.days /\ t.purge = old.purge
        /\ t.made = old.made /\ t.by = p
    BY <1>2, <2>2 DEF Task, Working
  <2> HIDE DEF t
  <2> QED
    BY <1>5, <2>1, <2>2, <2>3, <2>4 DEF Pending
<1>14. CASE AnswerEmpty(c, i)
  BY <1>4, <1>14 DEF AnswerEmpty, EndTask, At, old
<1>15. CASE \E nodata \in BOOLEAN : FetchFails(c, i, nodata)
  BY <1>4, <1>15 DEF FetchFails, EndTask, At, old
<1>16. CASE PurgeFails(c, i)
  <2> DEFINE t == [old EXCEPT !.pc = "save"]
  <2>1. old.pc = "purge" /\ UNCHANGED <<activities, today, quotes>>
        /\ tasks' = [tasks EXCEPT ![c] = [tasks[c] EXCEPT ![i] = t]]
    BY <1>16 DEF PurgeFails, At, old
  <2>2. old.by \in Provider
    BY <1>2, <2>1 DEF PlanOK
  <2>3. t \in Task /\ t.pc = "save" /\ t.days = old.days /\ t.purge = old.purge /\ t.made = old.made
        /\ t.by = old.by
    BY <1>6
  <2> HIDE DEF t
  <2> QED
    BY <1>5, <2>1, <2>2, <2>3 DEF Pending
<1>17. CASE SaveFails(c, i)
  BY <1>4, <1>17 DEF SaveFails, EndTask, At, old
<1> QED
  BY <1>7, <1>8, <1>9, <1>10, <1>11, <1>12, <1>13, <1>14, <1>15, <1>16, <1>17
     DEF Serve, FetchEnds, WriteFails

\* Planning.
LEMMA PlanningHistory ==
    ASSUME InTime, HistoryInv, LockInv', Zone' = Zone, NEW c \in Caller, NEW call \in Call,
           NEW split \in BOOLEAN, calls[c].pc # "run", MakePlans(c, call, split)
    PROVE  HistoryInv'
<1> DEFINE plans == IF call.mode = "resync" THEN ResyncPlans(call.targeted)
                    ELSE IncrementalPlans(call.targeted)
<1>0. call.targeted \in BOOLEAN /\ TypeOK /\ StoredSound /\ today \in Day
  BY DEF Call, HistoryInv, LockInv, TypeOK
<1>1. tasks' = [tasks EXCEPT ![c] = plans] /\ quotes' = quotes /\ Stays
  BY DEF MakePlans, Stays
<1>2. plans \in Seq(Task)
  BY <1>0, PlansReady DEF ReadyPlans
<1>3. \A i \in DOMAIN plans : Fresh(plans[i])
  <2>1. \A i \in DOMAIN ResyncPlans(call.targeted) : Fresh(ResyncPlans(call.targeted)[i])
    BY <1>0, PlansAreFresh
  <2>2. \A i \in DOMAIN IncrementalPlans(call.targeted) :
            Fresh(IncrementalPlans(call.targeted)[i])
    BY <1>0, PlansAreFresh
  <2>3. plans = ResyncPlans(call.targeted) \/ plans = IncrementalPlans(call.targeted)
    OBVIOUS
  <2> HIDE DEF plans
  <2>4. CASE plans = ResyncPlans(call.targeted)
    BY <2>1, <2>4
  <2>5. CASE plans = IncrementalPlans(call.targeted)
    BY <2>2, <2>5
  <2> QED
    BY <2>3, <2>4, <2>5
<1> HIDE DEF plans
<1>4. \A i \in DOMAIN tasks[c] : tasks[c][i].pc = "done"
  BY DEF HistoryInv, LockInv, ListsSound
<1> QED
  BY <1>1, <1>2, <1>3, <1>4, ListTaken

\* The end of a call.
LEMMA EndHistory ==
    ASSUME HistoryInv, LockInv', Zone' = Zone, NEW c \in Caller, AllDone(c),
           tasks' = [tasks EXCEPT ![c] = <<>>], UNCHANGED <<activities, today, quotes>>
    PROVE  HistoryInv'
<1>1. \A i \in DOMAIN tasks[c] : tasks[c][i].pc = "done"
  BY DEF AllDone
<1>2. <<>> \in Seq(Task) /\ \A i \in DOMAIN <<>> : Fresh(<<>>[i])
  OBVIOUS
<1> QED
  BY <1>1, <1>2, ListTaken DEF Stays

LEMMA InitHistory == Init => HistoryInv
<1> SUFFICES ASSUME Init PROVE HistoryInv
  OBVIOUS
<1>1. LockInv
  BY InitLock
<1>2. Plans = {}
  BY DEF Init, Plans
<1>3. Priced = {}
  BY DEF Init, Priced
<1>4. activities.first <= today
  BY QuoteAssumption DEF Init
<1>5. StoredSound
  BY <1>3, <1>4 DEF Init, StoredSound, Fits
<1> QED
  BY <1>1, <1>2, <1>5 DEF HistoryInv, PlansSound

LEMMA NextHistory ==
    ASSUME Cases = {}, SameHistory, InTime
    PROVE  HistoryInv /\ [Next]_vars => HistoryInv'
<1> SUFFICES ASSUME HistoryInv, [Next]_vars PROVE HistoryInv'
  OBVIOUS
<1>0. /\ LockInv' /\ Zone' = Zone
      /\ activities.first \in Int /\ activities.first <= today /\ today \in Int
      /\ calls \in [Caller -> Call] /\ "periodic" \in Caller /\ "portfolio" \in Caller
  <2>1. LockInv /\ TypeOK /\ activities.first <= today
    BY DEF HistoryInv, LockInv, StoredSound
  <2>2. activities.first \in Day /\ today \in Day /\ calls \in [Caller -> Call]
    BY <2>1 DEF TypeOK, Call
  <2> QED
    BY <2>1, <2>2, NextLock, ZoneStays, DaysAreInts DEF Caller
<1>1. ASSUME UNCHANGED <<today, quotes, tasks>>, activities'.first <= today
      PROVE  HistoryInv'
  <2>1. today <= today'
    BY <1>0, <1>1
  <2>2. \A t \in Plans : t.pc \in Pending => today' <= t.made + MaxDelay
    BY <1>1 DEF HistoryInv, PlansSound, PlanOK
  <2> QED
    BY <1>0, <1>1, <2>1, <2>2, WorldHistory
<1>2. CASE \E split \in BOOLEAN : StartPeriodic(split)
  <2>1. Idle \in Call
    BY DEF Idle, Call
  <2> QED
    BY <1>0, <1>2, <2>1, PlanningHistory DEF StartPeriodic
<1>3. CASE \E split \in BOOLEAN : PlanJob(split)
  <2>1. calls["portfolio"] \in Call
    BY <1>0
  <2> QED
    BY <1>0, <1>3, <2>1, PlanningHistory DEF PlanJob
<1>4. CASE EndPeriodic
  BY <1>0, <1>4, EndHistory DEF EndPeriodic
<1>5. CASE EndJob
  BY <1>0, <1>5, EndHistory DEF EndJob
<1>6. CASE StartJob \/ (\E targeted \in BOOLEAN : StartResync(targeted)) \/ UNCHANGED vars
  BY <1>0, <1>1, <1>6 DEF StartJob, StartResync, StartPortfolio, vars
<1>7. CASE \E c \in Caller : TasksGoOn(c)
  BY <1>0, <1>7, TaskHistory DEF TasksGoOn
<1>8. CASE \E c \in Caller, i \in Slot : WriteFails(c, i)
  BY <1>0, <1>8, TaskHistory
<1>9. CASE Tick
  <2>1. today' = today + 1 /\ UNCHANGED <<activities, quotes, tasks>>
    BY <1>9 DEF Tick
  <2>2. today <= today' /\ activities'.first <= today'
    BY <1>0, <2>1
  <2>3. ASSUME NEW t \in Plans, t.pc \in Pending PROVE today' <= t.made + MaxDelay
    <3>1. today < t.made + MaxDelay
      BY <1>9, <2>3 DEF Tick, Plans
    <3>2. t.made \in Day
      BY <2>3 DEF HistoryInv, PlansSound, PlanOK
    <3>3. t.made \in Int /\ MaxDelay \in Int
      BY <3>2, DaysAreInts
    <3> QED
      BY <1>0, <2>1, <3>1, <3>3
  <2> QED
    BY <1>0, <2>1, <2>2, <2>3, WorldHistory
<1>10. CASE Trade
  BY <1>0, <1>1, <1>10 DEF Trade, Edits, HistoryInv, LockInv, TypeOK
<1>11. CASE \E d \in Day : Backdate(d)
  <2>1. PICK d \in Day : d < activities.first /\ activities' = [activities EXCEPT !.first = d]
                         /\ UNCHANGED <<today, quotes, tasks>>
    BY <1>11 DEF Backdate, Edits
  <2>2. activities'.first = d
    BY <2>1 DEF HistoryInv, LockInv, TypeOK
  <2>3. d <= today
    BY <1>0, <2>1, DaysAreInts
  <2> QED
    BY <1>1, <2>1, <2>2, <2>3
<1>12. CASE Crash
  <2>1. UNCHANGED <<today, activities, quotes>> /\ Plans' = {}
    BY <1>12 DEF Crash, Plans
  <2>2. StoredSound'
    BY <1>0, <2>1 DEF HistoryInv, StoredSound, Priced
  <2> QED
    BY <1>0, <2>1, <2>2 DEF HistoryInv, PlansSound
<1> QED
  BY <1>2, <1>3, <1>4, <1>5, <1>6, <1>7, <1>8, <1>9, <1>10, <1>11, <1>12
     DEF Next, PeriodicStep, JobStep

\* The stored history has no hole, if the history of no provider is shorter than
\* another's and no plan is carried out more than Overlap + 1 days after it was
\* made: for any lengths in days, and with any number of days, edits, resyncs,
\* failed requests and crashes (calculate_sync_window, sync_asset).
THEOREM NoHoleHolds ==
    ASSUME Cases = {}, SameHistory, InTime
    PROVE  Spec => []NoHole
<1>1. Init => HistoryInv
  BY InitHistory
<1>2. HistoryInv /\ [Next]_vars => HistoryInv'
  BY NextHistory
<1>3. HistoryInv => NoHole
  <2> SUFFICES ASSUME HistoryInv, NEW d \in Wanted(activities.first),
                      NEW e \in Priced, e < d, NEW f \in Priced, f > d
               PROVE  d \in Priced
    BY DEF NoHole
  <2>1. d \in Day /\ activities.first - Buffer <= d
    BY DEF Wanted
  <2>2. PICK p \in Provider : e \in quotes[p]
    BY DEF Priced
  <2>3. Since[p] <= e /\ e \in Day /\ f \in Day /\ Since[p] \in Day
    <3>1. quotes \in [Provider -> SUBSET Day]
      BY DEF HistoryInv, LockInv, TypeOK
    <3> QED
      BY <2>2, <3>1, SinceAssumption DEF HistoryInv, StoredSound, Priced
  <2>4. Since[p] <= d /\ d <= f
    BY <2>1, <2>3, DaysAreInts
  <2>5. d \in Zone
    BY <2>1, <2>4 DEF Zone
  <2> QED
    BY <2>4, <2>5 DEF HistoryInv, StoredSound, Fits
<1> QED
  BY <1>1, <1>2, <1>3, PTL DEF Spec

=============================================================================
