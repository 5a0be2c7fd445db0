----------------------- MODULE PortfolioRecalcProofs -----------------------
(***************************************************************************)
(* Proofs about PortfolioRecalc, for any accounts, activities, days,       *)
(* callers and bounds: type correctness, and that the queue, the planner   *)
(* and the jobs implement the worklist of RecalcWorklist.                  *)
(***************************************************************************)
EXTENDS PortfolioRecalc, WellFoundedInduction, TLAPS

-----------------------------------------------------------------------------
(***************************************************************************)
(* Jobs.                                                                   *)
(***************************************************************************)
JobFields == {"stage", "mode", "accounts", "since", "todo", "cleanup", "saving", "failed",
              "start", "out", "totalOut"}

JobOK(j) ==
    /\ DOMAIN j = JobFields
    /\ j.stage \in Stages
    /\ j.mode \in {"full", "since", "incremental"}
    /\ j.todo \union j.cleanup \subseteq j.accounts
    /\ j.saving \subseteq j.todo
    /\ j.saving # {} => j.stage = "write" /\ j.mode # "full"

\* Job k answers for what job j does (Answers looks at nothing else).
Alike(j, k) ==
    /\ j.stage \notin {"idle", "total_append"} /\ k.stage \notin {"idle", "total_append"}
    /\ j.stage = "planned" <=> k.stage = "planned"
    /\ k.mode = j.mode /\ k.accounts = j.accounts /\ k.since = j.since /\ k.start = j.start

\* A job that is idle is in order.
LEMMA IdleOK == JobOK(IdleJob) /\ IdleJob.stage = "idle"
BY DEF JobOK, IdleJob, JobFields, Stages

\* Step changes the stage only, and only to TOTAL's.
LEMMA StepKeeps ==
    ASSUME NEW j, DOMAIN j = JobFields
    PROVE  /\ DOMAIN Step(j) = JobFields
           /\ \A f \in JobFields \ {"stage"} : Step(j)[f] = j[f]
           /\ Step(j).stage = IF j.todo \union j.cleanup = {} THEN "total" ELSE j.stage
<1>1. CASE j.todo \union j.cleanup = {}
  <2>1. Step(j) = [j EXCEPT !.stage = "total"]
    BY <1>1 DEF Step
  <2>2. /\ DOMAIN [j EXCEPT !.stage = "total"] = JobFields
        /\ \A f \in JobFields \ {"stage"} : [j EXCEPT !.stage = "total"][f] = j[f]
        /\ [j EXCEPT !.stage = "total"].stage = "total"
    BY DEF JobFields
  <2> QED
    BY <1>1, <2>1, <2>2
<1>2. CASE j.todo \union j.cleanup # {}
  BY <1>2 DEF Step
<1> QED
  BY <1>1, <1>2

\* A set of natural numbers has a least element.
LEMMA LeastExists ==
    ASSUME NEW S \in SUBSET Nat, S # {}
    PROVE  \E m \in S : \A k \in S : m <= k
<1>1. \E R : IsWellFoundedOn(R, Nat) /\ \A k, m \in Nat : <<k, m>> \in R <=> k < m
  <2> DEFINE Less == OpToRel(<, Nat)
  <2>1. IsWellFoundedOn(Less, Nat)
    BY NatLessThanWellFounded
  <2>2. \A k, m \in Nat : <<k, m>> \in Less <=> k < m
    BY DEF OpToRel
  <2> HIDE DEF Less
  <2> QED
    BY <2>1, <2>2
<1>2. PICK R : IsWellFoundedOn(R, Nat) /\ \A k, m \in Nat : <<k, m>> \in R <=> k < m
  BY <1>1
<1>3. PICK m \in S : \A k \in S : ~ (<<k, m>> \in R)
  <2>1. S \subseteq Nat
    OBVIOUS
  <2>2. IsWellFoundedOn(R, Nat)
    BY <1>2
  <2> QED
    BY <2>1, <2>2, WFMin
<1>4. \A k \in S : m <= k
  <2>1. \A k \in S : ~(k < m)
    BY <1>2, <1>3
  <2> QED
    BY <2>1
<1> QED
  BY <1>4

-----------------------------------------------------------------------------
(***************************************************************************)
(* What the steps of a job do to it.                                       *)
(***************************************************************************)
\* The prune after an account was saved, or its failure.
PrunesOn(r) == PruneAfterSave(r) \/ (Fault /\ AfterPrune(r) /\ UNCHANGED InMemory)

\* A TOTAL day is appended and others are left; the last one is.
AppendsOne(r) ==
    /\ AppendTotal(r)
    /\ \E k : jobs' = [jobs EXCEPT ![r].totalOut[k] = NoFrame] /\ missed' = missed
AppendsLast(r) == AppendTotal(r) /\ Finish(r)

\* The prune after TOTAL was saved, or its failure.
PrunesLast(r) == PruneAfterTotal(r) \/ (Fault /\ AfterTotalPrune(r) /\ UNCHANGED InMemory)

\* A step that is neither the end nor the read of a job: the job is in order
\* afterwards and answers for the same cells.
Works(r) ==
    \/ \E a \in Account : OverwriteAll(r, a) \/ DeleteRange(r, a) \/ SaveRange(r, a)
    \/ PrunesOn(r)
    \/ DeleteTotalRange(r) \/ SaveTotalRange(r)
    \/ FailWrite(r)

LEMMA JobWorks ==
    ASSUME DOMAIN jobs = Runner, NEW r \in Runner, JobOK(jobs[r]), Works(r)
    PROVE  \E k : jobs' = [jobs EXCEPT ![r] = k] /\ JobOK(k) /\ Alike(jobs[r], k)
<1> DEFINE j == jobs[r]
<1>0. DOMAIN j = JobFields
  BY DEF JobOK
<1>1. CASE \E a \in Account : OverwriteAll(r, a)
  <2>1. PICK a \in Account : OverwriteAll(r, a)
    BY <1>1
  <2> DEFINE h == [j EXCEPT !.todo = @ \ {a}]
  <2>2. /\ DOMAIN h = JobFields
        /\ \A f \in JobFields \ {"todo"} : h[f] = j[f]
        /\ h.todo = j.todo \ {a}
    BY <1>0 DEF JobFields
  <2>3. jobs' = [jobs EXCEPT ![r] = Step(h)] /\ j.stage = "write" /\ j.mode = "full"
    BY <2>1 DEF OverwriteAll
  <2> HIDE DEF h
  <2>4. JobOK(Step(h)) /\ Alike(j, Step(h))
    BY <2>2, <2>3, StepKeeps DEF JobOK, Alike, JobFields, Stages
  <2> QED
    BY <2>3, <2>4
<1>2. CASE \E a \in Account : DeleteRange(r, a)
  <2>1. PICK a \in Account : DeleteRange(r, a)
    BY <1>2
  <2>2. CASE a \in j.todo
    <3> DEFINE h == [j EXCEPT !.saving = {a}]
    <3>1. /\ DOMAIN h = JobFields
          /\ \A f \in JobFields \ {"saving"} : h[f] = j[f]
          /\ h.saving = {a}
      BY <1>0 DEF JobFields
    <3>2. jobs' = [jobs EXCEPT ![r] = h] /\ j.stage = "write" /\ j.mode # "full"
      BY <2>1, <2>2 DEF DeleteRange
    <3> HIDE DEF h
    <3>3. JobOK(h) /\ Alike(j, h)
      BY <2>2, <3>1, <3>2 DEF JobOK, Alike, JobFields
    <3> QED
      BY <3>2, <3>3
  <2>3. CASE a \notin j.todo
    <3> DEFINE h == [j EXCEPT !.cleanup = @ \ {a}]
    <3>1. /\ DOMAIN h = JobFields
          /\ \A f \in JobFields \ {"cleanup"} : h[f] = j[f]
          /\ h.cleanup = j.cleanup \ {a}
      BY <1>0 DEF JobFields
    <3>2. jobs' = [jobs EXCEPT ![r] = Step(h)] /\ j.stage = "write" /\ j.saving = {}
      BY <2>1, <2>3 DEF DeleteRange
    <3> HIDE DEF h
    <3>3. JobOK(Step(h)) /\ Alike(j, Step(h))
      BY <3>1, <3>2, StepKeeps DEF JobOK, Alike, JobFields, Stages
    <3> QED
      BY <3>2, <3>3
  <2> QED
    BY <2>2, <2>3
<1>3. CASE \E a \in Account : SaveRange(r, a)
  <2>1. PICK a \in Account : SaveRange(r, a)
    BY <1>3
  <2> DEFINE h == [j EXCEPT !.stage = "prune", !.saving = {}, !.todo = @ \ {a}]
  <2>2. /\ DOMAIN h = JobFields
        /\ \A f \in JobFields \ {"stage", "todo", "saving"} : h[f] = j[f]
        /\ h.stage = "prune" /\ h.todo = j.todo \ {a} /\ h.saving = {}
    BY <1>0 DEF JobFields
  <2>3. jobs' = [jobs EXCEPT ![r] = h] /\ j.stage = "write"
    BY <2>1 DEF SaveRange
  <2> HIDE DEF h
  <2>4. JobOK(h) /\ Alike(j, h)
    BY <2>2, <2>3 DEF JobOK, Alike, JobFields, Stages
  <2> QED
    BY <2>3, <2>4
<1>4. CASE DeleteTotalRange(r)
  <2> DEFINE h == [j EXCEPT !.stage = "total_save", !.totalOut = TotalComputed(j.since)]
  <2>1. /\ DOMAIN h = JobFields
        /\ \A f \in JobFields \ {"stage", "totalOut"} : h[f] = j[f]
        /\ h.stage = "total_save"
    BY <1>0 DEF JobFields
  <2>2. jobs' = [jobs EXCEPT ![r] = h] /\ j.stage = "total"
    BY <1>4 DEF DeleteTotalRange
  <2> HIDE DEF h
  <2>3. JobOK(h) /\ Alike(j, h)
    BY <2>1, <2>2 DEF JobOK, Alike, JobFields, Stages
  <2> QED
    BY <2>2, <2>3
<1>5. CASE FailWrite(r)
  <2> DEFINE h == [j EXCEPT !.stage = "total", !.failed = TRUE, !.todo = {},
                            !.cleanup = {}, !.saving = {}]
  <2>1. /\ DOMAIN h = JobFields
        /\ \A f \in JobFields \ {"stage", "failed", "todo", "cleanup", "saving"} : h[f] = j[f]
        /\ h.stage = "total" /\ h.todo = {} /\ h.cleanup = {} /\ h.saving = {}
    BY <1>0 DEF JobFields
  <2>2. jobs' = [jobs EXCEPT ![r] = h] /\ j.stage = "write"
    BY <1>5 DEF FailWrite
  <2> HIDE DEF h
  <2>3. JobOK(h) /\ Alike(j, h)
    BY <2>1, <2>2 DEF JobOK, Alike, JobFields, Stages
  <2> QED
    BY <2>2, <2>3
<1>6. CASE PrunesOn(r)
  <2> DEFINE h == [j EXCEPT !.stage = "write"]
  <2>1. /\ DOMAIN h = JobFields
        /\ \A f \in JobFields \ {"stage"} : h[f] = j[f]
        /\ h.stage = "write"
    BY <1>0 DEF JobFields
  <2>2. jobs' = [jobs EXCEPT ![r] = Step(h)] /\ j.stage = "prune"
    BY <1>6 DEF PrunesOn, PruneAfterSave, AfterPrune
  <2> HIDE DEF h
  <2>3. j.saving = {}
    BY <2>2 DEF JobOK
  <2>4. JobOK(Step(h)) /\ Alike(j, Step(h))
    BY <2>1, <2>2, <2>3, StepKeeps DEF JobOK, Alike, JobFields, Stages
  <2> QED
    BY <2>2, <2>4
<1>7. CASE SaveTotalRange(r)
  <2> DEFINE h == [j EXCEPT !.stage = "total_prune", !.totalOut = NoFrames]
  <2>1. /\ DOMAIN h = JobFields
        /\ \A f \in JobFields \ {"stage", "totalOut"} : h[f] = j[f]
        /\ h.stage = "total_prune"
    BY <1>0 DEF JobFields
  <2>2. jobs' = [jobs EXCEPT ![r] = h] /\ j.stage = "total_save"
    BY <1>7 DEF SaveTotalRange
  <2> HIDE DEF h
  <2>3. JobOK(h) /\ Alike(j, h)
    BY <2>1, <2>2 DEF JobOK, Alike, JobFields, Stages
  <2> QED
    BY <2>2, <2>3
<1> QED
  BY <1>1, <1>2, <1>3, <1>4, <1>5, <1>6, <1>7 DEF Works

\* The days of TOTAL that are still to append count as answered for: all of
\* them once they are computed, one less after each that is written.
Appends(r) == BeginAppend(r) \/ AppendsOne(r)

LEMMA AppendBegins ==
    ASSUME DOMAIN jobs = Runner, NEW r \in Runner, JobOK(jobs[r]), BeginAppend(r)
    PROVE  \E k : /\ jobs' = [jobs EXCEPT ![r] = k] /\ JobOK(k)
                  /\ \A acts, c : Answers(acts, r, jobs[r], c) => Answers(acts, r, k, c)
<1> DEFINE j == jobs[r]
           h == [j EXCEPT !.stage = "total_append", !.totalOut = TotalComputed(TotalStart(j))]
<1>1. /\ DOMAIN h = JobFields
      /\ \A f \in JobFields \ {"stage", "totalOut"} : h[f] = j[f]
      /\ h.stage = "total_append"
  BY DEF JobOK, JobFields
<1>2. jobs' = [jobs EXCEPT ![r] = h] /\ j.stage = "total"
  BY DEF BeginAppend
<1> HIDE DEF h
<1>3. JobOK(h)
  BY <1>1, <1>2 DEF JobOK, JobFields, Stages
<1>4. \A acts, c : Answers(acts, r, j, c) => Answers(acts, r, h, c)
  BY <1>1, <1>2 DEF Answers, JobFields
<1> QED
  BY <1>2, <1>3, <1>4

LEMMA AppendGoesOn ==
    ASSUME DOMAIN jobs = Runner, NEW r \in Runner, JobOK(jobs[r]), AppendsOne(r)
    PROVE  \E k : /\ jobs' = [jobs EXCEPT ![r] = k] /\ JobOK(k)
                  /\ \A acts, c : Answers(acts, r, k, c) => Answers(acts, r, jobs[r], c)
<1> DEFINE j == jobs[r]
<1>1. PICK m : jobs' = [jobs EXCEPT ![r].totalOut[m] = NoFrame]
  BY DEF AppendsOne
<1> DEFINE h == [j EXCEPT !.totalOut[m] = NoFrame]
<1>2. /\ DOMAIN h = JobFields
      /\ \A f \in JobFields \ {"totalOut"} : h[f] = j[f]
      /\ h.totalOut = [j.totalOut EXCEPT ![m] = NoFrame]
  BY DEF JobOK, JobFields
<1>3. jobs' = [jobs EXCEPT ![r] = h] /\ j.stage = "total_append"
  BY <1>1 DEF AppendsOne, AppendTotal
<1> HIDE DEF h
<1>4. JobOK(h)
  BY <1>2, <1>3 DEF JobOK, JobFields
<1>5. ASSUME NEW d PROVE KeyDays(h.totalOut, d) \subseteq KeyDays(j.totalOut, d)
  BY <1>2 DEF KeyDays
<1>6. \A acts, c : Answers(acts, r, h, c) => Answers(acts, r, j, c)
  BY <1>2, <1>3, <1>5 DEF Answers, JobFields
<1> QED
  BY <1>3, <1>4, <1>6

\* A job that has read answers from then on for what it will write; a job of the
\* worker answers for what it was planned for, before and after.
LEMMA JobReads ==
    ASSUME DOMAIN jobs = Runner, NEW r \in Runner, JobOK(jobs[r]), Read(r)
    PROVE  \E k : /\ jobs' = [jobs EXCEPT ![r] = k] /\ JobOK(k)
                  /\ jobs[r].stage = "planned" /\ k.stage \in {"write", "total"}
                  /\ k.accounts = jobs[r].accounts /\ k.since = jobs[r].since
<1> DEFINE j == jobs[r]
           begin == [a \in Account |-> IF a \in j.accounts
                                       THEN StartDay(activities, j, frames[a], a) ELSE Never]
           processed == {a \in Account : begin[a] # Never}
           cleaned == IF j.mode = "since" /\ processed # {} THEN j.accounts \ processed ELSE {}
           start == [a \in Account |-> IF a \in cleaned THEN j.since ELSE begin[a]]
           out == [a \in Account |-> IF a \in processed
                                     THEN Computed(activities, j, frames[a], a)
                                     ELSE NoFrames]
           h == [j EXCEPT !.stage = "write", !.todo = processed, !.cleanup = cleaned,
                          !.start = start, !.out = out]
           total0 == [j EXCEPT !.stage = "total"]
<1>0. DOMAIN j = JobFields /\ j.stage = "planned" /\ j.saving = {}
  BY DEF JobOK, Read
<1>1. processed \subseteq j.accounts /\ cleaned \subseteq j.accounts
  OBVIOUS
<1>2. \/ jobs' = [jobs EXCEPT ![r] = total0]
      \/ jobs' = [jobs EXCEPT ![r] = Step(h)]
  BY DEF Read
<1>3. CASE jobs' = [jobs EXCEPT ![r] = total0]
  <2>1. /\ DOMAIN total0 = JobFields /\ total0.stage = "total"
        /\ \A f \in JobFields \ {"stage"} : total0[f] = j[f]
    BY <1>0 DEF JobFields
  <2> HIDE DEF total0
  <2>2. JobOK(total0)
    BY <1>0, <2>1 DEF JobOK, JobFields, Stages
  <2> QED
    BY <1>0, <1>3, <2>1, <2>2 DEF JobFields
<1>4. CASE jobs' = [jobs EXCEPT ![r] = Step(h)]
  <2> HIDE DEF processed, cleaned, start, out
  <2>1. /\ DOMAIN h = JobFields /\ h.stage = "write"
        /\ h.todo = processed /\ h.cleanup = cleaned
        /\ \A f \in JobFields \ {"stage", "todo", "cleanup", "start", "out"} : h[f] = j[f]
    BY <1>0 DEF JobFields
  <2> HIDE DEF h
  <2>2. JobOK(Step(h)) /\ Step(h).stage \in {"write", "total"}
    BY <1>0, <1>1, <2>1, StepKeeps DEF JobOK, JobFields, Stages
  <2>3. Step(h).accounts = j.accounts /\ Step(h).since = j.since
    BY <2>1, StepKeeps DEF JobFields
  <2> QED
    BY <1>0, <1>4, <2>2, <2>3
<1> QED
  BY <1>2, <1>3, <1>4

-----------------------------------------------------------------------------
(***************************************************************************)
(* Type correctness.                                                       *)
(***************************************************************************)
Update == [id : Activity, account : Account, day : Day]

TypeInv ==
    /\ activities \in [Activity -> Record \union {NoActivity}]
    /\ updating \subseteq Update
    /\ InFlight \subseteq Event
    /\ missed \subseteq Cell
    /\ DOMAIN jobs = Runner
    /\ \A r \in Runner : JobOK(jobs[r])

\* An event that names accounts and a day, and the event of a pull.
Dated(e) == e.accounts # {} /\ e.since \in Day

\* The events of edits.
LEMMA EventTyped ==
    ASSUME NEW accounts \in SUBSET Account, NEW d \in Day
    PROVE  /\ ActivitiesChanged(accounts, d) \in Event
           /\ ActivitiesChanged(accounts, d).accounts = accounts
           /\ ActivitiesChanged(accounts, d).since = d
           /\ DeviceSyncPullComplete \in Event
           /\ DeviceSyncPullComplete.accounts = {} /\ DeviceSyncPullComplete.since = 0
BY RecalcAssumption DEF ActivitiesChanged, DeviceSyncPullComplete, Event, Day

\* What every commit of an edit does to the activities and the events.
Commits(e) ==
    /\ activities' \in [Activity -> Record \union {NoActivity}]
    /\ unsent' = unsent \union {e}
    /\ UNCHANGED <<channel, pending, jobs, missed>>
    /\ updating' \subseteq updating

\* An edit other than a pull commits an event that names the accounts and a day;
\* with the splits in place, unless that case is admitted.
Edited ==
    \E e \in Event :
        /\ Commits(e)
        /\ Dated(e)
        /\ \E acts : activities' = acts /\ Admitted(acts, e.since)

Pulled ==
    /\ Commits(DeviceSyncPullComplete)
    /\ "pull_with_edits" \in Cases \/ InFlight \subseteq {DeviceSyncPullComplete}

\* Edits fall into three kinds.
LEMMA EditKinds ==
    ASSUME TypeInv, Edit
    PROVE  \/ Edited
           \/ Pulled
           \/ /\ updating' \subseteq Update
              /\ UNCHANGED <<activities, unsent, channel, pending, jobs, missed>>
<1>0. /\ activities \in [Activity -> Record \union {NoActivity}]
      /\ \A i \in Present : /\ i \in Activity /\ activities[i] \in Record
                            /\ activities[i].account \in Account /\ activities[i].day \in Day
      /\ \A rec \in Record : rec.account \in Account /\ rec.day \in Day
      /\ \A u \in updating : u.id \in Activity /\ u.account \in Account /\ u.day \in Day
      /\ Day \subseteq Nat
  <2>1. \A i \in Present : i \in Activity /\ activities[i] \in Record
    BY DEF TypeInv, Present
  <2>2. \A rec \in Record : rec.account \in Account /\ rec.day \in Day
    BY DEF Record
  <2>3. \A u \in updating : u.id \in Activity /\ u.account \in Account /\ u.day \in Day
    BY DEF TypeInv, Update
  <2>4. activities \in [Activity -> Record \union {NoActivity}] /\ Day \subseteq Nat
    BY DEF TypeInv, Day
  <2> QED
    BY <2>1, <2>2, <2>3, <2>4
<1>1. ASSUME NEW i \in Activity, NEW rec \in Record
      PROVE  /\ With(i, rec) \in [Activity -> Record \union {NoActivity}]
             /\ With(i, NoActivity) \in [Activity -> Record \union {NoActivity}]
  BY <1>0 DEF With
<1>2. ASSUME NEW acts \in [Activity -> Record \union {NoActivity}],
             NEW accounts \in SUBSET Account, accounts # {}, NEW d \in Day,
             Commit(acts, ActivitiesChanged(accounts, d)), Admitted(acts, d),
             updating' \subseteq updating
      PROVE  Edited
  BY <1>2, EventTyped DEF Edited, Commits, Commit, Dated
<1>3. ASSUME NEW i \in Activity, NEW rec \in Record, CreateActivity(i, rec) PROVE Edited
  BY <1>0, <1>1, <1>2, <1>3 DEF CreateActivity
<1>4. ASSUME NEW i \in Activity, NEW rec \in Record, UpsertActivity(i, rec) PROVE Edited
  BY <1>0, <1>1, <1>2, <1>4 DEF UpsertActivity
<1>5. ASSUME NEW i \in Activity, NEW rec \in Record, NEW gone \in SUBSET Present,
             BulkMutate(i, rec, gone)
      PROVE  Edited
  <2> DEFINE acts == [k \in Activity |-> IF k \in gone THEN NoActivity
                                         ELSE IF k = i THEN rec ELSE activities[k]]
             days == {rec.day} \union {activities[k].day : k \in gone}
             since == CHOOSE d \in days : /\ d <= rec.day
                                          /\ \A k \in gone : d <= activities[k].day
             old == {activities[k].account : k \in Present \cap ({i} \union gone)}
  <2>1. acts \in [Activity -> Record \union {NoActivity}]
    BY <1>0
  <2>2. since \in Day
    <3>1. days \in SUBSET Nat /\ days # {} /\ days \subseteq Day
      BY <1>0
    <3>2. \E d \in days : \A k \in days : d <= k
      BY <3>1, LeastExists
    <3>3. \E d \in days : d <= rec.day /\ \A k \in gone : d <= activities[k].day
      BY <3>2
    <3> QED
      BY <3>1, <3>3
  <2>3. old \union {rec.account} \in SUBSET Account
    BY <1>0
  <2>4. /\ Commit(acts, ActivitiesChanged(old \union {rec.account}, since))
        /\ Admitted(acts, since) /\ updating' = updating
    BY <1>5 DEF BulkMutate
  <2> HIDE DEF acts, since, old
  <2> QED
    BY <1>2, <2>1, <2>2, <2>3, <2>4
<1>6. ASSUME NEW i \in Activity, BeginUpdate(i)
      PROVE  /\ updating' \subseteq Update
             /\ UNCHANGED <<activities, unsent, channel, pending, jobs, missed>>
  <2>1. [id |-> i, account |-> activities[i].account, day |-> activities[i].day] \in Update
    BY <1>0, <1>6 DEF BeginUpdate, Update
  <2> QED
    BY <1>6, <2>1 DEF BeginUpdate, TypeInv
<1>7. ASSUME NEW i \in Activity, DeleteActivity(i) PROVE Edited
  <2>1. i \in Present /\ With(i, NoActivity) \in [Activity -> Record \union {NoActivity}]
    BY <1>0, <1>7 DEF DeleteActivity, With
  <2> QED
    BY <1>0, <1>2, <1>7, <2>1 DEF DeleteActivity
<1>8. ASSUME NEW u \in updating, NEW rec \in Record, CommitUpdate(u, rec) PROVE Edited
  <2>1. MinDay(u.day, rec.day) \in Day
    BY <1>0 DEF MinDay
  <2> QED
    BY <1>0, <1>1, <1>2, <1>8, <2>1 DEF CommitUpdate
<1>9. ASSUME NEW i \in Activity, NEW rec \in Record \union {NoActivity}, Pull(i, rec)
      PROVE  Pulled
  <2>1. With(i, rec) \in [Activity -> Record \union {NoActivity}]
    BY <1>0 DEF With
  <2> QED
    BY <1>9, <2>1 DEF Pull, Pulled, Commits, Commit
<1> QED
  BY <1>3, <1>4, <1>5, <1>6, <1>7, <1>8, <1>9 DEF Edit

-----------------------------------------------------------------------------
(***************************************************************************)
(* The steps other than edits and the queue's, by what they do to the jobs *)
(* and to the worklist.                                                    *)
(***************************************************************************)
Apart == UNCHANGED <<activities, updating, unsent, channel, pending>>

\* Job r goes on as k.
Becomes(r, k) == jobs' = [jobs EXCEPT ![r] = k] /\ JobOK(k)

Ends(r) ==
    \/ ReplaceTotal(r) \/ AppendsLast(r) \/ PrunesLast(r)
    \/ FailJob(r)

\* A step of a job reads, works, appends to TOTAL or ends it.
LEMMA JobKinds ==
    ASSUME NEW r \in Runner, JobStep(r) \/ FailJob(r) \/ FailWrite(r) \/ FailPrune(r)
    PROVE  Read(r) \/ Works(r) \/ Appends(r) \/ Ends(r)
<1>1. CASE AppendTotal(r)
  BY <1>1 DEF AppendTotal, AppendsOne, AppendsLast, Appends, Ends
<1>2. CASE PruneAfterSave(r) \/ PruneAfterTotal(r) \/ FailPrune(r)
  BY <1>2 DEF FailPrune, PrunesOn, PrunesLast, Works, Ends
<1> QED
  BY <1>1, <1>2 DEF JobStep, Works, Appends, Ends

\* The queue and the jobs leave the activities and the updates alone, and only
\* the end and the failures of a job touch the cells written off.
LEMMA JobApart ==
    ASSUME NEW r \in Runner
    PROVE  /\ Read(r) \/ Works(r) \/ Appends(r) \/ Ends(r) => Apart
           /\ Read(r) \/ Appends(r) => missed' = missed
           /\ Works(r) => missed' = missed \/ missed' = missed \union Answered(r)
           /\ Ends(r) => /\ jobs' = [jobs EXCEPT ![r] = IdleJob]
                         /\ \/ missed' \subseteq missed
                            \/ missed' = missed \union Answered(r)
<1>1. Read(r) \/ Appends(r) => Apart /\ missed' = missed
  BY DEF Read, Appends, BeginAppend, AppendsOne, AppendTotal, Apart, Edits
<1>2. Works(r) => Apart /\ (missed' = missed \/ missed' = missed \union Answered(r))
  <2>1. (\E a \in Account : OverwriteAll(r, a) \/ DeleteRange(r, a) \/ SaveRange(r, a))
        => Apart /\ missed' = missed
    BY DEF OverwriteAll, DeleteRange, SaveRange, Apart, Edits
  <2>2. PrunesOn(r) => Apart /\ missed' = missed
    BY DEF PrunesOn, PruneAfterSave, AfterPrune, Fault, InMemory, Apart, Edits
  <2>3. DeleteTotalRange(r) \/ SaveTotalRange(r) => Apart /\ missed' = missed
    BY DEF DeleteTotalRange, SaveTotalRange, Apart, Edits
  <2>4. FailWrite(r) => Apart /\ missed' = missed \union Answered(r)
    BY DEF FailWrite, Fault, InMemory, Apart
  <2> QED
    BY <2>1, <2>2, <2>3, <2>4 DEF Works
<1>3. Ends(r) => /\ Apart /\ jobs' = [jobs EXCEPT ![r] = IdleJob]
                 /\ \/ missed' \subseteq missed
                    \/ missed' = missed \union Answered(r)
  BY DEF Ends, ReplaceTotal, AppendsLast, AppendTotal, PrunesLast, PruneAfterTotal,
         AfterTotalPrune, Finish, Repaired, FailJob, Fault, InMemory, Apart, Edits
<1> QED
  BY <1>1, <1>2, <1>3

\* The steps of the queue.
QueueStep ==
    \/ \E e \in unsent : Emit(e)
    \/ \E e \in channel : Receive(e)

LEMMA QueueMoves ==
    ASSUME QueueStep
    PROVE  InFlight' = InFlight /\ UNCHANGED <<activities, updating, jobs, missed>>
<1>1. ASSUME NEW e \in unsent, Emit(e)
      PROVE  InFlight' = InFlight /\ UNCHANGED <<activities, updating, jobs, missed>>
  BY <1>1 DEF Emit, InFlight
<1>2. ASSUME NEW e \in channel, Receive(e)
      PROVE  InFlight' = InFlight /\ UNCHANGED <<activities, updating, jobs, missed>>
  BY <1>2 DEF Receive, InFlight
<1> QED
  BY <1>1, <1>2 DEF QueueStep

\* The day a batch starts at is the least of its days, if it has one.
LEMMA PlanLeast ==
    ASSUME NEW batch \in SUBSET Event
    PROVE  LET dated == {e.since : e \in batch} \ {0}
           IN /\ dated = {} => PlanSince(batch) = 0
              /\ dated # {} => PlanSince(batch) \in dated /\ \A k \in dated : PlanSince(batch) <= k
<1> DEFINE dated == {e.since : e \in batch} \ {0}
<1>1. CASE dated = {}
  BY <1>1 DEF PlanSince
<1>2. CASE dated # {}
  <2>1. dated \in SUBSET Nat
    BY RecalcAssumption DEF Event
  <2>2. PICK d \in dated : \A k \in dated : d <= k
    BY <1>2, <2>1, LeastExists
  <2>3. PlanSince(batch) = CHOOSE m \in dated : \A k \in dated : m <= k
    BY <1>2 DEF PlanSince
  <2> QED
    BY <1>2, <2>2, <2>3
<1> QED
  BY <1>1, <1>2

\* A batch becomes the worker's job: for its accounts, from its first day.
LEMMA Planned ==
    ASSUME TypeInv, ProcessBatch
    PROVE  \E k : /\ Becomes(Worker, k) /\ jobs[Worker].stage = "idle"
                  /\ k.stage = "planned" /\ k.accounts = PlanAccounts(pending)
                  /\ k.since = PlanSince(pending)
<1> DEFINE k == [IdleJob EXCEPT !.stage = "planned",
                            !.mode = IF PlanSince(pending) = 0 THEN "full" ELSE "since",
                            !.accounts = PlanAccounts(pending),
                            !.since = PlanSince(pending)]
<1>1. /\ DOMAIN k = JobFields /\ k.stage = "planned" /\ k.mode \in {"full", "since"}
      /\ k.accounts = PlanAccounts(pending) /\ k.since = PlanSince(pending)
      /\ k.todo = {} /\ k.cleanup = {} /\ k.saving = {}
  BY DEF IdleJob, JobFields
<1>2. jobs' = [jobs EXCEPT ![Worker] = k] /\ jobs[Worker].stage = "idle"
  BY DEF ProcessBatch, MayStart
<1> HIDE DEF k
<1>3. JobOK(k)
  BY <1>1 DEF JobOK, Stages
<1> QED
  BY <1>1, <1>2, <1>3 DEF Becomes

\* A caller's job starts from an idle one.
LEMMA Called ==
    ASSUME TypeInv, NEW c \in Caller, NEW accounts \in SUBSET Account,
           NEW mode \in {"full", "incremental"}, StartCall(c, mode, accounts)
    PROVE  /\ \E k : Becomes(c, k) /\ jobs[c].stage = "idle"
           /\ Apart /\ missed' = missed
<1> DEFINE k == [IdleJob EXCEPT !.stage = "planned", !.mode = mode, !.accounts = accounts]
<1>1. /\ DOMAIN k = JobFields /\ k.stage = "planned" /\ k.mode = mode
      /\ k.accounts = accounts /\ k.todo = {} /\ k.cleanup = {} /\ k.saving = {}
  BY DEF IdleJob, JobFields
<1>2. /\ jobs' = [jobs EXCEPT ![c] = k] /\ jobs[c].stage = "idle"
      /\ Apart /\ missed' = missed
  BY DEF StartCall, MayStart, Apart
<1> HIDE DEF k
<1>3. JobOK(k)
  BY <1>1 DEF JobOK, Stages
<1> QED
  BY <1>2, <1>3 DEF Becomes

\* The cells that are owed or answered for are cells.
LEMMA CellsAre == Owed \subseteq Cell /\ Running \subseteq Cell
<1>1. \A r \in Runner : Answered(r) \subseteq Cell
  BY DEF Answered
<1>2. Running \subseteq Cell
  BY <1>1 DEF Running
<1> QED
  BY <1>2 DEF Owed

LEMMA InitTyped == Init => TypeInv
<1> SUFFICES ASSUME Init PROVE TypeInv
  OBVIOUS
<1>1. activities \in [Activity -> Record \union {NoActivity}]
  BY InitialAssumption DEF Init
<1>2. InFlight \subseteq Event /\ updating \subseteq Update /\ missed \subseteq Cell
  BY DEF Init, InFlight
<1>3. DOMAIN jobs = Runner /\ \A r \in Runner : jobs[r] = IdleJob
  BY DEF Init
<1>4. \A r \in Runner : JobOK(jobs[r])
  BY <1>3, IdleOK
<1> QED
  BY <1>1, <1>2, <1>3, <1>4 DEF TypeInv

\* A job that goes on in order leaves the types in place.
LEMMA BecomesTyped ==
    ASSUME TypeInv, NEW r \in Runner, NEW k, Becomes(r, k)
    PROVE  DOMAIN jobs' = Runner /\ \A q \in Runner : JobOK(jobs'[q])
<1>1. DOMAIN jobs' = Runner /\ \A q \in Runner : jobs'[q] = IF q = r THEN k ELSE jobs[q]
  BY DEF TypeInv, Becomes
<1> QED
  BY <1>1 DEF TypeInv, Becomes

\* Every step of a job is one of Becomes, or the end of the job.
LEMMA JobBecomes ==
    ASSUME TypeInv, NEW r \in Runner, Read(r) \/ Works(r) \/ Appends(r) \/ Ends(r)
    PROVE  \E k : Becomes(r, k)
<1>1. DOMAIN jobs = Runner /\ JobOK(jobs[r])
  BY DEF TypeInv
<1>2. CASE Read(r)
  BY <1>1, <1>2, JobReads DEF Becomes
<1>3. CASE Works(r)
  BY <1>1, <1>3, JobWorks DEF Becomes
<1>4. CASE Ends(r)
  BY <1>4, JobApart, IdleOK DEF Becomes
<1>5. CASE Appends(r)
  BY <1>1, <1>5, AppendBegins, AppendGoesOn DEF Appends, Becomes
<1> QED
  BY <1>2, <1>3, <1>4, <1>5

\* TypeInv is inductive.
LEMMA NextTyped == TypeInv /\ [Next]_vars => TypeInv'
<1> SUFFICES ASSUME TypeInv, [Next]_vars PROVE TypeInv'
  OBVIOUS
<1>0. Owed \subseteq Cell /\ Running \subseteq Cell /\ \A r \in Runner : Answered(r) \subseteq Cell
  BY CellsAre DEF Answered
<1>1. CASE Edit
  <2>1. CASE Edited
    <3>1. PICK e \in Event : Commits(e)
      BY <2>1 DEF Edited
    <3> QED
      BY <3>1 DEF Commits, TypeInv, InFlight
  <2>2. CASE Pulled
    <3>1. DeviceSyncPullComplete \in Event
      BY RecalcAssumption DEF DeviceSyncPullComplete, Event
    <3> QED
      BY <2>2, <3>1 DEF Pulled, Commits, TypeInv, InFlight
  <2>3. CASE /\ updating' \subseteq Update
             /\ UNCHANGED <<activities, unsent, channel, pending, jobs, missed>>
    BY <2>3 DEF TypeInv, InFlight
  <2> QED
    BY <1>1, <2>1, <2>2, <2>3, EditKinds
<1>2. CASE \E u \in updating : FailUpdate(u)
  BY <1>2 DEF FailUpdate, TypeInv, InFlight
<1>3. CASE QueueStep
  BY <1>3, QueueMoves DEF TypeInv
<1>4. CASE ProcessBatch
  <2>1. PICK k : Becomes(Worker, k)
    BY <1>4, Planned
  <2>2. DOMAIN jobs' = Runner /\ \A q \in Runner : JobOK(jobs'[q])
    BY <2>1, BecomesTyped DEF Runner
  <2> QED
    BY <1>4, <2>2 DEF ProcessBatch, TypeInv, InFlight
<1>5. CASE \E c \in Caller, accounts \in (SUBSET Account) \ {{}} :
            StartCall(c, "full", accounts) \/ StartCall(c, "incremental", accounts)
  <2>1. PICK c \in Caller, accounts \in (SUBSET Account) \ {{}}, mode \in {"full", "incremental"} :
          StartCall(c, mode, accounts)
    BY <1>5
  <2>2. c \in Runner /\ accounts \in SUBSET Account
    BY DEF Runner
  <2>3. (\E k : Becomes(c, k)) /\ Apart /\ missed' = missed
    BY <2>1, <2>2, Called
  <2>4. DOMAIN jobs' = Runner /\ \A q \in Runner : JobOK(jobs'[q])
    BY <2>2, <2>3, BecomesTyped
  <2> QED
    BY <2>3, <2>4 DEF Apart, TypeInv, InFlight
<1>6. CASE \E r \in Runner : JobStep(r) \/ FailJob(r) \/ FailWrite(r) \/ FailPrune(r)
  <2>1. PICK r \in Runner : JobStep(r) \/ FailJob(r) \/ FailWrite(r) \/ FailPrune(r)
    BY <1>6
  <2>2. Read(r) \/ Works(r) \/ Appends(r) \/ Ends(r)
    BY <2>1, JobKinds
  <2>3. DOMAIN jobs' = Runner /\ \A q \in Runner : JobOK(jobs'[q])
    BY <2>2, BecomesTyped, JobBecomes
  <2>4. Apart /\ (missed' \subseteq missed \/ missed' = missed \union Answered(r))
    BY <2>2, JobApart
  <2> QED
    BY <1>0, <2>3, <2>4 DEF Apart, TypeInv, InFlight
<1>7. CASE Crash
  <2>1. \A r \in Runner : jobs'[r] = IdleJob
    BY <1>7 DEF Crash
  <2>2. DOMAIN jobs' = Runner /\ \A r \in Runner : JobOK(jobs'[r])
    BY <1>7, <2>1, IdleOK DEF Crash
  <2> QED
    BY <1>0, <1>7, <2>2 DEF Crash, Fault, TypeInv, InFlight
<1>8. CASE UNCHANGED vars
  BY <1>8 DEF vars, TypeInv, InFlight
<1> QED
  BY <1>1, <1>2, <1>3, <1>4, <1>5, <1>6, <1>7, <1>8 DEF Next, Queue, QueueStep

\* The stored values, the events and the jobs keep their types, for any
\* edits, calls, failures and crashes.
THEOREM TypeCorrect == Spec => []TypeOK
<1>1. TypeInv => TypeOK
  BY DEF TypeInv, TypeOK, JobOK, Update
<1> QED
  BY <1>1, InitTyped, NextTyped, PTL DEF Spec

-----------------------------------------------------------------------------
(***************************************************************************)
(* The refinement.  It is proved of the runs that leave out two of the     *)
(* situations in which the code really drops a day: a pull that shares a   *)
(* batch with an edit, and a split that is taken away.                     *)
(***************************************************************************)
Plain == "pull_with_edits" \notin Cases /\ "split_removal" \notin Cases

\* A pull never shares the queue with an edit.
Unmixed ==
    \/ InFlight \subseteq {DeviceSyncPullComplete}
    \/ \A e \in InFlight : Dated(e)

ListInv == TypeInv /\ Unmixed

\* The steps a list of work may take, and stuttering.
ListStep == [Worklist!Next]_(Worklist!vars)

LEMMA NoteIsStep ==
    ASSUME Owed \subseteq Owed', Running \subseteq Running' \union Owed', missed' = missed,
           Owed' \subseteq Cell, Running' \subseteq Cell
    PROVE  ListStep
BY DEF ListStep, Worklist!Next, Worklist!Note

LEMMA TakeIsStep ==
    ASSUME Owed' \subseteq Owed, Running \union (Owed \ Owed') \subseteq Running',
           missed' = missed, Running' \subseteq Cell
    PROVE  ListStep
BY DEF ListStep, Worklist!Next, Worklist!Take

LEMMA FinishIsStep ==
    ASSUME Owed' = Owed, Running' \subseteq Running, missed' \subseteq missed
    PROVE  ListStep
BY DEF ListStep, Worklist!Next, Worklist!Finish

LEMMA GiveUpIsStep ==
    ASSUME Owed' \subseteq Owed, Running' \subseteq Running, missed' \subseteq Cell,
           missed \union (Owed \ Owed') \union (Running \ Running') \subseteq missed'
    PROVE  ListStep
BY DEF ListStep, Worklist!Next, Worklist!GiveUp

\* The lists are sets of cells after a step, too.
LEMMA CellsAreNext == Owed' \subseteq Cell /\ Running' \subseteq Cell
<1>1. \A r \in Runner : Answered(r)' \subseteq Cell
  BY DEF Answered
<1>2. Running' \subseteq Cell
  BY <1>1 DEF Running
<1> QED
  BY <1>2 DEF Owed

\* What a job answers for is decided by the job and the splits.
LEMMA AnswersAlike ==
    ASSUME NEW r \in Runner, NEW j, NEW k, Alike(j, k), NEW acts, NEW c
    PROVE  Answers(acts, r, k, c) <=> Answers(acts, r, j, c)
BY DEF Answers, Alike

\* What the other runners answer for stays when one job changes.
LEMMA OthersStay ==
    ASSUME NEW r \in Runner, NEW k, DOMAIN jobs = Runner,
           jobs' = [jobs EXCEPT ![r] = k], activities' = activities
    PROVE  /\ \A q \in Runner \ {r} : Answered(q)' = Answered(q)
           /\ Answered(r)' = {c \in Cell : Answers(activities, r, k, c)}
<1>1. jobs'[r] = k /\ \A q \in Runner \ {r} : jobs'[q] = jobs[q]
  OBVIOUS
<1> QED
  BY <1>1 DEF Answered

\* Nothing is asked for or forgotten while the activities and the events stay.
LEMMA OwedStays ==
    ASSUME activities' = activities, InFlight' = InFlight
    PROVE  Owed' = Owed
BY DEF Owed

-----------------------------------------------------------------------------
\* An edit leaves the splits in place.
LEMMA SplitsStay ==
    ASSUME Plain, NEW acts, NEW since, Admitted(acts, since), NEW a
    PROVE  SplitDays(activities, a) \subseteq SplitDays(acts, a)
<1>1. ASSUME NEW i \in Activity, activities[i] # NoActivity,
             activities[i].account = a, activities[i].kind = "split"
      PROVE  acts[i] = activities[i]
  BY <1>1 DEF Admitted, Plain, Present
<1> QED
  BY <1>1 DEF SplitDays, Of

\* A split that stays keeps every day a recalculation reached within its reach.
LEMMA ReachesGrows ==
    ASSUME Plain, NEW acts, NEW since, Admitted(acts, since), NEW a, NEW s, NEW d,
           Reaches(activities, a, s, d)
    PROVE  Reaches(acts, a, s, d)
BY SplitsStay DEF Reaches

\* An edit adds to what is asked for and answered for.
LEMMA EditedAdds ==
    ASSUME Plain, NEW e, Commits(e), NEW since, Admitted(activities', since)
    PROVE  /\ InFlight' = InFlight \union {e}
           /\ Owed \subseteq Owed'
           /\ \A r \in Runner : Answered(r) \subseteq Answered(r)'
<1>1. InFlight' = InFlight \union {e} /\ jobs' = jobs
  BY DEF Commits, InFlight
<1>2. Owed \subseteq Owed'
  <2>1. ASSUME NEW f \in InFlight, NEW c \in Cell, Asks(activities, f, c)
        PROVE  Asks(activities', f, c)
    BY <2>1, ReachesGrows DEF Asks
  <2> QED
    BY <1>1, <2>1 DEF Owed
<1>3. ASSUME NEW r \in Runner PROVE Answered(r) \subseteq Answered(r)'
  <2>1. ASSUME NEW c \in Cell, Answers(activities, r, jobs[r], c)
        PROVE  Answers(activities', r, jobs[r], c)
    BY <2>1, ReachesGrows DEF Answers
  <2> QED
    BY <1>1, <2>1 DEF Answered
<1> QED
  BY <1>1, <1>2, <1>3

\* An edit adds to the list and takes nothing from it.
LEMMA EditedNotes ==
    ASSUME ListInv, Plain, Edited
    PROVE  ListStep /\ Unmixed'
<1>1. PICK e \in Event : /\ Commits(e) /\ Dated(e)
                         /\ \E acts : activities' = acts /\ Admitted(acts, e.since)
  BY DEF Edited
<1>2. Admitted(activities', e.since) /\ missed' = missed
  BY <1>1 DEF Commits
<1>3. /\ InFlight' = InFlight \union {e} /\ Owed \subseteq Owed'
      /\ \A r \in Runner : Answered(r) \subseteq Answered(r)'
  BY <1>1, <1>2, EditedAdds
<1>4. Running \subseteq Running'
  BY <1>3 DEF Running
<1>5. Unmixed'
  <2>1. DeviceSyncPullComplete \notin InFlight
    BY <1>2 DEF Admitted, Plain
  <2>2. \A f \in InFlight : Dated(f)
    BY <2>1 DEF ListInv, Unmixed
  <2> QED
    BY <1>1, <1>3, <2>2 DEF Unmixed
<1> QED
  BY <1>2, <1>3, <1>4, <1>5, CellsAreNext, NoteIsStep

\* A pull asks for every day of every account.
LEMMA PulledNotes ==
    ASSUME ListInv, Plain, Pulled
    PROVE  ListStep /\ Unmixed'
<1>1. /\ InFlight' = InFlight \union {DeviceSyncPullComplete} /\ missed' = missed
      /\ InFlight \subseteq {DeviceSyncPullComplete}
  BY DEF Pulled, Commits, InFlight, Plain
<1>2. \A c \in Cell : Asks(activities', DeviceSyncPullComplete, c)
  BY DEF Asks, DeviceSyncPullComplete, Reaches
<1>3. Owed' = Cell
  BY <1>1, <1>2 DEF Owed
<1> QED
  BY <1>1, <1>3, CellsAre, CellsAreNext, NoteIsStep DEF Unmixed

\* A batch covers every account and day its events asked for.
LEMMA BatchCovers ==
    ASSUME ListInv, NEW e \in pending, NEW c \in Cell, Asks(activities, e, c)
    PROVE  /\ c[1] \in PlanAccounts(pending)
           /\ Reaches(activities, c[1], PlanSince(pending), c[2])
<1> DEFINE dated == {f.since : f \in pending} \ {0}
           s == PlanSince(pending)
<1>0. pending \subseteq InFlight /\ pending \in SUBSET Event /\ c[1] \in Account /\ c[2] \in Day
  BY DEF ListInv, TypeInv, InFlight, Cell
<1>1. /\ dated = {} => s = 0
      /\ dated # {} => s \in dated /\ \A k \in dated : s <= k
  BY <1>0, PlanLeast
<1>2. CASE InFlight \subseteq {DeviceSyncPullComplete}
  <2>1. \A f \in pending : f.accounts = {} /\ f.since = 0
    BY <1>0, <1>2 DEF DeviceSyncPullComplete
  <2>2. UNION {f.accounts : f \in pending} = {} /\ dated = {}
    BY <2>1
  <2> QED
    BY <1>0, <1>1, <2>2 DEF PlanAccounts, Reaches
<1>3. CASE \A f \in InFlight : Dated(f)
  <2>1. \A f \in pending : f.accounts # {} /\ f.since \in Day
    BY <1>0, <1>3 DEF Dated
  <2>2. c[1] \in e.accounts
    BY <2>1 DEF Asks
  <2>3. c[1] \in PlanAccounts(pending)
    BY <2>2 DEF PlanAccounts
  <2>4. Day \subseteq Nat /\ 0 \notin Day /\ SplitDays(activities, c[1]) \subseteq Day
    <3>1. \A i \in Activity : activities[i] # NoActivity => activities[i].day \in Day
      BY DEF ListInv, TypeInv, Record
    <3>2. SplitDays(activities, c[1]) \subseteq Day
      BY <3>1 DEF SplitDays, Of
    <3> QED
      BY <3>2 DEF Day
  <2>5. dated \subseteq Day /\ e.since \in dated
    BY <2>1, <2>4
  <2>6. s \in Day /\ s <= e.since /\ e.since \in Day
    BY <1>1, <2>5
  <2>7. c[2] >= e.since \/ \E k \in SplitDays(activities, c[1]) : k >= e.since
    BY <2>4, <2>6 DEF Asks, Reaches
  <2> HIDE DEF s, dated
  <2>8. c[2] >= s \/ \E k \in SplitDays(activities, c[1]) : k >= s
    <3>1. \A m, t, k \in Nat : m <= t /\ k >= t => k >= m
      OBVIOUS
    <3>2. s \in Nat /\ e.since \in Nat /\ c[2] \in Nat /\ s <= e.since
      BY <1>0, <2>4, <2>6
    <3>3. \A k \in SplitDays(activities, c[1]) : k \in Nat
      BY <2>4
    <3> QED
      BY <2>7, <3>1, <3>2, <3>3
  <2> QED
    BY <2>3, <2>8 DEF Reaches, s
<1> QED
  BY <1>2, <1>3 DEF ListInv, Unmixed

\* A batch that is planned leaves the queue and is on the worker's list.
LEMMA BatchMoves ==
    ASSUME ListInv, ProcessBatch
    PROVE  /\ UNCHANGED <<activities, missed>> /\ InFlight' \subseteq InFlight
           /\ \A q \in Runner : Answered(q) \subseteq Answered(q)'
           /\ Owed' \subseteq Owed /\ Owed \subseteq Owed' \union Answered(Worker)'
<1>1. PICK k : /\ jobs' = [jobs EXCEPT ![Worker] = k] /\ jobs[Worker].stage = "idle"
               /\ k.stage = "planned" /\ k.accounts = PlanAccounts(pending)
               /\ k.since = PlanSince(pending)
  BY Planned DEF ListInv, Becomes
<1>2. /\ activities' = activities /\ missed' = missed
      /\ InFlight' \subseteq InFlight /\ InFlight \subseteq InFlight' \union pending
  BY DEF ProcessBatch, InFlight
<1>3. Worker \in Runner /\ DOMAIN jobs = Runner
  BY DEF Runner, ListInv, TypeInv
<1>4. /\ \A q \in Runner \ {Worker} : Answered(q)' = Answered(q)
      /\ Answered(Worker)' = {c \in Cell : Answers(activities, Worker, k, c)}
  BY <1>1, <1>2, <1>3, OthersStay
<1>5. Answered(Worker) = {}
  BY <1>1 DEF Answered, Answers
<1>6. Owed' \subseteq Owed
  BY <1>2 DEF Owed
<1>7. ASSUME NEW c \in Cell, c \in Owed, c \notin Owed' PROVE c \in Answered(Worker)'
  <2>1. PICK e \in InFlight : Asks(activities, e, c)
    BY <1>7 DEF Owed
  <2>2. e \in pending
    BY <1>2, <1>7, <2>1 DEF Owed
  <2>3. c[1] \in k.accounts /\ Reaches(activities, c[1], k.since, c[2])
    BY <1>1, <2>1, <2>2, BatchCovers
  <2> QED
    BY <1>1, <1>4, <2>3 DEF Answers
<1> QED
  BY <1>2, <1>4, <1>5, <1>6, <1>7, CellsAre

LEMMA BatchTakes ==
    ASSUME ListInv, ProcessBatch
    PROVE  ListStep /\ Unmixed'
<1>1. /\ UNCHANGED <<activities, missed>> /\ InFlight' \subseteq InFlight
      /\ \A q \in Runner : Answered(q) \subseteq Answered(q)'
      /\ Owed' \subseteq Owed /\ Owed \subseteq Owed' \union Answered(Worker)'
  BY BatchMoves
<1>2. Running \union (Owed \ Owed') \subseteq Running'
  <2>1. Worker \in Runner
    BY DEF Runner
  <2> QED
    BY <1>1, <2>1 DEF Running
<1>3. Unmixed'
  BY <1>1 DEF Unmixed, ListInv
<1> QED
  BY <1>1, <1>2, <1>3, CellsAreNext, TakeIsStep

\* A job that starts or has read adds to what is answered for.
LEMMA JobNotes ==
    ASSUME ListInv, NEW r \in Runner, NEW k, jobs' = [jobs EXCEPT ![r] = k],
           Apart, missed' = missed,
           Answered(r) \subseteq {c \in Cell : Answers(activities, r, k, c)}
    PROVE  ListStep /\ Unmixed'
<1>1. activities' = activities /\ InFlight' = InFlight /\ DOMAIN jobs = Runner
  BY DEF Apart, InFlight, ListInv, TypeInv
<1>2. \A q \in Runner : Answered(q) \subseteq Answered(q)'
  BY <1>1, OthersStay
<1>3. Running \subseteq Running'
  BY <1>2 DEF Running
<1>4. Owed' = Owed
  BY <1>1, OwedStays
<1>5. Unmixed'
  BY <1>1 DEF ListInv, Unmixed
<1> QED
  BY <1>3, <1>4, <1>5, CellsAreNext, NoteIsStep

LEMMA CallNotes ==
    ASSUME ListInv, NEW c \in Caller, NEW accounts \in SUBSET Account,
           NEW mode \in {"full", "incremental"}, StartCall(c, mode, accounts)
    PROVE  ListStep /\ Unmixed'
<1>1. TypeInv /\ c \in Runner
  BY DEF ListInv, Runner
<1>2. PICK k : Becomes(c, k) /\ jobs[c].stage = "idle"
  BY <1>1, Called
<1>3. Apart /\ missed' = missed
  BY <1>1, Called
<1>4. Answered(c) = {}
  BY <1>2 DEF Answered, Answers
<1> QED
  BY <1>1, <1>2, <1>3, <1>4, JobNotes DEF Becomes

LEMMA ReadNotes ==
    ASSUME ListInv, NEW r \in Runner, Read(r)
    PROVE  ListStep /\ Unmixed'
<1>1. DOMAIN jobs = Runner /\ JobOK(jobs[r])
  BY DEF ListInv, TypeInv
<1>2. PICK k : /\ jobs' = [jobs EXCEPT ![r] = k]
               /\ jobs[r].stage = "planned" /\ k.stage \in {"write", "total"}
               /\ k.accounts = jobs[r].accounts /\ k.since = jobs[r].since
  BY <1>1, JobReads
<1>3. Apart /\ missed' = missed
  BY JobApart
<1>4. \A c \in Cell : Answers(activities, r, jobs[r], c) => Answers(activities, r, k, c)
  BY <1>2 DEF Answers
<1>5. Answered(r) \subseteq {c \in Cell : Answers(activities, r, k, c)}
  BY <1>4 DEF Answered
<1> QED
  BY <1>2, <1>3, <1>5, JobNotes

\* A job that works on keeps its cells; when a write fails they are written off
\* as well.
LEMMA WorkKeeps ==
    ASSUME ListInv, NEW r \in Runner, Works(r)
    PROVE  ListStep /\ Unmixed'
<1>1. DOMAIN jobs = Runner /\ JobOK(jobs[r])
  BY DEF ListInv, TypeInv
<1>2. PICK k : jobs' = [jobs EXCEPT ![r] = k] /\ Alike(jobs[r], k)
  BY <1>1, JobWorks
<1>3. Apart /\ (missed' = missed \/ missed' = missed \union Answered(r))
  BY JobApart
<1>4. activities' = activities /\ InFlight' = InFlight
  BY <1>3 DEF Apart, InFlight
<1>5. {c \in Cell : Answers(activities, r, k, c)} = Answered(r)
  BY <1>2, AnswersAlike DEF Answered
<1>6. \A q \in Runner : Answered(q)' = Answered(q)
  BY <1>1, <1>2, <1>4, <1>5, OthersStay, ZenonT(40)
<1>7. Running' = Running /\ Owed' = Owed
  <2>1. Running' = Running
    BY <1>6 DEF Running
  <2> QED
    BY <1>4, <2>1, OwedStays
<1>8. missed \subseteq missed' /\ missed' \subseteq Cell
  <2>1. Answered(r) \subseteq Cell /\ missed \subseteq Cell
    BY DEF Answered, ListInv, TypeInv
  <2> QED
    BY <1>3, <2>1
<1>9. Unmixed'
  BY <1>4 DEF ListInv, Unmixed
<1> QED
  BY <1>7, <1>8, <1>9, GiveUpIsStep

\* A job that appends to TOTAL adds the days to append, and takes each off.
LEMMA AppendMoves ==
    ASSUME ListInv, NEW r \in Runner, Appends(r)
    PROVE  ListStep /\ Unmixed'
<1>1. DOMAIN jobs = Runner /\ JobOK(jobs[r])
  BY DEF ListInv, TypeInv
<1>2. Apart /\ missed' = missed
  BY JobApart
<1>3. CASE BeginAppend(r)
  <2>1. PICK k : /\ jobs' = [jobs EXCEPT ![r] = k]
                 /\ \A acts, c : Answers(acts, r, jobs[r], c) => Answers(acts, r, k, c)
    BY <1>1, <1>3, AppendBegins
  <2>2. Answered(r) \subseteq {c \in Cell : Answers(activities, r, k, c)}
    BY <2>1 DEF Answered
  <2> QED
    BY <1>2, <2>1, <2>2, JobNotes
<1>4. CASE AppendsOne(r)
  <2>1. PICK k : /\ jobs' = [jobs EXCEPT ![r] = k]
                 /\ \A acts, c : Answers(acts, r, k, c) => Answers(acts, r, jobs[r], c)
    BY <1>1, <1>4, AppendGoesOn
  <2>2. activities' = activities /\ InFlight' = InFlight
    BY <1>2 DEF Apart, InFlight
  <2>3. {c \in Cell : Answers(activities, r, k, c)} \subseteq Answered(r)
    BY <2>1 DEF Answered
  <2>4. \A q \in Runner : Answered(q)' \subseteq Answered(q)
    BY <1>1, <2>1, <2>2, <2>3, OthersStay, ZenonT(40)
  <2>5. Running' \subseteq Running
    BY <2>4 DEF Running
  <2>6. Owed' = Owed /\ Unmixed'
    BY <2>2, OwedStays DEF ListInv, Unmixed
  <2> QED
    BY <1>2, <2>5, <2>6, FinishIsStep
<1> QED
  BY <1>3, <1>4 DEF Appends

\* A job that ends is done with its cells, or they are written off.
LEMMA EndFinishes ==
    ASSUME ListInv, NEW r \in Runner, Ends(r)
    PROVE  ListStep /\ Unmixed'
<1>1. DOMAIN jobs = Runner /\ missed \subseteq Cell /\ Answered(r) \subseteq Cell
  BY DEF ListInv, TypeInv, Answered
<1>2. /\ jobs' = [jobs EXCEPT ![r] = IdleJob] /\ Apart
      /\ \/ missed' \subseteq missed
         \/ missed' = missed \union Answered(r)
  BY JobApart
<1>3. activities' = activities /\ InFlight' = InFlight
  BY <1>2 DEF Apart, InFlight
<1>4. /\ \A q \in Runner \ {r} : Answered(q)' = Answered(q)
      /\ Answered(r)' = {}
  <2>1. \A c : ~ Answers(activities, r, IdleJob, c)
    BY IdleOK DEF Answers
  <2> QED
    BY <1>1, <1>2, <1>3, <2>1, OthersStay
<1>5. Running' \subseteq Running /\ Running \ Running' \subseteq Answered(r)
  BY <1>4 DEF Running
<1>6. Owed' = Owed /\ Unmixed'
  BY <1>3, OwedStays DEF ListInv, Unmixed
<1>7. CASE missed' \subseteq missed
  BY <1>5, <1>6, <1>7, FinishIsStep
<1>8. CASE missed' = missed \union Answered(r)
  BY <1>1, <1>5, <1>6, <1>8, GiveUpIsStep
<1> QED
  BY <1>2, <1>6, <1>7, <1>8

\* A crash writes everything off.
LEMMA CrashGivesUp ==
    ASSUME ListInv, Crash
    PROVE  ListStep /\ Unmixed'
<1>1. InFlight' = {} /\ activities' = activities /\ missed' = missed \union Owed \union Running
  BY DEF Crash, Fault, InFlight
<1>2. Owed' = {} /\ Unmixed'
  BY <1>1 DEF Owed, Unmixed
<1>3. \A r \in Runner : Answered(r)' = {}
  BY IdleOK DEF Crash, Answered, Answers
<1>4. Running' = {}
  BY <1>3 DEF Running
<1>5. missed' \subseteq Cell
  BY <1>1, CellsAre DEF ListInv, TypeInv
<1> QED
  BY <1>1, <1>2, <1>4, <1>5, GiveUpIsStep

\* A step that leaves the events, the jobs and the activities alone.
LEMMA QuietStep ==
    ASSUME ListInv, InFlight' = InFlight, UNCHANGED <<activities, jobs, missed>>
    PROVE  ListStep /\ Unmixed'
<1>1. \A r \in Runner : Answered(r)' = Answered(r)
  BY DEF Answered
<1>2. Owed' = Owed /\ Running' = Running
  BY <1>1, OwedStays DEF Running
<1> QED
  BY <1>2, FinishIsStep DEF ListInv, Unmixed

LEMMA StepImplements ==
    ASSUME ListInv, Plain, [Next]_vars
    PROVE  ListStep /\ Unmixed'
<1>1. CASE Edit
  <2>1. CASE /\ updating' \subseteq Update
             /\ UNCHANGED <<activities, unsent, channel, pending, jobs, missed>>
    BY <2>1, QuietStep DEF InFlight
  <2> QED
    BY <1>1, <2>1, EditKinds, EditedNotes, PulledNotes DEF ListInv
<1>2. CASE \E u \in updating : FailUpdate(u)
  <2>1. InFlight' = InFlight /\ UNCHANGED <<activities, jobs, missed>>
    BY <1>2 DEF FailUpdate, InFlight
  <2> QED
    BY <2>1, QuietStep
<1>3. CASE QueueStep
  BY <1>3, QueueMoves, QuietStep
<1>4. CASE ProcessBatch
  BY <1>4, BatchTakes
<1>5. CASE \E c \in Caller, accounts \in (SUBSET Account) \ {{}} :
            StartCall(c, "full", accounts) \/ StartCall(c, "incremental", accounts)
  <2>1. PICK c \in Caller, accounts \in (SUBSET Account) \ {{}}, mode \in {"full", "incremental"} :
          StartCall(c, mode, accounts)
    BY <1>5
  <2>2. accounts \in SUBSET Account
    OBVIOUS
  <2> QED
    BY <2>1, <2>2, CallNotes
<1>6. CASE \E r \in Runner : JobStep(r) \/ FailJob(r) \/ FailWrite(r) \/ FailPrune(r)
  <2>1. PICK r \in Runner : JobStep(r) \/ FailJob(r) \/ FailWrite(r) \/ FailPrune(r)
    BY <1>6
  <2>2. Read(r) \/ Works(r) \/ Appends(r) \/ Ends(r)
    BY <2>1, JobKinds
  <2> QED
    BY <2>2, ReadNotes, WorkKeeps, AppendMoves, EndFinishes
<1>7. CASE Crash
  BY <1>7, CrashGivesUp
<1>8. CASE UNCHANGED vars
  <2>1. InFlight' = InFlight /\ UNCHANGED <<activities, jobs, missed>>
    BY <1>8 DEF vars, InFlight
  <2> QED
    BY <2>1, QuietStep
<1> QED
  BY <1>1, <1>2, <1>3, <1>4, <1>5, <1>6, <1>7, <1>8 DEF Next, Queue, QueueStep

LEMMA InitImplements == Init => Worklist!Init /\ Unmixed
<1> SUFFICES ASSUME Init PROVE Worklist!Init /\ Unmixed
  OBVIOUS
<1>1. InFlight = {} /\ missed = {} /\ \A r \in Runner : jobs[r].stage = "idle"
  BY IdleOK DEF Init, InFlight
<1>2. Owed = {} /\ Unmixed
  BY <1>1 DEF Owed, Unmixed
<1>3. Running = {}
  BY <1>1 DEF Running, Answered, Answers
<1> QED
  BY <1>1, <1>2, <1>3 DEF Worklist!Init

\* The queue, the planner and the jobs implement the worklist when no pull
\* shares a batch with an edit and no split is removed: a day made out of date
\* is never dropped between the commit and the end of the job that repairs it.
THEOREM ListImplemented ==
    ASSUME Plain
    PROVE  Spec => ImplementsWorklist
<1>1. Init => ListInv /\ Worklist!Init
  BY InitTyped, InitImplements DEF ListInv
<1>2. ListInv /\ [Next]_vars => ListInv' /\ [Worklist!Next]_(Worklist!vars)
  BY NextTyped, StepImplements DEF ListInv, ListStep
<1> QED
  BY <1>1, <1>2, PTL DEF Spec, ImplementsWorklist, Worklist!Spec

============================================================================
