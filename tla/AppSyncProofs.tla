---------------------------- MODULE AppSyncProofs ----------------------------
(***************************************************************************)
(* Proofs about AppSync for every value of its constants.                  *)
(***************************************************************************)
EXTENDS AppSync, SequenceTheorems, TLAPS

\* The record that LocalWrite appends to events.
NewEvent(d, e, op) ==
    [id |-> Len(events) + 1, dev |-> d, ent |-> e, op |-> op, ts |-> clock + Skew[d]]

LEMMA WriteGrowsEvents ==
  ASSUME TypeOK, NEW d \in Device, NEW e \in Entity, NEW op \in Op, LocalWrite(d, e, op)
  PROVE  /\ events' \in Seq(Event)
         /\ Len(events) + 1 \in Nat \ EventId
         /\ Len(events) + 1 # NoMeta
         /\ EventId' = EventId \cup {Len(events) + 1}
         /\ \A i \in EventId : events'[i] = events[i]
         /\ events'[Len(events) + 1] = NewEvent(d, e, op)
<1>1. events \in Seq(Event) /\ Len(events) \in Nat
  BY LenProperties DEF TypeOK
<1>2. clock \in Nat /\ Skew[d] \in Nat
  BY SetsAssumption DEF TypeOK
<1>3. NewEvent(d, e, op) \in Event
  BY <1>1, <1>2 DEF NewEvent, Event
<1>4. events' = Append(events, NewEvent(d, e, op))
  BY DEF LocalWrite, NewEvent
<1>5. /\ events' \in Seq(Event)
      /\ Len(events') = Len(events) + 1
      /\ \A i \in 1..Len(events) : events'[i] = events[i]
      /\ events'[Len(events) + 1] = NewEvent(d, e, op)
  BY <1>1, <1>3, <1>4, AppendProperties
<1>6. EventId = 1..Len(events) /\ EventId' = 1..Len(events')
  BY <1>1, <1>5, LenProperties DEF EventId
<1> QED
  BY <1>1, <1>5, <1>6 DEF NoMeta

LEMMA AcceptGrowsLog ==
  ASSUME TypeOK, NEW d \in Device, ServerAccepts(d)
  PROVE  /\ oplog' \in Seq(EventId)
         /\ Len(oplog) \in Nat /\ Len(oplog') \in Nat /\ Len(oplog) <= Len(oplog')
         /\ \A k \in 1..Len(oplog) : oplog'[k] = oplog[k]
         /\ \A k \in 1..Len(oplog') : k > Len(oplog) => oplog'[k] \in batch[d]
         /\ \A i \in acked'[d] : i \in acked[d] \/ InLog(i)'
<1>1. oplog \in Seq(EventId) /\ Len(oplog) \in Nat /\ batch[d] \subseteq EventId
  BY LenProperties DEF TypeOK
<1>2. PICK i \in batch[d] :
         /\ oplog' = IF InLog(i) THEN oplog ELSE Append(oplog, i)
         /\ acked' = [acked EXCEPT ![d] = @ \cup {i}]
  BY DEF ServerAccepts
<1>3. acked'[d] = acked[d] \cup {i}
  BY <1>2 DEF TypeOK
<1>4. CASE InLog(i)
  BY <1>1, <1>2, <1>3, <1>4 DEF InLog
<1>5. CASE ~InLog(i)
  <2>1. oplog' = Append(oplog, i) /\ i \in EventId
    BY <1>1, <1>2, <1>5
  <2>2. /\ oplog' \in Seq(EventId)
        /\ Len(oplog') = Len(oplog) + 1
        /\ \A k \in 1..Len(oplog) : oplog'[k] = oplog[k]
        /\ oplog'[Len(oplog) + 1] = i
    BY <1>1, <2>1, AppendProperties
  <2>3. InLog(i)'
    BY <1>1, <2>2 DEF InLog
  <2> QED
    BY <1>1, <1>2, <1>3, <2>2, <2>3
<1> QED
  BY <1>4, <1>5

-----------------------------------------------------------------------------
(* Type correctness.                                                        *)

LEMMA EventTyped ==
  ASSUME TypeOK, NEW i \in EventId
  PROVE  i \in Nat \ {NoMeta} /\ events[i] \in Event
<1>1. events \in Seq(Event)
  BY DEF TypeOK
<1>2. EventId = 1..Len(events) /\ Len(events) \in Nat
  BY <1>1, LenProperties DEF EventId
<1> QED
  BY <1>1, <1>2, ElementOfSeq DEF NoMeta

LEMMA LogTyped ==
  ASSUME TypeOK
  PROVE  Len(oplog) \in Nat /\ \A k \in 1..Len(oplog) : oplog[k] \in EventId
<1>1. oplog \in Seq(EventId)
  BY DEF TypeOK
<1> QED
  BY <1>1, LenProperties, ElementOfSeq

LEMMA TablesTyped ==
  ASSUME TypeOK, NEW d \in Device
  PROVE  TablesOf(d) \in Tables(EventId)
BY DEF TypeOK, TablesOf, Tables

LEMMA ReplayTyped ==
  ASSUME TypeOK, NEW i \in EventId, NEW t \in Tables(EventId)
  PROVE  Replay(t, i) \in Tables(EventId)
<1>1. events[i].ent \in Entity /\ i \in Nat
  BY EventTyped DEF Event
<1>2. RowShown(i, events[i].op) \in Row
  BY <1>1 DEF RowShown, Row
<1> QED
  BY <1>1, <1>2 DEF Replay, Tables

LEMMA PageEventTyped ==
  ASSUME TypeOK, NEW d \in Device, pos[d] < hi[d]
  PROVE  /\ pos[d] + 1 \in 1..Len(oplog)
         /\ oplog[pos[d] + 1] \in EventId
<1>1. pos[d] \in 0..Len(oplog) /\ hi[d] \in 0..Len(oplog)
  BY DEF TypeOK
<1>2. pos[d] + 1 \in 1..Len(oplog)
  BY <1>1, LogTyped
<1> QED
  BY <1>2, LogTyped

LEMMA NoTxTyped == NoTx \in Tables(EventId)
BY DEF NoTx, Tables, Row, Absent

LEMMA InitTyped == Init => TypeOK
BY SetsAssumption DEF Init, TypeOK, EventId, Row, Absent, Original, NoMeta, NoAnchor,
   InitialRow, NoTx, Tables, Phase

LEMMA ResetTyped ==
  ASSUME TypeOK, NEW d \in Device, ResetCycle(d)
  PROVE  /\ phase' \in [Device -> Phase]
         /\ batch' \in [Device -> SUBSET EventId]
         /\ acked' \in [Device -> SUBSET EventId]
         /\ more' \in [Device -> BOOLEAN]
         /\ lo' \in [Device -> 0..Len(oplog)]
         /\ hi' \in [Device -> 0..Len(oplog)]
         /\ pos' \in [Device -> 0..Len(oplog)]
         /\ tx' \in [Device -> Tables(EventId)]
<1>1. 0 \in 0..Len(oplog)
  BY LogTyped
<1>2. /\ phase' \in [Device -> Phase]
      /\ batch' \in [Device -> SUBSET EventId]
      /\ acked' \in [Device -> SUBSET EventId]
      /\ more' \in [Device -> BOOLEAN]
  BY DEF ResetCycle, TypeOK, Phase
<1>3. /\ lo' \in [Device -> 0..Len(oplog)]
      /\ hi' \in [Device -> 0..Len(oplog)]
      /\ pos' \in [Device -> 0..Len(oplog)]
  BY <1>1 DEF ResetCycle, TypeOK
<1>4. tx' \in [Device -> Tables(EventId)]
  BY NoTxTyped DEF ResetCycle, TypeOK
<1> QED
  BY <1>2, <1>3, <1>4

LEMMA CycleTyped ==
  ASSUME TypeOK, NEW d \in Device, CycleStep(d)
  PROVE  TypeOK'
<1> USE DEF serverVars, tableVars, outboxVars, pushVars, pageVars, cycleVars, snapshotVars
<1>1. CASE StartCycle(d)
  BY <1>1, SMTT(30) DEF StartCycle, TypeOK, EventId, Phase, Oldest
<1>2. CASE ServerAccepts(d)
  <2>1. /\ oplog' \in Seq(EventId) /\ Len(oplog) <= Len(oplog')
        /\ Len(oplog) \in Nat /\ Len(oplog') \in Nat
    BY <1>2, AcceptGrowsLog
  <2>2. 0..Len(oplog) \subseteq 0..Len(oplog')
    BY <2>1
  <2> DEFINE Snap(n) == [from : Device, seq : 0..n, rows : [Entity -> Row]]
  <2>a. Snap(Len(oplog)) \subseteq Snap(Len(oplog'))
    BY <2>2
  <2>b. snapshots' = snapshots /\ snapshots \in Seq(Snap(Len(oplog)))
    BY <1>2 DEF TypeOK, ServerAccepts
  <2>3. snapshots' \in Seq([from : Device, seq : 0..Len(oplog'), rows : [Entity -> Row]])
    BY <2>a, <2>b, SeqMonotonic
  <2>4. batch' \in [Device -> SUBSET EventId] /\ acked' \in [Device -> SUBSET EventId]
    BY <1>2 DEF ServerAccepts, TypeOK
  <2> QED
    BY <1>2, <2>1, <2>2, <2>3, <2>4 DEF ServerAccepts, TypeOK, EventId
<1>3. CASE PushReply(d)
  BY <1>3 DEF PushReply, SentIds, TypeOK, EventId, Phase
<1>4. CASE Fetch(d)
  <2>1. lo[d] \in 0..Len(oplog)
    BY DEF TypeOK
  <2>2. PageEnd(d) \in 0..Len(oplog) /\ (PageEnd(d) < Len(oplog)) \in BOOLEAN
    BY <2>1, LogTyped, LimitsAssumption DEF PageEnd
  <2> QED
    BY <1>4, <2>2 DEF Fetch, TypeOK, EventId, Phase
<1>5. CASE BeginBatch(d)
  BY <1>5, TablesTyped DEF BeginBatch, TypeOK, EventId, Phase, Tables
<1>6. CASE BatchStep(d)
  <2>1. pos[d] + 1 \in 0..Len(oplog)
    BY <1>6, PageEventTyped DEF BatchStep
  <2>2. tx[d] \in Tables(EventId)
    BY DEF TypeOK, Tables
  <2>3. tx' \in [Device -> Tables(EventId)]
    <3> DEFINE i == oplog[pos[d] + 1]
    <3>1. i \in EventId
      BY <1>6, PageEventTyped DEF BatchStep
    <3>2. Replay(tx[d], i) \in Tables(EventId)
      BY <2>2, <3>1, ReplayTyped
    <3>3. tx' = tx \/ tx' = [tx EXCEPT ![d] = Replay(tx[d], i)]
      BY <1>6 DEF BatchStep
    <3> QED
      BY <3>2, <3>3 DEF TypeOK
  <2> QED
    BY <1>6, <2>1, <2>3 DEF BatchStep, TypeOK, EventId, Tables
<1>7. CASE BatchRollback(d)
  BY <1>7, NoTxTyped DEF BatchRollback, TypeOK, EventId, Phase
<1>8. CASE BatchCommit(d)
  BY <1>8, NoTxTyped DEF BatchCommit, SetTables, TypeOK, EventId, Phase, Tables
<1>9. CASE FallbackStep(d)
  <2>1. pos[d] + 1 \in 0..Len(oplog)
    BY <1>9, PageEventTyped DEF FallbackStep
  <2>2. Replay(TablesOf(d), oplog[pos[d] + 1]) \in Tables(EventId)
    BY <1>9, PageEventTyped, TablesTyped, ReplayTyped DEF FallbackStep
  <2>3. /\ rows' \in [Device -> [Entity -> Row]]
        /\ meta' \in [Device -> [Entity -> EventId \cup {NoMeta}]]
        /\ applied' \in [Device -> SUBSET EventId]
    BY <1>9, <2>2 DEF FallbackStep, SetTables, TypeOK, Tables
  <2> QED
    BY <1>9, <2>1, <2>3 DEF FallbackStep, TypeOK, EventId
<1>10. CASE SetCursor(d)
  <2>1. hi[d] \in 0..Len(oplog)
    BY DEF TypeOK
  <2> QED
    BY <1>10, <2>1, LenProperties DEF SetCursor, NextCursor, TypeOK, EventId, Phase
<1>11. CASE EndCycle(d)
  <2>1. applied' \in [Device -> SUBSET EventId]
    BY <1>11 DEF EndCycle, TypeOK
  <2> QED
    BY <1>11, <2>1, ResetTyped DEF EndCycle, TypeOK, EventId
<1> QED
  BY <1>1, <1>2, <1>3, <1>4, <1>5, <1>6, <1>7, <1>8, <1>9, <1>10, <1>11 DEF CycleStep

LEMMA DeviceTyped ==
  ASSUME TypeOK, NEW d \in Device
  PROVE  /\ PushRejected(d) => TypeOK'
         /\ CycleFails(d) => TypeOK'
         /\ SnapshotBegin(d) => TypeOK'
         /\ SnapshotUpload(d) => TypeOK'
         /\ SnapshotCancelled(d) => TypeOK'
         /\ Restore(d) => TypeOK'
<1> USE DEF serverVars, tableVars, outboxVars, pushVars, pageVars, cycleVars, snapshotVars
<1>1. ASSUME PushRejected(d) PROVE TypeOK'
  <2>1. pending' \in [Device -> SUBSET EventId] /\ dead' \in [Device -> SUBSET EventId]
    BY <1>1 DEF PushRejected, TypeOK
  <2> QED
    BY <1>1, <2>1, ResetTyped DEF PushRejected, TypeOK, EventId
<1>2. ASSUME CycleFails(d) PROVE TypeOK'
  BY <1>2, ResetTyped DEF CycleFails, TypeOK, EventId
<1>3. ASSUME SnapshotBegin(d) PROVE TypeOK'
  BY <1>3 DEF SnapshotBegin, TypeOK, EventId
<1>4. ASSUME SnapshotUpload(d) PROVE TypeOK'
  <2>1. anchor[d] \in 0..Len(oplog)
    BY <1>4 DEF SnapshotUpload, TypeOK
  <2>2. snapshots' \in Seq([from : Device, seq : 0..Len(oplog), rows : [Entity -> Row]])
    BY <1>4, <2>1, AppendProperties DEF SnapshotUpload, BaseSeq, TypeOK
  <2> QED
    BY <1>4, <2>2 DEF SnapshotUpload, TypeOK, EventId
<1>5. ASSUME SnapshotCancelled(d) PROVE TypeOK'
  BY <1>5 DEF SnapshotCancelled, TypeOK, EventId
<1>6. ASSUME Restore(d) PROVE TypeOK'
  <2>1. PICK n \in 1..Len(snapshots) :
           /\ rows' = [rows EXCEPT ![d] = snapshots[n].rows]
           /\ cursor' = [cursor EXCEPT ![d] = snapshots[n].seq]
    BY <1>6 DEF Restore
  <2>2. snapshots[n] \in [from : Device, seq : 0..Len(oplog), rows : [Entity -> Row]]
    BY <2>1, ElementOfSeq DEF TypeOK
  <2> QED
    BY <1>6, <2>1, <2>2 DEF Restore, TypeOK, EventId, NoMeta
<1> QED
  BY <1>1, <1>2, <1>3, <1>4, <1>5, <1>6

LEMMA StepTyped == TypeOK /\ [Next]_vars => TypeOK'
<1> SUFFICES ASSUME TypeOK, [Next]_vars PROVE TypeOK'
  OBVIOUS
<1> USE DEF serverVars, tableVars, outboxVars, pushVars, pageVars, cycleVars, snapshotVars
<1>1. CASE Tick
  BY <1>1 DEF Tick, TypeOK, EventId
<1>2. ASSUME NEW d \in Device, NEW e \in Entity, NEW op \in Op, LocalWrite(d, e, op)
      PROVE  TypeOK'
  <2> DEFINE i == Len(events) + 1
  <2>1. /\ events' \in Seq(Event) /\ i \in Nat
        /\ EventId \subseteq EventId' /\ i \in EventId'
    BY <1>2, WriteGrowsEvents
  <2>2. oplog' \in Seq(EventId')
    BY <2>1, <1>2, SeqMonotonic DEF LocalWrite, TypeOK
  <2>3. RowShown(i, op) \in Row
    BY <2>1 DEF RowShown, Row
  <2> HIDE DEF i
  <2>4. /\ rows' \in [Device -> [Entity -> Row]]
        /\ meta' \in [Device -> [Entity -> EventId' \cup {NoMeta}]]
        /\ pending' \in [Device -> SUBSET EventId']
    BY <1>2, <2>1, <2>3 DEF LocalWrite, TypeOK, i
  <2> QED
    <3>1. Tables(EventId) \subseteq Tables(EventId')
      BY <2>1 DEF Tables
    <3> QED
      BY <1>2, <2>1, <2>2, <2>4, <3>1 DEF LocalWrite, TypeOK
<1>3. CASE UNCHANGED vars
  BY <1>3 DEF vars, TypeOK, EventId
<1> QED
  BY <1>1, <1>2, <1>3, CycleTyped, DeviceTyped DEF Next

\* Every value stays in its type, and no cursor or page leaves the log.
THEOREM TypeCorrect == Spec => []TypeOK
<1>1. Init => TypeOK
  BY InitTyped
<1>2. TypeOK /\ [Next]_vars => TypeOK'
  BY StepTyped
<1> QED
  BY <1>1, <1>2, PTL DEF Spec
=============================================================================
