-------------------------- MODULE AppSyncAgreement --------------------------
(***************************************************************************)
(* The inductive invariant IInv of AppSync, and what follows from it: the  *)
(* devices agree, deletes stay, edits are kept, snapshots cover what they  *)
(* claim to.                                                               *)
(***************************************************************************)
EXTENDS AppSyncTables

\* What IInv says of one device.
CycleFits(d) ==
    /\ d \notin restored /\ phase[d] # "idle" => lo[d] = cursor[d]
    /\ phase[d] \in {"fetched", "batch", "fallback", "replayed"} => lo[d] <= hi[d]
    /\ phase[d] \in {"batch", "fallback"} => lo[d] <= pos[d] /\ pos[d] <= hi[d]
    /\ \A i \in acked[d] : InLog(i)
    /\ d \notin restored => anchor[d] <= cursor[d]

DeviceSound(d) ==
    /\ CycleFits(d)
    /\ d \notin restored => Sound(events, oplog, d, TablesOf(d), Reached(d))
    /\ d \notin restored /\ phase[d] = "batch" => Sound(events, oplog, d, tx[d], pos[d])

LEMMA DevicesSound ==
  /\ CycleSound /\ TablesSound /\ TxSound <=> \A d \in Device : DeviceSound(d)
  /\ (CycleSound /\ TablesSound /\ TxSound)' <=> \A d \in Device : DeviceSound(d)'
<1>1. /\ CycleSound <=> \A d \in Device : CycleFits(d)
      /\ CycleSound' <=> \A d \in Device : CycleFits(d)'
  BY DEF CycleSound, CycleFits
<1>2. /\ TablesSound <=>
           \A d \in Device \ restored : Sound(events, oplog, d, TablesOf(d), Reached(d))
      /\ TablesSound' <=>
           \A d \in Device \ restored' :
              Sound(events', oplog', d, TablesOf(d)', Reached(d)')
  BY DEF TablesSound, Sound, RowsMatchMeta, MergedUpTo, Merged, RowFits, Concerns,
     MergedIn, Own, InLog, LoggedBy, HasUpTo, EventId
<1>3. /\ TxSound <=>
           \A d \in Device \ restored :
              phase[d] = "batch" => Sound(events, oplog, d, tx[d], pos[d])
      /\ TxSound' <=>
           \A d \in Device \ restored' :
              phase'[d] = "batch" => Sound(events', oplog', d, tx'[d], pos'[d])
  BY DEF TxSound, Sound, RowsMatchMeta, MergedUpTo, Merged, RowFits, Concerns, MergedIn,
     Own, InLog, LoggedBy, HasUpTo, EventId
<1> QED
  BY <1>1, <1>2, <1>3 DEF DeviceSound

LEMMA ReachedInLog ==
  ASSUME TypeOK, NEW d \in Device
  PROVE  Reached(d) \in Nat /\ Reached(d) <= Len(oplog)
BY LogTyped DEF TypeOK, Reached

LEMMA CursorReached ==
  ASSUME TypeOK, NEW d \in Device \ restored, CycleFits(d)
  PROVE  cursor[d] <= Reached(d) /\ anchor[d] <= Reached(d)
<1>1. /\ cursor[d] \in Nat /\ lo[d] \in Nat /\ hi[d] \in Nat /\ pos[d] \in Nat
      /\ anchor[d] \in Int /\ anchor[d] <= cursor[d]
  BY LogTyped DEF TypeOK, NoAnchor, CycleFits
<1>2. cursor[d] <= Reached(d)
  BY <1>1 DEF CycleFits, Reached
<1> QED
  BY <1>1, <1>2, ReachedInLog

-----------------------------------------------------------------------------
(* A step of another device.                                                *)

\* The step leaves what device c holds as it is.
Keeps(c) ==
    /\ rows'[c] = rows[c] /\ meta'[c] = meta[c] /\ applied'[c] = applied[c]
    /\ cursor'[c] = cursor[c] /\ phase'[c] = phase[c] /\ acked'[c] = acked[c]
    /\ lo'[c] = lo[c] /\ hi'[c] = hi[c] /\ pos'[c] = pos[c] /\ tx'[c] = tx[c]
    /\ anchor'[c] = anchor[c] /\ (c \in restored' <=> c \in restored)

LogGrows ==
    /\ Len(oplog') \in Nat /\ Len(oplog) <= Len(oplog')
    /\ \A k \in 1..Len(oplog) : oplog'[k] = oplog[k]

LEMMA KeepsCycleFits ==
  ASSUME TypeOK, NEW c \in Device, Keeps(c), LogGrows, CycleFits(c)
  PROVE  CycleFits(c)'
<1>1. \A i \in acked'[c] : InLog(i)'
  <2>1. Len(oplog) \in Nat
    BY LogTyped
  <2> QED
    BY <2>1 DEF Keeps, LogGrows, CycleFits, InLog
<1> QED
  BY <1>1 DEF Keeps, CycleFits

LEMMA KeepsSound ==
  ASSUME TypeOK, NEW c \in Device, Keeps(c), LogGrows, DeviceSound(c),
         \A t \in Tables(EventId) : \A n \in 0..Len(oplog) :
            Sound(events, oplog, c, t, n) => Sound(events', oplog, c, t, n)
  PROVE  DeviceSound(c)'
<1>1. ASSUME NEW t \in Tables(EventId), NEW n \in 0..Len(oplog),
             Sound(events, oplog, c, t, n)
      PROVE  Sound(events', oplog', c, t, n)
  <2>1. Sound(events', oplog, c, t, n)
    BY <1>1
  <2> QED
    BY <2>1, LogTyped, SoundAsLogGrows DEF LogGrows
<1>2. TablesOf(c)' = TablesOf(c) /\ Reached(c)' = Reached(c)
  BY DEF Keeps, TablesOf, Reached
<1>3. Reached(c) \in 0..Len(oplog) /\ pos[c] \in 0..Len(oplog) /\ tx[c] \in Tables(EventId)
  BY ReachedInLog DEF TypeOK
<1>4. c \notin restored' => Sound(events', oplog', c, TablesOf(c)', Reached(c)')
  BY <1>1, <1>2, <1>3, TablesTyped DEF DeviceSound, Keeps
<1>5. c \notin restored' /\ phase'[c] = "batch" => Sound(events', oplog', c, tx'[c], pos'[c])
  BY <1>1, <1>3 DEF DeviceSound, Keeps
<1> QED
  BY <1>4, <1>5, KeepsCycleFits DEF DeviceSound

LEMMA OthersKeep ==
  ASSUME TypeOK, NEW d \in Device, NEW c \in Device \ {d},
         \/ CycleStep(d) \/ PushRejected(d) \/ CycleFails(d) \/ SnapshotBegin(d)
         \/ SnapshotUpload(d) \/ SnapshotCancelled(d) \/ Restore(d)
  PROVE  Keeps(c) /\ LogGrows /\ events' = events
<1> USE DEF TypeOK, Keeps, LogGrows, serverVars, tableVars, outboxVars, pushVars, pageVars,
        cycleVars, snapshotVars, SetTables, ResetCycle
<1>1. Len(oplog) \in Nat
  BY LogTyped
<1>2. CASE CycleStep(d)
  <2>1. CASE ServerAccepts(d)
    BY <2>1, AcceptGrowsLog DEF ServerAccepts
  <2>2. CASE StartCycle(d) \/ PushReply(d) \/ Fetch(d) \/ BeginBatch(d) \/ BatchRollback(d)
    BY <1>1, <2>2 DEF StartCycle, PushReply, Fetch, BeginBatch, BatchRollback
  <2>3. CASE BatchStep(d)
    BY <1>1, <2>3 DEF BatchStep
  <2>4. CASE BatchCommit(d)
    BY <1>1, <2>4 DEF BatchCommit
  <2>5. CASE FallbackStep(d)
    BY <1>1, <2>5 DEF FallbackStep
  <2>6. CASE SetCursor(d)
    BY <1>1, <2>6 DEF SetCursor
  <2>7. CASE EndCycle(d)
    BY <1>1, <2>7 DEF EndCycle
  <2> QED
    BY <1>2, <2>1, <2>2, <2>3, <2>4, <2>5, <2>6, <2>7 DEF CycleStep
<1>3. CASE PushRejected(d) \/ CycleFails(d)
  BY <1>1, <1>3 DEF PushRejected, CycleFails
<1>4. CASE SnapshotBegin(d) \/ SnapshotUpload(d) \/ SnapshotCancelled(d)
  BY <1>1, <1>4 DEF SnapshotBegin, SnapshotUpload, SnapshotCancelled
<1>5. CASE Restore(d)
  BY <1>1, <1>5 DEF Restore
<1> QED
  BY <1>2, <1>3, <1>4, <1>5

LEMMA OthersStaySound ==
  ASSUME TypeOK, NEW d \in Device, NEW c \in Device \ {d}, DeviceSound(c),
         \/ CycleStep(d) \/ PushRejected(d) \/ CycleFails(d) \/ SnapshotBegin(d)
         \/ SnapshotUpload(d) \/ SnapshotCancelled(d) \/ Restore(d)
  PROVE  DeviceSound(c)'
BY OthersKeep, KeepsSound

-----------------------------------------------------------------------------
(* A step of the device itself.                                             *)

LEMMA PushStepsSound ==
  ASSUME TypeOK, NEW d \in Device, DeviceSound(d),
         StartCycle(d) \/ ServerAccepts(d) \/ PushReply(d) \/ PushRejected(d) \/ Fetch(d)
  PROVE  DeviceSound(d)'
<1> USE DEF serverVars, tableVars, outboxVars, pushVars, pageVars, cycleVars, snapshotVars
<1>1. /\ TablesOf(d)' = TablesOf(d) /\ Reached(d)' = Reached(d)
      /\ phase'[d] # "batch" /\ events' = events /\ restored' = restored
  BY DEF StartCycle, ServerAccepts, PushReply, PushRejected, ResetCycle, Fetch, TypeOK,
     TablesOf, Reached
<1>2. LogGrows
  BY LogTyped, AcceptGrowsLog
     DEF StartCycle, ServerAccepts, PushReply, PushRejected, Fetch, LogGrows
<1>3. d \notin restored' => Sound(events', oplog', d, TablesOf(d)', Reached(d)')
  <2>1. Reached(d) \in Nat /\ Reached(d) <= Len(oplog) /\ Len(oplog) \in Nat
    BY ReachedInLog, LogTyped
  <2> QED
    BY <1>1, <1>2, <2>1, SoundAsLogGrows DEF DeviceSound, LogGrows
<1>4. CycleFits(d)'
  <2>1. CASE StartCycle(d)
    BY <2>1 DEF StartCycle, DeviceSound, CycleFits, TypeOK, InLog
  <2>2. CASE ServerAccepts(d)
    <3>1. \A i \in acked'[d] : InLog(i)'
      BY <1>2, <2>2, AcceptGrowsLog DEF DeviceSound, CycleFits, InLog, LogGrows
    <3> QED
      BY <2>2, <3>1 DEF ServerAccepts, DeviceSound, CycleFits
  <2>3. CASE PushReply(d)
    BY <2>3 DEF PushReply, DeviceSound, CycleFits, TypeOK
  <2>4. CASE PushRejected(d)
    BY <2>4 DEF PushRejected, ResetCycle, DeviceSound, CycleFits, TypeOK
  <2>5. CASE Fetch(d)
    <3>1. lo[d] <= PageEnd(d)
      BY LogTyped, LimitsAssumption DEF TypeOK, PageEnd
    <3> QED
      BY <2>5, <3>1 DEF Fetch, DeviceSound, CycleFits, TypeOK, InLog
  <2> QED
    BY <2>1, <2>2, <2>3, <2>4, <2>5
<1> QED
  BY <1>1, <1>3, <1>4 DEF DeviceSound

LEMMA EndStepsSound ==
  ASSUME TypeOK, NEW d \in Device, DeviceSound(d), EndCycle(d) \/ CycleFails(d)
  PROVE  DeviceSound(d)'
<1> USE DEF serverVars, tableVars, outboxVars, pushVars, pageVars, cycleVars, snapshotVars
<1>1. /\ phase' = [phase EXCEPT ![d] = "idle"] /\ acked' = [acked EXCEPT ![d] = {}]
      /\ events' = events /\ oplog' = oplog /\ restored' = restored
      /\ cursor' = cursor /\ anchor' = anchor /\ rows' = rows /\ meta' = meta
      /\ applied'[d] \subseteq applied[d]
  BY DEF EndCycle, CycleFails, ResetCycle, TypeOK
<1>2. CycleFits(d)'
  BY <1>1 DEF DeviceSound, CycleFits, TypeOK
<1>3. ASSUME d \notin restored
      PROVE  Sound(events', oplog', d, TablesOf(d)', Reached(d)')
  <2>1. Reached(d)' = cursor[d] /\ cursor[d] \in Nat
    BY <1>1 DEF Reached, TypeOK
  <2>2. Sound(events, oplog, d, TablesOf(d), cursor[d])
    BY <1>3, <2>1, LogTyped, ReachedInLog, CursorReached, SoundAsLogGrows DEF DeviceSound
  <2>3. Sound(events, oplog, d, TablesOf(d)', cursor[d])
    BY <1>1, <2>2, SoundAsAppliedShrinks DEF TablesOf
  <2> QED
    BY <1>1, <2>1, <2>3
<1> QED
  BY <1>1, <1>2, <1>3 DEF DeviceSound, TypeOK

LEMMA ReplayStepsSound ==
  ASSUME TypeOK, EventsSound, NEW d \in Device, DeviceSound(d),
         \/ BeginBatch(d) \/ BatchStep(d) \/ BatchRollback(d) \/ BatchCommit(d)
         \/ FallbackStep(d) \/ SetCursor(d)
  PROVE  DeviceSound(d)'
<1> USE DEF serverVars, tableVars, outboxVars, pushVars, pageVars, cycleVars, snapshotVars
<1>1. /\ events' = events /\ oplog' = oplog /\ restored' = restored
      /\ acked' = acked /\ anchor' = anchor
  BY DEF BeginBatch, BatchStep, BatchRollback, BatchCommit, FallbackStep, SetCursor
<1>2. /\ Len(oplog) \in Nat /\ lo[d] \in Nat /\ hi[d] \in 0..Len(oplog)
      /\ pos[d] \in 0..Len(oplog) /\ cursor[d] \in 0..Len(oplog)
      /\ anchor[d] \in Int
  BY LogTyped DEF TypeOK, NoAnchor
<1>3. CASE BeginBatch(d)
  <2>1. /\ TablesOf(d)' = TablesOf(d) /\ Reached(d) = cursor[d] /\ Reached(d)' = cursor[d]
        /\ tx'[d] = TablesOf(d) /\ pos'[d] = lo[d] /\ phase'[d] = "batch"
    BY <1>3 DEF BeginBatch, TypeOK, TablesOf, Reached
  <2>2. CycleFits(d)'
    BY <1>1, <1>2, <1>3, <2>1 DEF BeginBatch, DeviceSound, CycleFits, InLog
  <2>3. d \notin restored => lo[d] = cursor[d]
    BY <1>3 DEF BeginBatch, DeviceSound, CycleFits
  <2> QED
    BY <1>1, <2>1, <2>2, <2>3 DEF DeviceSound
<1>4. CASE BatchStep(d)
  <2>1. /\ TablesOf(d)' = TablesOf(d) /\ Reached(d)' = Reached(d)
        /\ pos'[d] = pos[d] + 1 /\ pos[d] < hi[d] /\ phase[d] = "batch"
    BY <1>4 DEF BatchStep, TypeOK, TablesOf, Reached
  <2>2. CycleFits(d)'
    BY <1>1, <1>2, <1>4, <2>1 DEF BatchStep, DeviceSound, CycleFits, InLog
  <2>3. ASSUME d \notin restored PROVE Sound(events, oplog, d, tx'[d], pos[d] + 1)
    <3>1. /\ Sound(events, oplog, d, tx[d], pos[d]) /\ pos[d] + 1 \in 1..Len(oplog)
          /\ tx[d] \in Tables(EventId)
      BY <1>2, <2>1, <2>3 DEF DeviceSound, TypeOK
    <3>2. CASE Own(d, oplog[pos[d] + 1]) /\ UNCHANGED tx
      BY <1>2, <3>1, <3>2, SoundAfterSkip
    <3>3. CASE tx' = [tx EXCEPT ![d] = Replay(tx[d], oplog[pos[d] + 1])]
      <4>1. tx'[d] = Replay(tx[d], oplog[pos[d] + 1])
        BY <3>3 DEF TypeOK
      <4> QED
        BY <1>2, <3>1, <4>1, SoundAfterReplay
    <3> QED
      BY <1>4, <3>2, <3>3 DEF BatchStep
  <2> QED
    BY <1>1, <2>1, <2>2, <2>3 DEF DeviceSound
<1>5. CASE BatchRollback(d)
  <2>1. /\ TablesOf(d)' = TablesOf(d) /\ Reached(d) = cursor[d] /\ Reached(d)' = lo[d]
        /\ pos'[d] = lo[d] /\ phase'[d] = "fallback" /\ phase[d] = "batch"
    BY <1>5 DEF BatchRollback, TypeOK, TablesOf, Reached
  <2>2. CycleFits(d)'
    BY <1>1, <1>2, <1>5, <2>1 DEF BatchRollback, DeviceSound, CycleFits, InLog
  <2>3. d \notin restored => lo[d] = cursor[d]
    BY <2>1 DEF DeviceSound, CycleFits
  <2> QED
    BY <1>1, <2>1, <2>2, <2>3 DEF DeviceSound
<1>6. CASE BatchCommit(d)
  <2>1. /\ TablesOf(d)' = [rows |-> tx[d].rows, meta |-> tx[d].meta,
                            applied |-> tx[d].applied]
        /\ Reached(d)' = hi[d] /\ pos[d] = hi[d] /\ phase'[d] = "replayed"
        /\ phase[d] = "batch"
    BY <1>6 DEF BatchCommit, SetTables, TypeOK, TablesOf, Reached
  <2>2. CycleFits(d)'
    BY <1>1, <1>2, <1>6, <2>1 DEF BatchCommit, DeviceSound, CycleFits, InLog
  <2>3. TablesOf(d)' = tx[d]
    BY <2>1 DEF TypeOK, Tables
  <2> QED
    BY <1>1, <2>1, <2>2, <2>3 DEF DeviceSound
<1>7. CASE FallbackStep(d)
  <2> DEFINE i == oplog[pos[d] + 1]
  <2>1. /\ Reached(d) = pos[d] /\ Reached(d)' = pos[d] + 1
        /\ pos'[d] = pos[d] + 1 /\ pos[d] < hi[d] /\ phase'[d] = "fallback"
        /\ phase[d] = "fallback" /\ i \in EventId
    BY <1>7, PageEventTyped DEF FallbackStep, TypeOK, Reached
  <2>2. CycleFits(d)'
    BY <1>1, <1>2, <1>7, <2>1 DEF FallbackStep, DeviceSound, CycleFits, InLog
  <2>3. ASSUME d \notin restored PROVE Sound(events, oplog, d, TablesOf(d)', pos[d] + 1)
    <3>1. Sound(events, oplog, d, TablesOf(d), pos[d]) /\ pos[d] + 1 \in 1..Len(oplog)
      BY <1>2, <2>1, <2>3 DEF DeviceSound
    <3>2. CASE Skipped(d, i) /\ UNCHANGED tableVars
      <4>1. TablesOf(d)' = TablesOf(d)
        BY <3>2 DEF TablesOf
      <4> QED
        BY <1>2, <3>1, <3>2, <4>1, SoundAfterSkip DEF Skipped, Fails, Regular
    <3>3. CASE SetTables(d, Replay(TablesOf(d), i))
      <4>1. Replay(TablesOf(d), i) \in Tables(EventId)
        BY <2>1, TablesTyped, ReplayTyped
      <4>2. TablesOf(d)' = Replay(TablesOf(d), i)
        <5> DEFINE u == Replay(TablesOf(d), i)
        <5>1. u = [rows |-> u.rows, meta |-> u.meta, applied |-> u.applied]
          BY <4>1 DEF Tables
        <5> HIDE DEF u
        <5> QED
          BY <3>3, <5>1 DEF SetTables, TablesOf, TypeOK, u
      <4> QED
        BY <1>2, <3>1, <4>2, TablesTyped, SoundAfterReplay
    <3> QED
      BY <1>7, <3>2, <3>3 DEF FallbackStep
  <2> QED
    BY <1>1, <2>1, <2>2, <2>3 DEF DeviceSound
<1>8. CASE SetCursor(d)
  <2>1. /\ TablesOf(d)' = TablesOf(d) /\ Reached(d) = hi[d] /\ Reached(d)' = hi[d]
        /\ cursor'[d] = hi[d] /\ lo'[d] = hi[d] /\ phase'[d] = "pull"
    BY <1>8 DEF SetCursor, NextCursor, PageReplayed, TypeOK, TablesOf, Reached
  <2>2. d \notin restored => lo[d] = cursor[d] /\ lo[d] <= hi[d]
    BY <1>8 DEF SetCursor, PageReplayed, DeviceSound, CycleFits
  <2>3. CycleFits(d)'
    BY <1>1, <1>2, <2>1, <2>2 DEF DeviceSound, CycleFits, InLog
  <2> QED
    BY <1>1, <2>1, <2>3 DEF DeviceSound
<1> QED
  BY <1>3, <1>4, <1>5, <1>6, <1>7, <1>8

LEMMA SnapshotStepsSound ==
  ASSUME TypeOK, NEW d \in Device, DeviceSound(d),
         SnapshotBegin(d) \/ SnapshotUpload(d) \/ SnapshotCancelled(d) \/ Restore(d)
  PROVE  DeviceSound(d)'
<1> USE DEF serverVars, tableVars, outboxVars, pushVars, pageVars, cycleVars, snapshotVars
<1>1. /\ events' = events /\ oplog' = oplog /\ phase' = phase /\ acked' = acked
      /\ lo' = lo /\ hi' = hi /\ pos' = pos /\ tx' = tx
  BY DEF SnapshotBegin, SnapshotUpload, SnapshotCancelled, Restore
<1>2. CASE Restore(d)
  <2>1. d \in restored'
    BY <1>2 DEF Restore
  <2>2. CycleFits(d)'
    BY <1>1, <2>1 DEF DeviceSound, CycleFits, InLog
  <2> QED
    BY <2>1, <2>2 DEF DeviceSound
<1>3. CASE SnapshotBegin(d) \/ SnapshotUpload(d) \/ SnapshotCancelled(d)
  <2>1. /\ TablesOf(d)' = TablesOf(d) /\ Reached(d)' = Reached(d)
        /\ restored' = restored /\ cursor' = cursor
    BY <1>3 DEF SnapshotBegin, SnapshotUpload, SnapshotCancelled, TablesOf, Reached
  <2>2. cursor[d] \in Nat /\ (anchor'[d] = anchor[d] \/ anchor'[d] \in {cursor[d], -1})
    BY <1>3 DEF SnapshotBegin, SnapshotUpload, SnapshotCancelled, TypeOK, NoAnchor
  <2>3. CycleFits(d)'
    BY <1>1, <2>1, <2>2 DEF DeviceSound, CycleFits, InLog
  <2> QED
    BY <1>1, <2>1, <2>3 DEF DeviceSound
<1> QED
  BY <1>2, <1>3

LEMMA WriteStaysSound ==
  ASSUME TypeOK, EventsSound, \A c \in Device : DeviceSound(c),
         NEW d \in Device, NEW e \in Entity, NEW op \in Op, LocalWrite(d, e, op)
  PROVE  \A c \in Device : DeviceSound(c)'
<1> USE DEF serverVars, cycleVars, pushVars, pageVars, snapshotVars
<1>1. /\ oplog' = oplog /\ restored' = restored /\ phase' = phase /\ cursor' = cursor
      /\ acked' = acked /\ lo' = lo /\ hi' = hi /\ pos' = pos /\ tx' = tx
      /\ anchor' = anchor /\ phase[d] # "batch"
  BY DEF LocalWrite, WriterFree
<1>2. DeviceSound(d)'
  <2>1. CycleFits(d)' <=> CycleFits(d)
    BY <1>1 DEF CycleFits, InLog
  <2>2. Reached(d)' = Reached(d)
    BY <1>1 DEF Reached
  <2>3. d \notin restored => Sound(events', oplog, d, TablesOf(d)', Reached(d))
    BY ReachedInLog, SoundAfterOwnWrite DEF DeviceSound
  <2> QED
    BY <1>1, <2>1, <2>2, <2>3 DEF DeviceSound
<1>3. ASSUME NEW c \in Device \ {d} PROVE DeviceSound(c)'
  <2>1. Keeps(c) /\ LogGrows
    BY <1>1, LogTyped DEF Keeps, LogGrows, LocalWrite, TypeOK
  <2>2. ASSUME NEW t \in Tables(EventId), NEW n \in 0..Len(oplog),
               Sound(events, oplog, c, t, n)
        PROVE  Sound(events', oplog, c, t, n)
    <3> DEFINE j == Len(events) + 1
    <3>1. /\ EventId' = EventId \cup {j} /\ j \notin EventId
          /\ \A i \in EventId : events'[i] = events[i]
          /\ events'[j] = NewEvent(d, e, op)
      BY WriteGrowsEvents
    <3>2. events'[j].dev # c
      BY <3>1 DEF NewEvent
    <3> HIDE DEF j
    <3>3. /\ NoMeta \notin EventId
          /\ \A i \in EventId : events[i].ent \in Entity
          /\ \A k \in 1..Len(oplog) : oplog[k] \in EventId
          /\ Len(oplog) \in Nat /\ n \in Nat /\ n <= Len(oplog)
      BY EventFacts, LogTyped
    <3> QED
      BY <2>2, <3>1, <3>2, <3>3, SoundAsOthersWrite DEF EventId
  <2> QED
    BY <2>1, <2>2, KeepsSound
<1> QED
  BY <1>2, <1>3

LEMMA DevicesStaySound ==
  ASSUME TypeOK, EventsSound, \A c \in Device : DeviceSound(c), [Next]_vars
  PROVE  \A c \in Device : DeviceSound(c)'
<1>1. CASE Tick \/ UNCHANGED vars
  <2> SUFFICES ASSUME NEW c \in Device PROVE DeviceSound(c)'
    OBVIOUS
  <2>1. Keeps(c) /\ LogGrows /\ events' = events
    BY <1>1, LogTyped DEF Tick, vars, Keeps, LogGrows, serverVars, tableVars, outboxVars,
       pushVars, pageVars, cycleVars, snapshotVars
  <2> QED
    BY <2>1, KeepsSound
<1>2. ASSUME NEW d \in Device,
             \/ CycleStep(d) \/ PushRejected(d) \/ CycleFails(d) \/ SnapshotBegin(d)
             \/ SnapshotUpload(d) \/ SnapshotCancelled(d) \/ Restore(d)
      PROVE  \A c \in Device : DeviceSound(c)'
  <2>1. \A c \in Device \ {d} : DeviceSound(c)'
    BY <1>2, OthersStaySound
  <2>2. DeviceSound(d)'
    BY <1>2, PushStepsSound, EndStepsSound, ReplayStepsSound, SnapshotStepsSound DEF CycleStep
  <2> QED
    BY <2>1, <2>2
<1>3. ASSUME NEW d \in Device, NEW e \in Entity, NEW op \in Op, LocalWrite(d, e, op)
      PROVE  \A c \in Device : DeviceSound(c)'
  BY <1>3, WriteStaysSound
<1> QED
  BY <1>1, <1>2, <1>3 DEF Next

-----------------------------------------------------------------------------
(* The other parts of the invariant.                                        *)

LEMMA EventsStaySound ==
  ASSUME TypeOK, EventsSound, [Next]_vars
  PROVE  EventsSound'
<1>1. ASSUME events' = events, clock' = clock \/ clock' = clock + 1 PROVE EventsSound'
  <2> SUFFICES ASSUME NEW i \in EventId
               PROVE  events[i].id = i /\ events[i].ts <= clock' + Skew[events[i].dev]
    BY <1>1 DEF EventsSound, EventId
  <2>1. clock \in Nat /\ Skew[events[i].dev] \in Nat
    BY EventFacts, SetsAssumption DEF TypeOK
  <2> QED
    BY <1>1, <2>1, EventFacts
<1>2. ASSUME NEW d \in Device, NEW e \in Entity, NEW op \in Op, LocalWrite(d, e, op)
      PROVE  EventsSound'
  <2> DEFINE j == Len(events) + 1
  <2>1. /\ EventId' = EventId \cup {j} /\ \A i \in EventId : events'[i] = events[i]
        /\ events'[j] = NewEvent(d, e, op)
    BY <1>2, WriteGrowsEvents
  <2>2. clock' = clock
    BY <1>2 DEF LocalWrite
  <2>3. clock + Skew[d] \in Nat
    BY SetsAssumption DEF TypeOK
  <2>4. events'[j].id = j /\ events'[j].ts = clock + Skew[d] /\ events'[j].dev = d
    BY <2>1 DEF NewEvent
  <2> HIDE DEF j
  <2>5. \A i \in EventId' : events'[i].id = i /\ events'[i].ts <= clock + Skew[events'[i].dev]
    BY <2>1, <2>3, <2>4 DEF EventsSound
  <2> QED
    BY <2>2, <2>5 DEF EventsSound
<1>3. ASSUME NEW d \in Device,
             \/ CycleStep(d) \/ PushRejected(d) \/ CycleFails(d) \/ SnapshotBegin(d)
             \/ SnapshotUpload(d) \/ SnapshotCancelled(d) \/ Restore(d)
      PROVE  events' = events /\ clock' = clock
  BY <1>3 DEF CycleStep, StartCycle, ServerAccepts, PushReply, Fetch, BeginBatch, BatchStep,
     BatchRollback, BatchCommit, FallbackStep, SetCursor, EndCycle, PushRejected,
     CycleFails, SnapshotBegin, SnapshotUpload, SnapshotCancelled, Restore
<1>4. CASE Tick
  BY <1>1, <1>4 DEF Tick
<1>5. CASE UNCHANGED vars
  BY <1>1, <1>5 DEF vars
<1> QED
  BY <1>1, <1>2, <1>3, <1>4, <1>5 DEF Next

LEMMA LogNeverShrinks ==
  ASSUME TypeOK, [Next]_vars
  PROVE  LogGrows /\ \A i : InLog(i) => InLog(i)'
<1>1. Len(oplog) \in Nat
  BY LogTyped
<1>2. ASSUME NEW d \in Device, ServerAccepts(d) PROVE LogGrows
  BY <1>2, AcceptGrowsLog DEF LogGrows
<1>3. ASSUME oplog' = oplog PROVE LogGrows
  BY <1>1, <1>3 DEF LogGrows
<1>4. oplog' = oplog \/ \E d \in Device : ServerAccepts(d)
  BY ZenonT(40) DEF Next, Tick, LocalWrite, CycleStep, StartCycle, PushReply, Fetch, BeginBatch,
     BatchStep, BatchRollback, BatchCommit, FallbackStep, SetCursor, EndCycle, PushRejected,
     CycleFails, SnapshotBegin, SnapshotUpload, SnapshotCancelled, Restore, vars, serverVars
<1>5. LogGrows
  BY <1>2, <1>3, <1>4
<1> QED
  BY <1>1, <1>5 DEF LogGrows, InLog

\* The server has what the cycle counts as accepted.
AckedInLog == \A d \in Device : \A i \in acked[d] : InLog(i)

LEMMA AckedStay ==
  ASSUME TypeOK, AckedInLog, [Next]_vars
  PROVE  AckedInLog'
<1> USE DEF serverVars, tableVars, outboxVars, pushVars, pageVars, cycleVars, snapshotVars
<1>1. ASSUME \A d \in Device : acked'[d] \subseteq acked[d] PROVE AckedInLog'
  BY <1>1, LogNeverShrinks DEF AckedInLog
<1>2. CASE acked' = acked
  BY <1>1, <1>2
<1>3. ASSUME NEW d \in Device, ServerAccepts(d) PROVE AckedInLog'
  <2>1. \A c \in Device \ {d} : acked'[c] = acked[c]
    BY <1>3 DEF ServerAccepts, TypeOK
  <2>2. \A i \in acked'[d] : InLog(i)'
    BY <1>3, AcceptGrowsLog, LogNeverShrinks DEF AckedInLog
  <2> QED
    BY <2>1, <2>2, LogNeverShrinks DEF AckedInLog
<1>4. ASSUME NEW d \in Device,
             PushReply(d) \/ PushRejected(d) \/ EndCycle(d) \/ CycleFails(d)
      PROVE  AckedInLog'
  <2>1. acked' = [acked EXCEPT ![d] = {}]
    BY <1>4 DEF PushReply, PushRejected, EndCycle, CycleFails, ResetCycle
  <2> QED
    BY <1>1, <2>1 DEF TypeOK
<1>5. \/ acked' = acked
      \/ \E d \in Device : \/ ServerAccepts(d) \/ PushReply(d) \/ PushRejected(d)
                           \/ EndCycle(d) \/ CycleFails(d)
  BY ZenonT(40) DEF Next, Tick, LocalWrite, CycleStep, StartCycle, Fetch, BeginBatch, BatchStep,
     BatchRollback, BatchCommit, FallbackStep, SetCursor, SnapshotBegin, SnapshotUpload,
     SnapshotCancelled, Restore, vars
<1> QED
  BY <1>2, <1>3, <1>4, <1>5

LEMMA EditsStay ==
  ASSUME TypeOK, AckedInLog, NoLostEdit, [Next]_vars
  PROVE  NoLostEdit'
<1> USE DEF serverVars, tableVars, outboxVars, pushVars, pageVars, cycleVars, snapshotVars
<1>1. \A i \in EventId : InLog(i) => InLog(i)'
  BY LogNeverShrinks
<1>2. ASSUME events' = events, restored \subseteq restored',
             \A d \in Device : \A i \in EventId :
                i \in pending[d] \cup dead[d] =>
                   d \in restored' \/ i \in pending'[d] \/ i \in dead'[d] \/ InLog(i)
      PROVE  NoLostEdit'
  <2> SUFFICES ASSUME NEW i \in EventId
               PROVE  LET d == events[i].dev IN
                      d \in restored' \/ i \in pending'[d] \/ i \in dead'[d] \/ InLog(i)'
    BY <1>2 DEF NoLostEdit, EventId
  <2>1. events[i].dev \in Device
    BY EventTyped DEF Event
  <2> QED
    BY <1>1, <1>2, <2>1 DEF NoLostEdit
<1>3. CASE /\ events' = events /\ restored' = restored
           /\ pending' = pending /\ dead' = dead
  BY <1>2, <1>3
<1>4. ASSUME NEW d \in Device, NEW e \in Entity, NEW op \in Op, LocalWrite(d, e, op)
      PROVE  NoLostEdit'
  <2> DEFINE j == Len(events) + 1
  <2>1. /\ EventId' = EventId \cup {j} /\ \A i \in EventId : events'[i] = events[i]
        /\ events'[j] = NewEvent(d, e, op)
    BY <1>4, WriteGrowsEvents
  <2>2. events'[j].dev = d
    BY <2>1 DEF NewEvent
  <2>3. /\ pending' = [pending EXCEPT ![d] = @ \cup {j}] /\ dead' = dead
        /\ restored' = restored
    BY <1>4 DEF LocalWrite
  <2>4. j \in pending'[d] /\ \A c \in Device : pending[c] \subseteq pending'[c]
    BY <2>3 DEF TypeOK
  <2> HIDE DEF j
  <2> SUFFICES ASSUME NEW i \in EventId'
               PROVE  LET c == events'[i].dev IN
                      c \in restored' \/ i \in pending'[c] \/ i \in dead'[c] \/ InLog(i)'
    BY DEF NoLostEdit
  <2>5. CASE i = j
    BY <2>2, <2>4, <2>5
  <2>6. CASE i \in EventId
    <3>1. events[i].dev \in Device
      BY <2>6, EventTyped DEF Event
    <3> QED
      BY <1>1, <2>1, <2>3, <2>4, <2>6, <3>1 DEF NoLostEdit
  <2> QED
    BY <2>1, <2>5, <2>6
<1>5. ASSUME NEW d \in Device, PushReply(d) PROVE NoLostEdit'
  <2>1. \A i \in acked[d] : InLog(i)
    BY DEF AckedInLog
  <2> QED
    BY <1>2, <1>5, <2>1 DEF PushReply, SentIds, TypeOK
<1>6. ASSUME NEW d \in Device, PushRejected(d) PROVE NoLostEdit'
  BY <1>2, <1>6 DEF PushRejected, TypeOK
<1>7. ASSUME NEW d \in Device, Restore(d) PROVE NoLostEdit'
  BY <1>2, <1>7 DEF Restore, TypeOK
<1>8. ASSUME NEW d \in Device,
             \/ SnapshotBegin(d) \/ SnapshotUpload(d) \/ SnapshotCancelled(d)
             \/ CycleFails(d)
             \/ (CycleStep(d) /\ ~PushReply(d))
      PROVE  NoLostEdit'
  <2>1. /\ events' = events /\ restored' = restored
        /\ pending' = pending /\ dead' = dead
    BY <1>8 DEF CycleStep, StartCycle, ServerAccepts, Fetch, BeginBatch, BatchStep,
       BatchRollback, BatchCommit, FallbackStep, SetCursor, EndCycle, CycleFails,
       SnapshotBegin, SnapshotUpload, SnapshotCancelled
  <2> QED
    BY <1>3, <2>1
<1>9. CASE Tick \/ UNCHANGED vars
  BY <1>3, <1>9 DEF Tick, vars
<1> QED
  BY <1>4, <1>5, <1>6, <1>7, <1>8, <1>9 DEF Next

LEMMA OnlyWritesMakeEvents ==
  ASSUME [Next]_vars
  PROVE  \/ events' = events
         \/ \E d \in Device, e \in Entity, op \in Op : LocalWrite(d, e, op)
BY DEF Next, Tick, CycleStep, StartCycle, ServerAccepts, PushReply, Fetch, BeginBatch,
   BatchStep, BatchRollback, BatchCommit, FallbackStep, SetCursor, EndCycle, PushRejected,
   CycleFails, SnapshotBegin, SnapshotUpload, SnapshotCancelled, Restore, vars

LEMMA EventsNeverChange ==
  ASSUME TypeOK, [Next]_vars
  PROVE  EventId \subseteq EventId' /\ \A i \in EventId : events'[i] = events[i]
<1>1. CASE events' = events
  BY <1>1 DEF EventId
<1>2. CASE \E d \in Device, e \in Entity, op \in Op : LocalWrite(d, e, op)
  BY <1>2, WriteGrowsEvents
<1> QED
  BY <1>1, <1>2, OnlyWritesMakeEvents

\* SnapshotCovers for one snapshot, and Reflects, with the state as a parameter.
ReflectsIn(ev, row, e, i) ==
    \/ row \in DOMAIN ev /\ ~ShouldApply(ev[row], ev[i])
    \/ row = Absent /\ \E m \in DOMAIN ev :
                          ev[m].ent = e /\ IsDelete(ev[m]) /\ ~ShouldApply(ev[m], ev[i])

Covers(ev, log, s) ==
    \A k \in 1..s.seq :
        Regular(s.from, ev[log[k]].ent) =>
            ReflectsIn(ev, s.rows[ev[log[k]].ent], ev[log[k]].ent, log[k])

LEMMA SnapshotsCover ==
  /\ SnapshotCovers <=>
       \A n \in 1..Len(snapshots) :
          snapshots[n].from \notin restored => Covers(events, oplog, snapshots[n])
  /\ SnapshotCovers' <=>
       \A n \in 1..Len(snapshots') :
          snapshots'[n].from \notin restored' => Covers(events', oplog', snapshots'[n])
BY DEF SnapshotCovers, Covers, Reflects, ReflectsIn, EventId

LEMMA CoversAsHistoryGrows ==
  ASSUME NEW ev, NEW ev2, NEW log, NEW log2, NEW s, Covers(ev, log, s),
         \A k \in 1..s.seq : log[k] \in DOMAIN ev /\ log2[k] = log[k],
         DOMAIN ev \subseteq DOMAIN ev2, \A i \in DOMAIN ev : ev2[i] = ev[i]
  PROVE  Covers(ev2, log2, s)
<1> SUFFICES ASSUME NEW k \in 1..s.seq, Regular(s.from, ev2[log2[k]].ent)
             PROVE  ReflectsIn(ev2, s.rows[ev2[log2[k]].ent], ev2[log2[k]].ent, log2[k])
  BY DEF Covers
<1>1. log[k] \in DOMAIN ev /\ log2[k] = log[k] /\ ev2[log[k]] = ev[log[k]]
  OBVIOUS
<1>2. ReflectsIn(ev, s.rows[ev[log[k]].ent], ev[log[k]].ent, log[k])
  BY <1>1 DEF Covers
<1> QED
  BY <1>1, <1>2 DEF ReflectsIn

LEMMA SnapshotsStayCovered ==
  ASSUME SameSkew, TypeOK, EventsSound, \A d \in Device : DeviceSound(d), SnapshotCovers,
         [Next]_vars
  PROVE  SnapshotCovers'
<1> DEFINE Snap == [from : Device, seq : 0..Len(oplog), rows : [Entity -> Row]]
<1>1. snapshots \in Seq(Snap) /\ Len(oplog) \in Nat
  BY LogTyped DEF TypeOK
<1>2. restored \subseteq restored'
  BY ZenonT(40) DEF Next, Tick, LocalWrite, CycleStep, StartCycle, ServerAccepts, PushReply, Fetch,
     BeginBatch, BatchStep, BatchRollback, BatchCommit, FallbackStep, SetCursor, EndCycle,
     PushRejected, CycleFails, SnapshotBegin, SnapshotUpload, SnapshotCancelled, Restore,
     vars, snapshotVars
<1>3. ASSUME NEW s \in Snap, Covers(events, oplog, s) PROVE Covers(events', oplog', s)
  <2>1. \A k \in 1..s.seq : oplog[k] \in EventId /\ oplog'[k] = oplog[k]
    BY <1>1, LogTyped, LogNeverShrinks DEF LogGrows
  <2> QED
    BY <1>3, <2>1, EventsNeverChange, CoversAsHistoryGrows DEF EventId
<1>4. ASSUME NEW n \in 1..Len(snapshots), snapshots[n].from \notin restored'
      PROVE  Covers(events', oplog', snapshots[n])
  <2>1. snapshots[n] \in Snap
    BY <1>1, ElementOfSeq
  <2>2. Covers(events, oplog, snapshots[n])
    BY <1>2, <1>4, SnapshotsCover
  <2> QED
    BY <1>3, <2>1, <2>2
<1>5. CASE snapshots' = snapshots
  BY <1>4, <1>5, SnapshotsCover
<1>6. ASSUME NEW d \in Device, SnapshotUpload(d) PROVE SnapshotCovers'
  <2> DEFINE s == [from |-> d, seq |-> anchor[d], rows |-> rows[d]]
  <2>1. s \in Snap /\ snapshots' = Append(snapshots, s)
    BY <1>6 DEF SnapshotUpload, BaseSeq, TypeOK
  <2>2. ASSUME d \notin restored PROVE Covers(events, oplog, s)
    <3> SUFFICES ASSUME NEW k \in 1..anchor[d], Regular(d, events[oplog[k]].ent)
                 PROVE  ReflectsIn(events, rows[d][events[oplog[k]].ent],
                                   events[oplog[k]].ent, oplog[k])
      BY DEF Covers
    <3>1. /\ Sound(events, oplog, d, TablesOf(d), Reached(d))
          /\ Reached(d) \in Nat /\ Reached(d) <= Len(oplog) /\ anchor[d] <= Reached(d)
      BY <2>2, ReachedInLog, CursorReached DEF DeviceSound
    <3>2. k \in 1..Reached(d)
      BY <3>1, <1>6 DEF SnapshotUpload, TypeOK
    <3>3. Reflects(rows[d][events[oplog[k]].ent], events[oplog[k]].ent, oplog[k])
      BY <3>1, <3>2, TablesTyped, SoundReflects DEF TablesOf
    <3> QED
      BY <3>3 DEF Reflects, ReflectsIn, EventId
  <2> HIDE DEF s
  <2>3. d \notin restored' => Covers(events', oplog', s)
    BY <1>2, <1>3, <2>1, <2>2
  <2>4. /\ Len(snapshots) \in Nat /\ Len(snapshots') = Len(snapshots) + 1
        /\ \A n \in 1..Len(snapshots) : snapshots'[n] = snapshots[n]
        /\ snapshots'[Len(snapshots) + 1] = s
    BY <1>1, <2>1, AppendProperties, LenProperties
  <2>5. s.from = d
    BY DEF s
  <2>6. ASSUME NEW n \in 1..Len(snapshots'), snapshots'[n].from \notin restored'
        PROVE  Covers(events', oplog', snapshots'[n])
    <3>1. CASE n = Len(snapshots) + 1
      BY <2>3, <2>4, <2>5, <2>6, <3>1
    <3>2. CASE n \in 1..Len(snapshots)
      BY <1>4, <2>4, <2>6, <3>2
    <3> QED
      BY <2>4, <3>1, <3>2
  <2> QED
    BY <2>6, SnapshotsCover
<1>7. snapshots' = snapshots \/ \E d \in Device : SnapshotUpload(d)
  BY ZenonT(40) DEF Next, Tick, LocalWrite, CycleStep, StartCycle, ServerAccepts, PushReply, Fetch,
     BeginBatch, BatchStep, BatchRollback, BatchCommit, FallbackStep, SetCursor, EndCycle,
     PushRejected, CycleFails, SnapshotBegin, SnapshotCancelled, Restore,
     vars, serverVars
<1> QED
  BY <1>5, <1>6, <1>7

-----------------------------------------------------------------------------
(* The theorems.                                                            *)

LEMMA InitSound == Init => IInv
<1> SUFFICES ASSUME Init PROVE IInv
  OBVIOUS
<1>1. TypeOK
  BY InitTyped
<1>2. EventId = {} /\ Len(oplog) = 0 /\ Len(snapshots) = 0
  BY DEF Init, EventId
<1>3. EventsSound /\ NoLostEdit /\ SnapshotCovers
  BY <1>2 DEF EventsSound, NoLostEdit, SnapshotCovers
<1>4. CycleSound /\ TxSound
  BY DEF Init, CycleSound, TxSound, NoAnchor
<1>5. TablesSound
  BY <1>2 DEF Init, TablesSound, RowsMatchMeta, MergedUpTo, TablesOf
<1> QED
  BY <1>1, <1>3, <1>4, <1>5 DEF IInv

LEMMA StepSound == IInv /\ [Next]_vars => IInv'
<1> SUFFICES ASSUME IInv, [Next]_vars PROVE IInv'
  OBVIOUS
<1>1. TypeOK /\ EventsSound /\ CycleSound /\ NoLostEdit
  BY DEF IInv
<1>2. \A d \in Device : DeviceSound(d)
  BY DevicesSound DEF IInv
<1>3. TypeOK'
  BY <1>1, StepTyped
<1>4. (CycleSound /\ TablesSound /\ TxSound)'
  BY <1>1, <1>2, DevicesStaySound, DevicesSound
<1>5. AckedInLog
  BY <1>1 DEF CycleSound, AckedInLog
<1>6. EventsSound' /\ NoLostEdit'
  BY <1>1, <1>5, EventsStaySound, EditsStay
<1>7. ASSUME SameSkew PROVE SnapshotCovers'
  <2>1. SnapshotCovers
    BY <1>7 DEF IInv
  <2> QED
    BY <1>1, <1>2, <1>7, <2>1, SnapshotsStayCovered
<1> QED
  BY <1>3, <1>4, <1>6, <1>7 DEF IInv

\* The inductive invariant: the tables of every device that has not restored a
\* snapshot are sound, in and between the steps of its cycle.
THEOREM InvariantHolds == Spec => []IInv
<1>1. Init => IInv
  BY InitSound
<1>2. IInv /\ [Next]_vars => IInv'
  BY StepSound
<1> QED
  BY <1>1, <1>2, PTL DEF Spec

LEMMA InvariantSound ==
  ASSUME IInv, NEW d \in Device \ restored
  PROVE  /\ TypeOK /\ EventsSound
         /\ Sound(events, oplog, d, TablesOf(d), Reached(d))
         /\ TablesOf(d) \in Tables(EventId) /\ TablesOf(d).rows = rows[d]
         /\ Reached(d) \in Nat /\ Reached(d) <= Len(oplog) /\ cursor[d] <= Reached(d)
<1>1. TypeOK /\ EventsSound /\ DeviceSound(d)
  BY DevicesSound DEF IInv
<1> QED
  BY <1>1, TablesTyped, ReachedInLog, CursorReached DEF DeviceSound, TablesOf

LEMMA CursorCovers == SameSkew /\ IInv => CursorCoversReplay
<1> SUFFICES ASSUME SameSkew, IInv, NEW d \in Device \ restored, NEW k \in 1..cursor[d],
                    Regular(d, events[oplog[k]].ent)
             PROVE  Reflects(rows[d][events[oplog[k]].ent], events[oplog[k]].ent, oplog[k])
  BY DEF CursorCoversReplay
<1>1. cursor[d] \in Nat
  BY InvariantSound DEF TypeOK
<1>2. k \in 1..Reached(d)
  BY <1>1, InvariantSound
<1> QED
  BY <1>2, InvariantSound, SoundReflects

LEMMA DeletesHold == IInv => DeletedStaysDeleted
<1> SUFFICES ASSUME IInv, NEW d \in Device \ restored, NEW i \in Deletes(d),
                    Regular(d, events[i].ent)
             PROVE  rows[d][events[i].ent] = Absent
  BY DEF DeletedStaysDeleted
<1> DEFINE e == events[i].ent
           t == TablesOf(d)
           m == t.meta[e]
<1>1. /\ TypeOK /\ EventsSound /\ Sound(events, oplog, d, t, Reached(d))
      /\ t \in Tables(EventId) /\ t.rows = rows[d]
      /\ Reached(d) \in Nat /\ cursor[d] <= Reached(d)
  BY InvariantSound
<1>2. i \in EventId /\ IsDelete(events[i]) /\ (Own(d, i) \/ LoggedBy(i, cursor[d]))
  BY DEF Deletes
<1>3. e \in Entity
  BY <1>1, <1>2, EventFacts
<1> HIDE DEF t
<1>4. Concerns(events, oplog, d, t, Reached(d), i)
  <2>1. cursor[d] \in Nat
    BY <1>1 DEF TypeOK
  <2> QED
    BY <1>1, <1>2, <2>1 DEF Concerns, Lasting, Own, LoggedBy, HasUpTo
<1>5. m # NoMeta /\ ~ShouldApply(events[m], events[i])
  BY <1>1, <1>2, <1>4 DEF Sound, MergedIn, EventId
<1>6. t.rows[e] = RowShown(m, events[m].op)
  BY <1>1, <1>3, <1>5 DEF Sound, RowFits
<1>7. IsDelete(events[m])
  BY <1>2, <1>5 DEF ShouldApply
<1> QED
  BY <1>1, <1>6, <1>7 DEF RowShown, IsDelete

\* The change that the row of one device shows is behind the cursor of the other.
LEMMA HeldByOneMergedByOther ==
  ASSUME SameSkew, IInv, NEW c \in Device \ restored, NEW d \in Device \ restored,
         UpToDate(c), UpToDate(d), NEW e \in Entity, Regular(d, e), meta[c][e] # NoMeta
  PROVE  /\ meta[c][e] \in EventId /\ meta[d][e] \in EventId
         /\ rows[c][e] = RowShown(meta[c][e], events[meta[c][e]].op)
         /\ meta[d][e] # NoMeta
         /\ ~ShouldApply(events[meta[d][e]], events[meta[c][e]])
<1> DEFINE m == meta[c][e]
           t == TablesOf(c)
           u == TablesOf(d)
<1>1. /\ TypeOK /\ Sound(events, oplog, c, t, Reached(c))
      /\ Sound(events, oplog, d, u, Reached(d))
      /\ t.meta = meta[c] /\ t.rows = rows[c] /\ u.meta = meta[d]
      /\ Reached(d) \in Nat /\ cursor[d] <= Reached(d)
  BY InvariantSound DEF TablesOf
<1> HIDE DEF t, u
<1>2. meta[c][e] \in EventId /\ meta[d][e] \in EventId \cup {NoMeta}
  BY <1>1 DEF TypeOK
<1>3. RowFits(events, oplog, c, t, e)
  BY <1>1 DEF Sound
<1>4. /\ events[m].ent = e /\ rows[c][e] = RowShown(m, events[m].op)
      /\ events[m].dev = c \/ HasUpTo(oplog, m, Len(oplog))
  BY <1>1, <1>3 DEF RowFits
<1>5. HasUpTo(oplog, m, Reached(d))
  <2>1. HasUpTo(oplog, m, Len(oplog))
    BY <1>2, <1>4 DEF UpToDate, InLog, HasUpTo
  <2>2. Len(oplog) \in Nat /\ Len(oplog) <= Reached(d)
    BY <1>1, LogTyped DEF UpToDate
  <2> QED
    BY <1>1, <2>1, <2>2 DEF HasUpTo
<1>6. Concerns(events, oplog, d, u, Reached(d), m)
  BY <1>4, <1>5 DEF Concerns, Lasting
<1>7. MergedIn(events, u, m)
  BY <1>1, <1>2, <1>6 DEF Sound, EventId
<1> QED
  BY <1>1, <1>2, <1>4, <1>7 DEF MergedIn

LEMMA DevicesAgree == SameSkew /\ IInv => Agreement
<1> SUFFICES ASSUME SameSkew, IInv, NEW c \in Device \ restored,
                    NEW d \in Device \ restored, UpToDate(c), UpToDate(d),
                    NEW e \in Entity, Regular(c, e), Regular(d, e)
             PROVE  rows[c][e] = rows[d][e]
  BY DEF Agreement
<1>1. CASE meta[c][e] = NoMeta /\ meta[d][e] = NoMeta
  <2>1. ASSUME NEW x \in Device \ restored, meta[x][e] = NoMeta
        PROVE  rows[x][e] = InitialRow(e)
    BY <2>1, InvariantSound DEF Sound, RowFits, TablesOf
  <2> QED
    BY <1>1, <2>1
<1>2. CASE meta[c][e] # NoMeta \/ meta[d][e] # NoMeta
  <2>1. meta[c][e] # NoMeta /\ meta[d][e] # NoMeta
    BY <1>2, HeldByOneMergedByOther
  <2> DEFINE m == meta[c][e]
             w == meta[d][e]
  <2>2. /\ m \in EventId /\ w \in EventId
        /\ ~ShouldApply(events[m], events[w]) /\ ~ShouldApply(events[w], events[m])
        /\ rows[c][e] = RowShown(m, events[m].op)
        /\ rows[d][e] = RowShown(w, events[w].op)
    BY <2>1, HeldByOneMergedByOther
  <2> HIDE DEF m, w
  <2>3. m = w
    <3>1. TypeOK /\ EventsSound
      BY DEF IInv
    <3>2. /\ events[m].id = m /\ events[w].id = w
          /\ events[m].ts \in Int /\ events[m].id \in Int
          /\ events[w].ts \in Int /\ events[w].id \in Int
      BY <2>2, <3>1, EventFacts
    <3> QED
      BY <2>2, <3>2, ShouldApplyTotal
  <2> QED
    BY <2>2, <2>3
<1> QED
  BY <1>1, <1>2

\* Devices that are up to date agree on every regular entity, for any number of
\* devices and changes and any order of the steps.
THEOREM AgreementHolds ==
  ASSUME SameSkew
  PROVE  Spec => []Agreement
BY InvariantHolds, DevicesAgree, PTL

\* A delete that a device has made or passed is never undone there, however the
\* clocks of the devices run.
THEOREM DeletedStaysDeletedHolds == Spec => []DeletedStaysDeleted
BY InvariantHolds, DeletesHold, PTL

\* The cursor of a device never passes an event that its rows do not reflect.
THEOREM CursorCoversReplayHolds ==
  ASSUME SameSkew
  PROVE  Spec => []CursorCoversReplay
BY InvariantHolds, CursorCovers, PTL

\* The rows of a snapshot reflect the log up to its oplog_seq.
THEOREM SnapshotCoversHolds ==
  ASSUME SameSkew
  PROVE  Spec => []SnapshotCovers
<1>1. SameSkew /\ IInv => SnapshotCovers
  BY DEF IInv
<1> QED
  BY <1>1, InvariantHolds, PTL

\* No edit disappears before the server has it, however the clocks run.
THEOREM NoLostEditHolds == Spec => []NoLostEdit
<1> DEFINE Kept == TypeOK /\ AckedInLog /\ NoLostEdit
<1>1. Init => Kept
  BY InitTyped DEF Init, AckedInLog, NoLostEdit, EventId
<1>2. Kept /\ [Next]_vars => Kept'
  BY StepTyped, AckedStay, EditsStay
<1>3. Kept => NoLostEdit
  OBVIOUS
<1> QED
  BY <1>1, <1>2, <1>3, PTL DEF Spec
=============================================================================
