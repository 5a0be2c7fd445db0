---------------------------- MODULE AppSyncTables ----------------------------
(***************************************************************************)
(* The tables of one device: when they are sound, and that a replayed      *)
(* event, a skipped one, a local change and the steps of other devices     *)
(* leave them sound.  While the clocks of the devices show the same time   *)
(* (SameSkew) the tables remember every change; otherwise the deletes: a   *)
(* local change need not win over the changes that it was made on top of,  *)
(* but no local change is made on top of a delete.                         *)
(***************************************************************************)
EXTENDS AppSyncProofs

-----------------------------------------------------------------------------
(* ShouldApply orders the changes of an entity strictly and totally, when   *)
(* their ids differ, whatever their timestamps.                             *)

\* A change does not replace itself.
LEMMA ShouldApplyIrreflexive ==
  ASSUME NEW a, a.ts \in Int, a.id \in Int
  PROVE  ~ShouldApply(a, a)
BY DEF ShouldApply, ShouldApplyLww, IsDelete

\* What replaces a change that replaces a third one replaces that, too.
LEMMA ShouldApplyTransitive ==
  ASSUME NEW a, a.ts \in Int, a.id \in Int,
         NEW b, b.ts \in Int, b.id \in Int,
         NEW c, c.ts \in Int, c.id \in Int,
         ShouldApply(a, b), ShouldApply(b, c)
  PROVE  ShouldApply(a, c)
BY DEF ShouldApply, ShouldApplyLww, IsDelete

\* Of two different changes one replaces the other.
LEMMA ShouldApplyTotal ==
  ASSUME NEW a, a.ts \in Int, a.id \in Int,
         NEW b, b.ts \in Int, b.id \in Int,
         ~ShouldApply(a, b), ~ShouldApply(b, a)
  PROVE  a.id = b.id
BY DEF ShouldApply, ShouldApplyLww, IsDelete

-----------------------------------------------------------------------------
(* Sound tables.  The state is a parameter here, so that a fact about it    *)
(* can be used for the state before a step and for the state after it.      *)

HasUpTo(log, i, n) == \E k \in 1..n : log[k] = i

RowFits(ev, log, d, t, e) ==
    IF t.meta[e] = NoMeta
      THEN t.rows[e] = InitialRow(e)
      ELSE LET m == t.meta[e] IN
           /\ ev[m].ent = e
           /\ t.rows[e] = RowShown(m, ev[m].op)
           /\ ev[m].dev = d \/ HasUpTo(log, m, Len(log))

\* The tables should have merged change i.
Concerns(ev, log, d, t, n, i) ==
    /\ Regular(d, ev[i].ent) /\ Lasting(ev[i])
    /\ ev[i].dev = d \/ i \in t.applied \/ HasUpTo(log, i, n)

MergedIn(ev, t, i) ==
    LET m == t.meta[ev[i].ent] IN m # NoMeta /\ ~ShouldApply(ev[m], ev[i])

Sound(ev, log, d, t, n) ==
    /\ \A e \in Entity : RowFits(ev, log, d, t, e)
    /\ \A i \in DOMAIN ev : Concerns(ev, log, d, t, n, i) => MergedIn(ev, t, i)

\* Tables stay sound when the log grows, and are sound for less of the log.
LEMMA SoundAsLogGrows ==
  ASSUME NEW ev, NEW d, NEW t, NEW log, NEW log2, NEW n \in Nat, NEW m \in Nat,
         Len(log) \in Nat, Len(log2) \in Nat,
         n <= Len(log), m <= n, Len(log) <= Len(log2),
         \A k \in 1..Len(log) : log2[k] = log[k],
         Sound(ev, log, d, t, n)
  PROVE  Sound(ev, log2, d, t, m)
<1>1. \A i : HasUpTo(log, i, Len(log)) => HasUpTo(log2, i, Len(log2))
  BY DEF HasUpTo
<1>2. \A i : HasUpTo(log2, i, m) => HasUpTo(log, i, n)
  BY DEF HasUpTo
<1>3. ASSUME NEW e \in Entity PROVE RowFits(ev, log2, d, t, e)
  <2>1. RowFits(ev, log, d, t, e)
    BY DEF Sound
  <2> QED
    BY <2>1, <1>1 DEF RowFits
<1>4. ASSUME NEW i \in DOMAIN ev, Concerns(ev, log2, d, t, m, i) PROVE MergedIn(ev, t, i)
  <2>1. Concerns(ev, log, d, t, n, i)
    BY <1>2, <1>4 DEF Concerns
  <2> QED
    BY <2>1 DEF Sound
<1> QED
  BY <1>3, <1>4 DEF Sound

\* A change that another device makes does not concern the tables of d.
LEMMA SoundAsOthersWrite ==
  ASSUME NEW ev, NEW ev2, NEW j, NEW d, NEW log, NEW n \in Nat, NEW t \in Tables(DOMAIN ev),
         Len(log) \in Nat, n <= Len(log),
         \A k \in 1..Len(log) : log[k] \in DOMAIN ev,
         \A i \in DOMAIN ev : ev[i].ent \in Entity,
         NoMeta \notin DOMAIN ev, j \notin DOMAIN ev,
         DOMAIN ev2 = DOMAIN ev \cup {j},
         \A i \in DOMAIN ev : ev2[i] = ev[i],
         ev2[j].dev # d,
         Sound(ev, log, d, t, n)
  PROVE  Sound(ev2, log, d, t, n)
<1>1. t.meta \in [Entity -> DOMAIN ev \cup {NoMeta}] /\ t.applied \subseteq DOMAIN ev
  BY DEF Tables
<1>2. ASSUME NEW e \in Entity PROVE RowFits(ev2, log, d, t, e)
  <2>1. RowFits(ev, log, d, t, e)
    BY DEF Sound
  <2> QED
    BY <1>1, <2>1 DEF RowFits
<1>3. ASSUME NEW i \in DOMAIN ev2, Concerns(ev2, log, d, t, n, i) PROVE MergedIn(ev2, t, i)
  <2>1. i # j
    BY <1>1, <1>3 DEF Concerns, HasUpTo
  <2>2. i \in DOMAIN ev /\ ev2[i] = ev[i]
    BY <2>1
  <2>3. Concerns(ev, log, d, t, n, i)
    BY <1>3, <2>2 DEF Concerns
  <2>4. MergedIn(ev, t, i)
    BY <2>2, <2>3 DEF Sound
  <2>5. t.meta[ev[i].ent] \in DOMAIN ev \cup {NoMeta}
    BY <1>1, <2>2
  <2> QED
    BY <2>2, <2>4, <2>5 DEF MergedIn
<1> QED
  BY <1>2, <1>3 DEF Sound

\* Forgetting applied ids leaves sound tables sound.
LEMMA SoundAsAppliedShrinks ==
  ASSUME NEW ev, NEW d, NEW log, NEW n, NEW t, NEW u,
         u.rows = t.rows, u.meta = t.meta, u.applied \subseteq t.applied,
         Sound(ev, log, d, t, n)
  PROVE  Sound(ev, log, d, u, n)
<1>1. ASSUME NEW e \in Entity PROVE RowFits(ev, log, d, u, e)
  <2>1. RowFits(ev, log, d, t, e)
    BY DEF Sound
  <2> QED
    BY <2>1 DEF RowFits
<1>2. ASSUME NEW i \in DOMAIN ev, Concerns(ev, log, d, u, n, i) PROVE MergedIn(ev, u, i)
  <2>1. Concerns(ev, log, d, t, n, i)
    BY <1>2 DEF Concerns
  <2>2. MergedIn(ev, t, i)
    BY <2>1 DEF Sound
  <2> QED
    BY <2>2 DEF MergedIn
<1> QED
  BY <1>1, <1>2 DEF Sound

-----------------------------------------------------------------------------
(* The events of a state in which TypeOK and EventsSound hold.              *)

LEMMA EventFacts ==
  ASSUME TypeOK, EventsSound, NEW i \in EventId
  PROVE  /\ events[i].id = i /\ i \in Int /\ i # NoMeta
         /\ events[i].ts \in Int
         /\ events[i].ent \in Entity
         /\ events[i].dev \in Device
         /\ events[i].ts <= clock + Skew[events[i].dev]
BY EventTyped DEF EventsSound, Event

\* What loses to a change loses to any change that replaces it.
LEMMA ReplacingKeepsMerged ==
  ASSUME TypeOK, EventsSound, NEW i \in EventId, NEW m \in EventId, NEW c,
         c.ts \in Int, c.id \in Int,
         ShouldApply(events[m], c), ~ShouldApply(events[m], events[i])
  PROVE  ~ShouldApply(c, events[i])
<1>1. /\ events[m].ts \in Int /\ events[m].id \in Int
      /\ events[i].ts \in Int /\ events[i].id \in Int
  BY EventFacts
<1> QED
  BY <1>1, ShouldApplyTransitive

\* Replaying the next event of the log, when the rows can be applied.
LEMMA SoundAfterReplay ==
  ASSUME TypeOK, EventsSound, NEW d \in Device, NEW n \in Nat, n + 1 \in 1..Len(oplog),
         NEW t \in Tables(EventId), Sound(events, oplog, d, t, n)
  PROVE  Sound(events, oplog, d, Replay(t, oplog[n + 1]), n + 1)
<1> DEFINE i == oplog[n + 1]
           e == events[i].ent
           u == Replay(t, i)
<1>1. i \in EventId /\ e \in Entity
  BY LogTyped, EventFacts
<1>2. /\ t.rows \in [Entity -> Row]
      /\ t.meta \in [Entity -> EventId \cup {NoMeta}]
      /\ t.applied \in SUBSET EventId
  BY DEF Tables
<1>3. HasUpTo(oplog, i, Len(oplog))
  BY LogTyped DEF HasUpTo
<1>4. \A k : HasUpTo(oplog, k, n + 1) => k = i \/ HasUpTo(oplog, k, n)
  BY DEF HasUpTo
<1> HIDE DEF i
<1>5. /\ u.applied = t.applied \cup {i}
      /\ TakesEffect(t, i) => /\ u.rows = [t.rows EXCEPT ![e] = RowShown(i, events[i].op)]
                              /\ u.meta = [t.meta EXCEPT ![e] = i]
      /\ ~TakesEffect(t, i) => u.rows = t.rows /\ u.meta = t.meta
  BY DEF Replay
<1> HIDE DEF u
<1>6. ASSUME TakesEffect(t, i) PROVE Sound(events, oplog, d, u, n + 1)
  <2>1. /\ u.rows = [t.rows EXCEPT ![e] = RowShown(i, events[i].op)]
        /\ u.meta = [t.meta EXCEPT ![e] = i]
    BY <1>5, <1>6
  <2>2. ASSUME NEW f \in Entity PROVE RowFits(events, oplog, d, u, f)
    <3>1. RowFits(events, oplog, d, t, f)
      BY DEF Sound
    <3>2. CASE f = e
      <4>1. u.meta[f] = i /\ u.rows[f] = RowShown(i, events[i].op)
        BY <1>1, <1>2, <2>1, <3>2
      <4>2. i # NoMeta
        BY <1>1, EventFacts
      <4> QED
        BY <1>3, <3>2, <4>1, <4>2 DEF RowFits
    <3>3. CASE f # e
      <4>1. u.meta[f] = t.meta[f] /\ u.rows[f] = t.rows[f]
        BY <1>1, <1>2, <2>1, <3>3
      <4> QED
        BY <3>1, <4>1 DEF RowFits
    <3> QED
      BY <3>2, <3>3
  <2>3. ASSUME NEW k \in EventId, Concerns(events, oplog, d, u, n + 1, k)
        PROVE  MergedIn(events, u, k)
    <3>1. events[k].ent \in Entity
      BY EventFacts
    <3>2. CASE k = i
      <4>1. u.meta[events[k].ent] = i
        BY <1>1, <1>2, <2>1, <3>2
      <4>2. ~ShouldApply(events[i], events[i]) /\ i # NoMeta
        BY <1>1, EventFacts, ShouldApplyIrreflexive
      <4> QED
        BY <3>2, <4>1, <4>2 DEF MergedIn
    <3>3. CASE k # i
      <4>1. Concerns(events, oplog, d, t, n, k)
        BY <1>4, <1>5, <2>3, <3>3 DEF Concerns
      <4>2. MergedIn(events, t, k)
        BY <4>1 DEF Sound, EventId
      <4>3. CASE events[k].ent = e
        <5>1. /\ t.meta[e] \in EventId /\ t.meta[e] # NoMeta
              /\ ~ShouldApply(events[t.meta[e]], events[k])
          BY <1>1, <1>2, <4>2, <4>3 DEF MergedIn
        <5>2. ShouldApply(events[t.meta[e]], events[i])
          BY <1>6, <5>1 DEF TakesEffect, Wins
        <5>3. ~ShouldApply(events[i], events[k])
          BY <1>1, <5>1, <5>2, EventFacts, ReplacingKeepsMerged
        <5>4. u.meta[e] = i /\ i # NoMeta
          BY <1>1, <1>2, <2>1, EventFacts
        <5> QED
          BY <4>3, <5>3, <5>4 DEF MergedIn
      <4>4. CASE events[k].ent # e
        <5>1. u.meta[events[k].ent] = t.meta[events[k].ent]
          BY <1>2, <2>1, <3>1, <4>4
        <5> QED
          BY <4>2, <5>1 DEF MergedIn
      <4> QED
        BY <4>3, <4>4
    <3> QED
      BY <3>2, <3>3
  <2>4. \A k \in DOMAIN events :
          Concerns(events, oplog, d, u, n + 1, k) => MergedIn(events, u, k)
    BY <2>3 DEF EventId
  <2> QED
    BY <2>2, <2>4 DEF Sound
<1>7. ASSUME ~TakesEffect(t, i) PROVE Sound(events, oplog, d, u, n + 1)
  <2>1. u.rows = t.rows /\ u.meta = t.meta
    BY <1>5, <1>7
  <2>2. ASSUME NEW f \in Entity PROVE RowFits(events, oplog, d, u, f)
    <3>1. RowFits(events, oplog, d, t, f)
      BY DEF Sound
    <3> QED
      BY <2>1, <3>1 DEF RowFits
  <2>3. ASSUME NEW k \in EventId, Concerns(events, oplog, d, u, n + 1, k)
        PROVE  MergedIn(events, t, k)
    <3>1. CASE k \in t.applied \/ k # i
      <4>1. Concerns(events, oplog, d, t, n, k)
        BY <1>4, <1>5, <2>3, <3>1 DEF Concerns
      <4> QED
        BY <4>1 DEF Sound, EventId
    <3>2. CASE k = i /\ k \notin t.applied
      <4>1. ~Wins(t, i)
        BY <1>7, <3>2 DEF TakesEffect
      <4> QED
        BY <3>2, <4>1 DEF Wins, MergedIn
    <3> QED
      BY <3>1, <3>2
  <2>4. \A k \in DOMAIN events :
          Concerns(events, oplog, d, u, n + 1, k) => MergedIn(events, t, k)
    BY <2>3 DEF EventId
  <2>5. \A k \in DOMAIN events : MergedIn(events, t, k) => MergedIn(events, u, k)
    BY <2>1 DEF MergedIn
  <2> QED
    BY <2>2, <2>4, <2>5 DEF Sound
<1> QED
  BY <1>6, <1>7 DEF i, u

\* Passing over an event that the device made itself or cannot apply.
LEMMA SoundAfterSkip ==
  ASSUME TypeOK, NEW d \in Device, NEW n \in Nat, n + 1 \in 1..Len(oplog),
         NEW t, Sound(events, oplog, d, t, n),
         Own(d, oplog[n + 1]) \/ ~Regular(d, events[oplog[n + 1]].ent)
  PROVE  Sound(events, oplog, d, t, n + 1)
<1> DEFINE i == oplog[n + 1]
<1>1. \A k : HasUpTo(oplog, k, n + 1) => k = i \/ HasUpTo(oplog, k, n)
  BY DEF HasUpTo
<1>2. Own(d, i) \/ ~Regular(d, events[i].ent)
  OBVIOUS
<1> HIDE DEF i
<1>3. ASSUME NEW k \in DOMAIN events, Concerns(events, oplog, d, t, n + 1, k)
      PROVE  MergedIn(events, t, k)
  <2>1. Concerns(events, oplog, d, t, n, k)
    BY <1>1, <1>2, <1>3 DEF Concerns, Own
  <2> QED
    BY <2>1 DEF Sound
<1> QED
  BY <1>3 DEF Sound

\* No local change is made on top of a delete, unless the id is reused.
LEMMA WriteSparesDeleted ==
  ASSUME NEW d \in Device, NEW e \in Entity, NEW op \in Op,
         LocalWrite(d, e, op), e \notin Reusable,
         NEW m \in EventId, events[m].ent = e, rows[d][e] = RowShown(m, events[m].op)
  PROVE  ~IsDelete(events[m])
BY DEF LocalWrite, MayChange, MayCreate, RowShown, IsDelete

\* A change that d makes to its own row replaces what the row held, if that was not
\* written under a clock that runs ahead.
LEMMA WriteReplacesHeld ==
  ASSUME SameSkew, TypeOK, EventsSound, NEW d \in Device, NEW e \in Entity, NEW op \in Op,
         LocalWrite(d, e, op), e \notin Reusable,
         NEW m \in EventId, events[m].ent = e, rows[d][e] = RowShown(m, events[m].op)
  PROVE  ShouldApply(events[m], NewEvent(d, e, op))
<1> DEFINE new == NewEvent(d, e, op)
<1>1. ~IsDelete(events[m])
  BY WriteSparesDeleted
<1>2. new.op = op /\ new.id = Len(events) + 1 /\ new.ts = clock + Skew[d]
  BY DEF NewEvent
<1>3. events[m].id < new.id
  <2>1. m \in 1..Len(events) /\ Len(events) \in Nat
    BY LenProperties DEF TypeOK, EventId
  <2> QED
    BY <1>2, <2>1, EventFacts
<1>4. events[m].ts <= new.ts
  BY <1>2, EventFacts DEF SameSkew
<1>5. /\ events[m].ts \in Int /\ events[m].id \in Int
      /\ new.ts \in Int /\ new.id \in Int
  <2>1. clock \in Nat /\ Skew[d] \in Nat /\ Len(events) \in Nat
    BY SetsAssumption, LenProperties DEF TypeOK
  <2> QED
    BY <1>2, <2>1, EventFacts
<1> HIDE DEF new
<1>6. ShouldApply(events[m], new)
  <2>1. ShouldApplyLww(events[m], new)
    BY <1>3, <1>4, <1>5 DEF ShouldApplyLww
  <2> QED
    BY <1>1, <2>1 DEF ShouldApply, IsDelete
<1> QED
  BY <1>6 DEF new

\* The tables after a local change: it wins over all that they remembered.
LEMMA SoundAfterOwnWrite ==
  ASSUME TypeOK, EventsSound, NEW d \in Device, NEW e \in Entity, NEW op \in Op,
         LocalWrite(d, e, op), NEW n \in Nat, n <= Len(oplog),
         Sound(events, oplog, d, TablesOf(d), n)
  PROVE  Sound(events', oplog, d, TablesOf(d)', n)
<1> DEFINE j == Len(events) + 1
           t == TablesOf(d)
           u == TablesOf(d)'
<1>1. /\ j \in Nat \ EventId /\ j # NoMeta
      /\ EventId' = EventId \cup {j}
      /\ \A i \in EventId : events'[i] = events[i]
      /\ events'[j] = NewEvent(d, e, op)
  BY WriteGrowsEvents
<1>2. /\ t.rows \in [Entity -> Row]
      /\ t.meta \in [Entity -> EventId \cup {NoMeta}]
      /\ t.applied \in SUBSET EventId
  BY TablesTyped DEF Tables
<1>3. /\ u.rows = [t.rows EXCEPT ![e] = RowShown(j, op)]
      /\ u.meta = [t.meta EXCEPT ![e] = j]
      /\ u.applied = t.applied
  BY DEF LocalWrite, TablesOf, TypeOK
<1>4. rows[d][e] = t.rows[e]
  BY DEF TablesOf
<1>5. NewEvent(d, e, op).dev = d /\ NewEvent(d, e, op).ent = e /\ NewEvent(d, e, op).op = op
  BY DEF NewEvent
<1>6. /\ NewEvent(d, e, op).ts \in Int /\ NewEvent(d, e, op).id \in Int
  <2>1. clock \in Nat /\ Skew[d] \in Nat /\ Len(events) \in Nat
    BY SetsAssumption, LenProperties DEF TypeOK
  <2> QED
    BY <2>1 DEF NewEvent
<1> HIDE DEF j, t, u
<1>7. ASSUME NEW f \in Entity PROVE RowFits(events', oplog, d, u, f)
  <2>1. RowFits(events, oplog, d, t, f)
    BY DEF Sound, t
  <2>2. CASE f = e
    <3>1. u.meta[f] = j /\ u.rows[f] = RowShown(j, op)
      BY <1>2, <1>3, <2>2
    <3> QED
      BY <1>1, <1>5, <2>2, <3>1 DEF RowFits
  <2>3. CASE f # e
    <3>1. u.meta[f] = t.meta[f] /\ u.rows[f] = t.rows[f] /\ t.meta[f] \in EventId \cup {NoMeta}
      BY <1>2, <1>3, <2>3
    <3> QED
      BY <1>1, <2>1, <3>1 DEF RowFits
  <2> QED
    BY <2>2, <2>3
<1>8. ASSUME NEW i \in EventId', Concerns(events', oplog, d, u, n, i)
      PROVE  MergedIn(events', u, i)
  <2>1. CASE i = j
    <3>1. u.meta[e] = j
      BY <1>2, <1>3
    <3>2. ~ShouldApply(events'[j], events'[j])
      BY <1>1, <1>6, ShouldApplyIrreflexive
    <3> QED
      BY <1>1, <1>5, <2>1, <3>1, <3>2 DEF MergedIn
  <2>2. CASE i # j
    <3>1. i \in EventId /\ events'[i] = events[i] /\ events[i].ent \in Entity
      BY <1>1, <2>2, EventFacts
    <3>2. Concerns(events, oplog, d, t, n, i)
      BY <1>3, <1>8, <3>1 DEF Concerns
    <3>3. MergedIn(events, t, i)
      BY <3>1, <3>2 DEF Sound, EventId, t
    <3> DEFINE m == t.meta[events[i].ent]
    <3>4. m \in EventId /\ ~ShouldApply(events[m], events[i])
      BY <1>2, <3>1, <3>3 DEF MergedIn
    <3>5. CASE events[i].ent = e
      <4>1. RowFits(events, oplog, d, t, e)
        BY DEF Sound, t
      <4>2. events[m].ent = e /\ t.rows[e] = RowShown(m, events[m].op)
        BY <3>3, <3>5, <4>1 DEF RowFits, MergedIn
      <4>3. e \notin Reusable
        BY <3>2, <3>5 DEF Concerns, Regular
      <4>4. ~IsDelete(events[m])
        BY <1>4, <3>4, <4>2, <4>3, WriteSparesDeleted
      <4>5. SameSkew
        BY <3>2, <3>4, <4>4 DEF Concerns, Lasting, ShouldApply
      <4>6. ShouldApply(events[m], NewEvent(d, e, op))
        BY <1>4, <3>4, <4>2, <4>3, <4>5, WriteReplacesHeld
      <4>7. ~ShouldApply(NewEvent(d, e, op), events[i])
        BY <1>6, <3>1, <3>4, <4>6, ReplacingKeepsMerged
      <4>8. u.meta[e] = j
        BY <1>2, <1>3
      <4> QED
        BY <1>1, <3>1, <3>5, <4>7, <4>8 DEF MergedIn
    <3>6. CASE events[i].ent # e
      <4>1. u.meta[events[i].ent] = m
        BY <1>2, <1>3, <3>1, <3>6
      <4> QED
        BY <1>1, <3>1, <3>3, <3>4, <4>1 DEF MergedIn
    <3> QED
      BY <3>5, <3>6
  <2> QED
    BY <2>1, <2>2
<1>9. \A i \in DOMAIN events' :
         Concerns(events', oplog, d, u, n, i) => MergedIn(events', u, i)
  BY <1>8 DEF EventId
<1> QED
  BY <1>7, <1>9 DEF Sound, u

\* What sound tables show takes into account every event that they have passed.
LEMMA SoundReflects ==
  ASSUME SameSkew, TypeOK, EventsSound, NEW d \in Device, NEW n \in Nat, n <= Len(oplog),
         NEW t \in Tables(EventId), Sound(events, oplog, d, t, n), NEW k \in 1..n,
         Regular(d, events[oplog[k]].ent)
  PROVE  Reflects(t.rows[events[oplog[k]].ent], events[oplog[k]].ent, oplog[k])
<1> DEFINE i == oplog[k]
           e == events[i].ent
           m == t.meta[e]
<1>1. i \in EventId /\ e \in Entity /\ HasUpTo(oplog, i, n)
  BY LogTyped, EventFacts DEF HasUpTo
<1>2. MergedIn(events, t, i)
  BY <1>1 DEF Sound, Concerns, Lasting, EventId
<1>3. RowFits(events, oplog, d, t, e)
  BY <1>1 DEF Sound
<1>4. m \in EventId /\ ~ShouldApply(events[m], events[i])
  BY <1>1, <1>2 DEF MergedIn, Tables
<1>5. events[m].ent = e /\ t.rows[e] = RowShown(m, events[m].op)
  BY <1>2, <1>3 DEF MergedIn, RowFits
<1> HIDE DEF i, e, m
<1>6. Reflects(t.rows[e], e, i)
  BY <1>4, <1>5 DEF Reflects, RowShown, IsDelete
<1> QED
  BY <1>6 DEF i, e
=============================================================================
