------------------------ MODULE BackgroundLoopProofs ------------------------
(***************************************************************************)
(* Proofs about BackgroundLoop, for a channel of any size and any back-off. *)
(***************************************************************************)
EXTENDS BackgroundLoop, TLAPS

\* Every variable keeps its type; in particular the channel never overflows.
THEOREM TypeCorrect == Spec => []TypeOK
<1>1. Init => TypeOK
  <2> SUFFICES ASSUME Init PROVE TypeOK
    OBVIOUS
  <2>1. 0 \in 0..ChannelCap /\ 0 \in 0..BackoffAfter + 1
    BY LimitsAssumption
  <2>2. loop \in LoopPhase
    BY DEF Init, LoopPhase
  <2> QED
    BY <2>1, <2>2 DEF Init, TypeOK
<1>2. TypeOK /\ [Next]_vars => TypeOK'
  <2> SUFFICES ASSUME TypeOK, [Next]_vars PROVE TypeOK'
    OBVIOUS
  <2> USE DEF TypeOK, LoopPhase, writerVars, workerVars, loopVars
  <2>1. CASE Commit
    BY <2>1 DEF Commit
  <2>2. CASE Observe
    BY <2>2, LimitsAssumption DEF Observe, HasRoom
  <2>3. CASE WorkerStep
    <3>1. CASE WorkerDrains
      BY <3>1, LimitsAssumption DEF WorkerDrains
    <3>2. CASE WorkerChecks
      BY <3>2 DEF WorkerChecks
    <3>3. CASE WorkerEnsures
      BY <3>3, LimitsAssumption DEF WorkerEnsures, StartLoop, Started
    <3>4. CASE WorkerNotifies
      BY <3>4 DEF WorkerNotifies, Notifies
    <3> QED
      BY <2>3, <3>1, <3>2, <3>3, <3>4 DEF WorkerStep
  <2>4. CASE LoopStep
    <3>1. CASE LoopChecksIdentity
      BY <3>1 DEF LoopChecksIdentity
    <3>2. CASE LoopFinishes
      BY <3>2 DEF LoopFinishes
    <3>3. CASE LoopCycleEnds
      BY <3>3, LimitsAssumption DEF LoopCycleEnds
    <3>4. CASE LoopDecidesDelay
      BY <3>4 DEF LoopDecidesDelay, DelayFor
    <3>5. CASE LoopSleepEnds
      BY <3>5 DEF LoopSleepEnds
    <3>6. CASE DebounceMaxWait
      BY <3>6 DEF DebounceMaxWait
    <3> QED
      BY <2>4, <3>1, <3>2, <3>3, <3>4, <3>5, <3>6 DEF LoopStep
  <2>5. CASE LoopLocks
    BY <2>5 DEF LoopLocks
  <2>6. CASE LoopLists
    BY <2>6 DEF LoopLists
  <2>7. CASE LoopWakes
    BY <2>7 DEF LoopWakes
  <2>8. CASE DebounceRestarts
    BY <2>8 DEF DebounceRestarts
  <2>9. CASE DebounceQuiet
    BY <2>9 DEF DebounceQuiet
  <2>10. CASE ManualStep
    BY <2>10 DEF ManualStep, ManualLists, ManualEnds
  <2>11. CASE CommandStep
    <3>1. CASE ManualBegins \/ ManualLocks
      BY <3>1 DEF ManualBegins, ManualLocks
    <3>2. CASE StartCommand
      BY <3>2, LimitsAssumption DEF StartCommand, StartLoop, Started
    <3>3. CASE StopCommand
      BY <3>3 DEF StopCommand
    <3>4. CASE IdentityChanges
      BY <3>4 DEF IdentityChanges
    <3>5. CASE Restart
      <4>1. 0 \in 0..ChannelCap /\ 0 \in 0..BackoffAfter + 1
        BY LimitsAssumption
      <4> QED
        BY <3>5, <4>1 DEF Restart
    <3> QED
      BY <2>11, <3>1, <3>2, <3>3, <3>4, <3>5 DEF CommandStep
  <2>12. CASE UNCHANGED vars
    BY <2>12 DEF vars
  <2> QED
    BY <2>1, <2>2, <2>3, <2>4, <2>5, <2>6, <2>7, <2>8, <2>9, <2>10, <2>11, <2>12
       DEF Next
<1> QED
  BY <1>1, <1>2, PTL DEF Spec

-----------------------------------------------------------------------------

\* A loop that sleeps for long with an unlisted record has been told, or is
\* about to be: no order of commits, dropped tokens, passes of the worker, stops
\* and starts loses the news.  The invariant is inductive by itself, because
\* Signalled follows the news from the commit to the permit.
THEOREM NoRecordLeftWaitingHolds == Spec => []NoRecordLeftWaiting
<1> USE DEF NoRecordLeftWaiting, Signalled
<1>1. Init => NoRecordLeftWaiting
  BY DEF Init
<1>2. TypeOK /\ NoRecordLeftWaiting /\ [Next]_vars => NoRecordLeftWaiting'
  <2> SUFFICES ASSUME TypeOK, NoRecordLeftWaiting, [Next]_vars
               PROVE  NoRecordLeftWaiting'
    OBVIOUS
  <2> USE DEF TypeOK, writerVars, workerVars, loopVars
  <2>1. CASE Commit
    BY <2>1 DEF Commit
  \* A token is dropped only where another one is.
  <2>2. CASE Observe
    <3>1. wakes' > 0
      BY <2>2, LimitsAssumption DEF Observe, HasRoom
    <3> QED
      BY <3>1
  <2>3. CASE WorkerStep
    <3>1. CASE WorkerDrains
      BY <3>1 DEF WorkerDrains
    \* A loop that sleeps is seen running.
    <3>2. CASE WorkerChecks
      BY <3>2 DEF WorkerChecks
    \* A loop that sleeps is not started anew.
    <3>3. CASE WorkerEnsures
      BY <3>3 DEF WorkerEnsures, StartLoop, Started
    <3>4. CASE WorkerNotifies
      BY <3>4 DEF WorkerNotifies, Notifies
    <3> QED
      BY <2>3, <3>1, <3>2, <3>3, <3>4 DEF WorkerStep
  <2>4. CASE LoopStep
    <3>1. CASE LoopChecksIdentity
      BY <3>1 DEF LoopChecksIdentity
    <3>2. CASE LoopFinishes
      BY <3>2 DEF LoopFinishes
    <3>3. CASE LoopCycleEnds
      BY <3>3 DEF LoopCycleEnds
    \* The loop looks at the outbox before it sleeps.
    <3>4. CASE LoopDecidesDelay
      BY <3>4 DEF LoopDecidesDelay, DelayFor, HasPending
    <3>5. CASE LoopSleepEnds
      BY <3>5 DEF LoopSleepEnds
    <3>6. CASE DebounceMaxWait
      BY <3>6 DEF DebounceMaxWait
    <3> QED
      BY <2>4, <3>1, <3>2, <3>3, <3>4, <3>5, <3>6 DEF LoopStep
  <2>5. CASE LoopLocks \/ LoopLists \/ LoopWakes
    BY <2>5 DEF LoopLocks, LoopLists, LoopWakes
  <2>6. CASE DebounceRestarts
    <3>1. loop' # "sleep"
      BY <2>6 DEF DebounceRestarts
    <3> QED
      BY <3>1
  <2>7. CASE DebounceQuiet
    BY <2>7 DEF DebounceQuiet
  <2>8. CASE ManualStep
    BY <2>8 DEF ManualStep, ManualLists, ManualEnds
  <2>9. CASE CommandStep
    <3>1. CASE ManualBegins \/ ManualLocks
      BY <3>1 DEF ManualBegins, ManualLocks
    <3>2. CASE StartCommand
      BY <3>2 DEF StartCommand, StartLoop, Started
    <3>3. CASE StopCommand
      BY <3>3 DEF StopCommand
    <3>4. CASE IdentityChanges
      BY <3>4 DEF IdentityChanges
    <3>5. CASE Restart
      BY <3>5 DEF Restart
    <3> QED
      BY <2>9, <3>1, <3>2, <3>3, <3>4, <3>5 DEF CommandStep
  <2>10. CASE UNCHANGED vars
    BY <2>10 DEF vars
  <2> QED
    BY <2>1, <2>2, <2>3, <2>4, <2>5, <2>6, <2>7, <2>8, <2>9, <2>10 DEF Next
<1> QED
  BY <1>1, <1>2, TypeCorrect, PTL DEF Spec
=============================================================================
