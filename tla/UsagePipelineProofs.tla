------------------------ MODULE UsagePipelineProofs ------------------------
(***************************************************************************)
(* Proofs about UsagePipeline for every set of events, every number of     *)
(* callers of Close and every configuration that NewPipeline accepts.      *)
(***************************************************************************)
EXTENDS UsagePipeline, FiniteSetTheorems, SequenceTheorems, TLAPS

\* Past the check of p.closed a goroutine still holds the read lock, so the
\* pipeline is open.
AdmissionInv ==
    \A e \in Events : pc[e] \in {"admitted", "sent", "measured"} => ~closed

\* The context is cancelled, and the worker leaves its loop, only after Close has
\* closed the channel; the final flush starts with an empty channel.
ShutdownInv ==
    /\ \A c \in Closers : closer[c] \in {"waiting", "cancelling", "ok", "expired"} => closed
    /\ cancelled \/ Finished => closed
    /\ flushing = "final" => closed /\ queue = <<>>

\* The worker selects with room in its batch, persists only a batch that is not
\* empty and retries only below MaxAttempts.
BatchInv ==
    /\ worker = "select" => Len(batch) < BatchSize
    /\ worker \in {"persist", "backoff", "deadletter"} => batch # <<>>
    /\ worker = "backoff" => attempt < MaxAttempts

ControlInv == TypeOK /\ AdmissionInv /\ ShutdownInv /\ BatchInv

USE DEF EnqueueStates, HoldingRLock, CloserStates, WorkerStates, Finished

\* Local rules of sequences, for the sequences of events used here.
LEMMA RangeOfEvents ==
    ASSUME NEW s \in Seq(Events)
    PROVE  Range(s) \subseteq Events
BY DEF Range

\* The rows a PersistUsage statement adds form a finite set of events, and the
\* table grows by exactly their number.
LEMMA NewRowsCount ==
    ASSUME stored \subseteq Events, batch \in Seq(Events)
    PROVE  /\ Cardinality(NewRows) \in Nat
           /\ Cardinality(stored) \in Nat
           /\ Cardinality(stored \cup Range(batch)) = Cardinality(stored) + Cardinality(NewRows)
<1>1. IsFiniteSet(stored) /\ IsFiniteSet(NewRows)
  BY EventsAssumption, RangeOfEvents, FS_Subset DEF NewRows
<1>2. /\ stored \cup Range(batch) = stored \cup NewRows
      /\ stored \cap NewRows = {}
  BY DEF NewRows
<1>3. Cardinality({}) = 0 BY FS_EmptySet
<1>4. Cardinality(stored) \in Nat /\ Cardinality(NewRows) \in Nat
  BY <1>1, FS_CardinalityType
<1>5. Cardinality(stored \cup NewRows)
        = Cardinality(stored) + Cardinality(NewRows) - Cardinality(stored \cap NewRows)
  BY <1>1, FS_Union
<1>6. Cardinality(stored \cup Range(batch)) = Cardinality(stored \cup NewRows)
  BY <1>2, Zenon
<1>7. Cardinality(stored \cap NewRows) = 0 BY <1>2, <1>3, Zenon
<1> QED BY <1>4, <1>5, <1>6, <1>7

\* Initially the control invariant holds.
LEMMA InitControl == Init => ControlInv
<1> SUFFICES ASSUME Init PROVE ControlInv OBVIOUS
<1> USE ConfigAssumption DEF Init
<1>1. TypeOK
  <2>1. queue \in Seq(Events) /\ batch \in Seq(Events) BY EmptySeq
  <2>2. Len(queue) <= QueueCapacity /\ Len(batch) <= BatchSize BY EmptySeq
  <2>3. pc \in [Events -> EnqueueStates] /\ closer \in [Closers -> CloserStates]
    OBVIOUS
  <2>4. seen \in [Events -> 0..QueueCapacity] OBVIOUS
  <2>5. /\ attempt \in 1..MaxAttempts /\ workerSeen \in 0..QueueCapacity
        /\ depth \in 0..QueueCapacity
    OBVIOUS
  <2> QED BY <2>1, <2>2, <2>3, <2>4, <2>5, Zenon DEF TypeOK
<1>2. AdmissionInv BY DEF AdmissionInv
<1>3. ShutdownInv BY DEF ShutdownInv
<1>4. BatchInv BY DEF BatchInv
<1> QED BY <1>1, <1>2, <1>3, <1>4 DEF ControlInv

\* Every step of an Enqueue call preserves the control invariant.
LEMMA EnqueueControl ==
    ASSUME ControlInv, NEW e \in Events, Enqueue(e)
    PROVE  ControlInv'
<1> USE ConfigAssumption DEF ControlInv, EnqueueStep, workerVars, database, TypeOK, AdmissionInv, ShutdownInv, BatchInv
<1>1. CASE EnqueueInvalid(e) BY <1>1 DEF EnqueueInvalid, Refuse
<1>2. CASE EnqueueRLock(e) BY <1>2 DEF EnqueueRLock
<1>3. CASE EnqueueClosed(e) BY <1>3 DEF EnqueueClosed, Refuse
<1>4. CASE EnqueueAdmit(e) BY <1>4 DEF EnqueueAdmit
<1>5. CASE EnqueueSend(e) BY <1>5 DEF EnqueueSend
<1>6. CASE EnqueueFull(e) BY <1>6 DEF EnqueueFull, Refuse
<1>7. CASE RecordUsageEnqueued(e) BY <1>7 DEF RecordUsageEnqueued
<1>8. CASE SetUsageQueueDepth(e) BY <1>8 DEF SetUsageQueueDepth
<1> QED BY <1>1, <1>2, <1>3, <1>4, <1>5, <1>6, <1>7, <1>8, Zenon DEF Enqueue

\* Every step of a Close call preserves the control invariant.
LEMMA CloseControl ==
    ASSUME ControlInv, NEW c \in Closers, Close(c)
    PROVE  ControlInv'
<1> USE ConfigAssumption DEF ControlInv, CloserStep, workerVars, counters, database, TypeOK, AdmissionInv, ShutdownInv, BatchInv
<1>1. CASE CloseCall(c) BY <1>1 DEF CloseCall
<1>2. CASE CloseAdmission(c) BY <1>2 DEF CloseAdmission, WriterMayLock
<1>3. CASE CloseOnceDone(c) BY <1>3 DEF CloseOnceDone
<1>4. CASE CloseReturn(c) BY <1>4 DEF CloseReturn
<1>5. CASE CloseExpire(c) BY <1>5 DEF CloseExpire
<1>6. CASE CloseExpired(c) BY <1>6, SMTT(30) DEF CloseExpired
<1> QED BY <1>1, <1>2, <1>3, <1>4, <1>5, <1>6, Zenon DEF Close

\* Every step of the worker, the store and the timer preserves it too.
LEMMA WorkerControl ==
    ASSUME ControlInv, WorkerLocal \/ StoreAnswer \/ TimerFires
    PROVE  ControlInv'
<1> USE ConfigAssumption DEF ControlInv, WorkerStep, database, TypeOK, AdmissionInv, ShutdownInv, BatchInv
<1>0. Range(batch) \subseteq Events BY RangeOfEvents
<1>1. CASE WorkerCancelled BY <1>1 DEF WorkerCancelled, Unhandled
<1>2. CASE WorkerReceive BY <1>2 DEF WorkerReceive
<1>3. CASE WorkerMeasure BY <1>3 DEF WorkerMeasure
<1>4. CASE WorkerSetDepth BY <1>4 DEF WorkerSetDepth, BatchFull, StartPersist
<1>5. CASE WorkerClosed BY <1>5 DEF WorkerClosed, StartPersist
<1>6. CASE WorkerTimer BY <1>6 DEF WorkerTimer, StartPersist
<1>7. CASE BackoffElapses BY <1>7 DEF BackoffElapses
<1>8. CASE BackoffCancelled BY <1>8 DEF BackoffCancelled, FlushReturns
<1>9. CASE WorkerExit BY <1>9 DEF WorkerExit
<1>a. Cardinality(NewRows) \in Nat BY NewRowsCount
<1>10. CASE PersistOk BY <1>0, <1>a, <1>10, SMTT(30) DEF PersistOk, ApplyUsage, FlushReturns
<1>11. CASE PersistFails BY <1>0, <1>a, <1>11 DEF PersistFails, ApplyUsage
<1>12. CASE DeadLetterOk BY <1>0, <1>12 DEF DeadLetterOk, ApplyDeadLetters, FlushReturns
<1>13. CASE DeadLetterFails BY <1>0, <1>13, SMTT(30) DEF DeadLetterFails, ApplyDeadLetters, FlushReturns
<1>14. CASE TimerFires BY <1>14 DEF TimerFires, pipelineVars, counters
<1> QED BY <1>1, <1>2, <1>3, <1>4, <1>5, <1>6, <1>7, <1>8, <1>9, <1>10, <1>11, <1>12,
           <1>13, <1>14, Zenon DEF WorkerLocal, StoreAnswer

\* The control invariant is inductive.
THEOREM ControlInvariance == Spec => []ControlInv
<1>1. ControlInv /\ UNCHANGED vars => ControlInv'
  BY DEF ControlInv, TypeOK, AdmissionInv, ShutdownInv, BatchInv, vars
<1>2. ControlInv /\ [Next]_vars => ControlInv'
  BY <1>1, EnqueueControl, CloseControl, WorkerControl DEF Next, Terminated
<1> QED BY InitControl, <1>2, PTL DEF Spec

\* TypeOK holds in every reachable state; in particular the queue never exceeds
\* its capacity, the batch never exceeds BatchSize, and persist never counts
\* beyond MaxAttempts.
THEOREM TypeCorrect == Spec => []TypeOK
BY ControlInvariance, PTL DEF ControlInv

\* No Enqueue sends on the closed channel.
THEOREM NoSendOnClosedHolds == Spec => []NoSendOnClosed
<1>1. ControlInv => NoSendOnClosed BY DEF ControlInv, AdmissionInv, NoSendOnClosed
<1> QED BY <1>1, ControlInvariance, PTL
-----------------------------------------------------------------------------
(* usage_hourly *)

\* A step either applies the PersistUsage statement or leaves both tables alone.
LEMMA UsageTables ==
    ASSUME [Next]_vars
    PROVE  ApplyUsage \/ UNCHANGED <<stored, hourly>>
<1>1. ASSUME NEW e \in Events, Enqueue(e) PROVE UNCHANGED <<stored, hourly>>
  BY <1>1 DEF Enqueue, EnqueueInvalid, EnqueueRLock, EnqueueClosed, EnqueueAdmit, EnqueueSend,
     EnqueueFull, RecordUsageEnqueued, SetUsageQueueDepth, Refuse, EnqueueStep, database
<1>2. ASSUME NEW c \in Closers, Close(c) PROVE UNCHANGED <<stored, hourly>>
  BY <1>2 DEF Close, CloseCall, CloseAdmission, CloseOnceDone, CloseReturn, CloseExpire,
     CloseExpired, CloserStep, database
<1>3. CASE WorkerLocal
  BY <1>3 DEF WorkerLocal, WorkerCancelled, WorkerReceive, WorkerMeasure, WorkerSetDepth,
     WorkerClosed, WorkerTimer, BackoffElapses, BackoffCancelled, WorkerExit, database
<1>4. CASE StoreAnswer
  BY <1>4 DEF StoreAnswer, PersistOk, PersistFails, DeadLetterOk, DeadLetterFails,
     ApplyDeadLetters, database
<1>5. CASE TimerFires BY <1>5 DEF TimerFires, database
<1>6. CASE UNCHANGED vars BY <1>6 DEF vars
<1> QED BY <1>1, <1>2, <1>3, <1>4, <1>5, <1>6 DEF Next, Terminated

\* usage_hourly counts every row of usage_events exactly once, however often a
\* batch is retried after a commit that was reported as an error.
THEOREM HourlyMatchesEventsHolds == Spec => []HourlyMatchesEvents
<1>1. Init => HourlyMatchesEvents
  BY FS_EmptySet DEF Init, HourlyMatchesEvents
<1>2. ASSUME ControlInv, HourlyMatchesEvents, [Next]_vars PROVE HourlyMatchesEvents'
  <2>1. CASE ApplyUsage
    BY <2>1, <1>2, NewRowsCount DEF ApplyUsage, HourlyMatchesEvents, ControlInv, TypeOK
  <2>2. CASE UNCHANGED <<stored, hourly>>
    BY <2>2, <1>2 DEF HourlyMatchesEvents
  <2> QED BY <2>1, <2>2, <1>2, UsageTables
<1> QED BY <1>1, <1>2, ControlInvariance, PTL DEF Spec

-----------------------------------------------------------------------------
(* The counters *)

\* An Enqueue call that settles its outcome adds one element to Decided.
LEMMA DecidedGrows ==
    ASSUME pc \in [Events -> EnqueueStates], NEW e \in Events,
           pc[e] \in {"start", "locked", "admitted"},
           NEW x \in {"sent", "refused"}, pc' = [pc EXCEPT ![e] = x]
    PROVE  Cardinality(Decided)' = Cardinality(Decided) + 1
<1>1. Decided' = Decided \cup {e} /\ e \notin Decided BY DEF Decided
<1>2. IsFiniteSet(Decided) BY EventsAssumption, FS_Subset DEF Decided
<1>3. Cardinality(Decided \cup {e}) = Cardinality(Decided) + 1 BY <1>1, <1>2, FS_AddElement, Zenon
<1> QED BY <1>1, <1>3, Zenon

\* The other steps of Enqueue leave Decided as it is.
LEMMA DecidedNotYet ==
    ASSUME pc \in [Events -> EnqueueStates], NEW e \in Events,
           pc[e] \in {"start", "locked"},
           NEW x \in {"locked", "admitted"}, pc' = [pc EXCEPT ![e] = x]
    PROVE  Cardinality(Decided)' = Cardinality(Decided)
<1>1. Decided' = Decided BY DEF Decided
<1> QED BY <1>1, Zenon

\* Once its event is sent, the rest of an Enqueue call decides nothing more.
LEMMA DecidedAlready ==
    ASSUME pc \in [Events -> EnqueueStates], NEW e \in Events,
           pc[e] \in {"sent", "measured"},
           NEW x \in {"measured", "accepted"}, pc' = [pc EXCEPT ![e] = x]
    PROVE  Cardinality(Decided)' = Cardinality(Decided)
<1>1. Decided' = Decided BY DEF Decided
<1> QED BY <1>1, Zenon

\* A step of Close or of the worker decides no event.
LEMMA DecidedUnchanged ==
    ASSUME pc' = pc PROVE Cardinality(Decided)' = Cardinality(Decided)
BY DEF Decided

\* The number of events an Enqueue call has decided is a natural number.
LEMMA DecidedIsNat == Cardinality(Decided) \in Nat
<1>1. IsFiniteSet(Decided) BY EventsAssumption, FS_Subset DEF Decided
<1> QED BY <1>1, FS_CardinalityType

\* What the queue and the worker's batch hold is a natural number of events.
LEMMA PendingIsNat == ASSUME TypeOK PROVE Pending \in Nat
BY DEF TypeOK, Pending

\* Every step of an Enqueue call keeps the counters balanced.
LEMMA EnqueueCounts ==
    ASSUME ControlInv, EveryEventCountedOnce, NEW e \in Events, Enqueue(e)
    PROVE  EveryEventCountedOnce'
<1>0. TypeOK /\ pc \in [Events -> EnqueueStates] BY DEF ControlInv, TypeOK
<1>a. /\ Cardinality(Decided) \in Nat /\ Pending \in Nat
      /\ dropped \in Nat /\ persisted \in Nat /\ deadLettered \in Nat
  BY <1>0, DecidedIsNat, PendingIsNat DEF TypeOK
<1>1. CASE EnqueueInvalid(e) \/ EnqueueClosed(e) \/ EnqueueFull(e)
  <2>1. Cardinality(Decided)' = Cardinality(Decided) + 1
    BY <1>0, <1>1, DecidedGrows
       DEF EnqueueInvalid, EnqueueClosed, EnqueueFull, Refuse, EnqueueStep
  <2>2. dropped' = dropped + 1 /\ UNCHANGED <<Pending, persisted, deadLettered>>
    BY <1>1 DEF EnqueueInvalid, EnqueueClosed, EnqueueFull, Refuse, EnqueueStep, workerVars, Pending
  <2> QED BY <1>a, <2>1, <2>2 DEF EveryEventCountedOnce
<1>2. CASE EnqueueSend(e)
  <2>1. Cardinality(Decided)' = Cardinality(Decided) + 1
    BY <1>0, <1>2, DecidedGrows, Zenon DEF EnqueueSend, EnqueueStep
  <2>2. ~Finished BY <1>2 DEF EnqueueSend, EnqueueStep, ControlInv, AdmissionInv, ShutdownInv
  <2>3. Pending' = Pending + 1 /\ UNCHANGED <<dropped, persisted, deadLettered>>
    BY <1>0, <1>2, <2>2 DEF EnqueueSend, EnqueueStep, workerVars, Pending, TypeOK
  <2> QED BY <1>a, <2>1, <2>3 DEF EveryEventCountedOnce
<1>3. CASE EnqueueRLock(e) \/ EnqueueAdmit(e) \/ RecordUsageEnqueued(e) \/ SetUsageQueueDepth(e)
  <2>1. UNCHANGED <<Pending, dropped, persisted, deadLettered>>
    BY <1>3 DEF EnqueueRLock, EnqueueAdmit, RecordUsageEnqueued, SetUsageQueueDepth,
       EnqueueStep, workerVars, Pending
  <2>2. CASE EnqueueRLock(e) \/ EnqueueAdmit(e)
    <3>1. Cardinality(Decided)' = Cardinality(Decided)
      BY <1>0, <2>2, DecidedNotYet DEF EnqueueRLock, EnqueueAdmit, EnqueueStep
    <3> QED BY <1>a, <2>1, <3>1 DEF EveryEventCountedOnce
  <2>3. CASE RecordUsageEnqueued(e) \/ SetUsageQueueDepth(e)
    <3>1. Cardinality(Decided)' = Cardinality(Decided)
      BY <1>0, <2>3, DecidedAlready DEF RecordUsageEnqueued, SetUsageQueueDepth, EnqueueStep
    <3> QED BY <1>a, <2>1, <3>1 DEF EveryEventCountedOnce
  <2> QED BY <1>3, <2>2, <2>3
<1> QED BY <1>1, <1>2, <1>3 DEF Enqueue

QuietWorkerStep ==
    \/ WorkerReceive \/ WorkerMeasure \/ WorkerSetDepth \/ WorkerClosed \/ WorkerTimer
    \/ BackoffElapses \/ PersistFails \/ WorkerExit

\* Steps of the worker that settle no event move events at most from the queue to
\* the batch.
LEMMA QuietStepsKeepPending ==
    ASSUME ControlInv, QuietWorkerStep
    PROVE  UNCHANGED <<closed, Pending, dropped, persisted, deadLettered>>
<1>1. Pending' = Pending
  <2> USE DEF Pending, WorkerStep, StartPersist
  <2>1. CASE WorkerReceive BY <2>1 DEF WorkerReceive, ControlInv, TypeOK
  <2>2. CASE WorkerMeasure BY <2>2 DEF WorkerMeasure
  <2>3. CASE WorkerSetDepth BY <2>3 DEF WorkerSetDepth
  <2>4. CASE WorkerClosed BY <2>4 DEF WorkerClosed
  <2>5. CASE WorkerTimer BY <2>5 DEF WorkerTimer
  <2>6. CASE BackoffElapses BY <2>6 DEF BackoffElapses
  <2>7. CASE PersistFails BY <2>7 DEF PersistFails
  <2>8. CASE WorkerExit BY <2>8 DEF WorkerExit
  <2> QED BY <2>1, <2>2, <2>3, <2>4, <2>5, <2>6, <2>7, <2>8 DEF QuietWorkerStep
<1>2. UNCHANGED <<closed, dropped, persisted, deadLettered>>
  BY DEF QuietWorkerStep, WorkerReceive, WorkerMeasure, WorkerSetDepth, WorkerClosed,
     WorkerTimer, BackoffElapses, PersistFails, WorkerExit, WorkerStep
<1> QED BY <1>1, <1>2

\* The four ways in which persist ends settle the whole batch, once.
LEMMA FlushSettles ==
    ASSUME ControlInv, BackoffCancelled \/ PersistOk \/ DeadLetterOk \/ DeadLetterFails
    PROVE  /\ Len(batch) \in 1..BatchSize /\ Len(batch) <= Pending
           /\ Pending' = Pending - Len(batch)
           /\ UNCHANGED closed
           /\ \/ persisted' = persisted + Len(batch) /\ UNCHANGED <<deadLettered, dropped>>
              \/ deadLettered' = deadLettered + Len(batch) /\ UNCHANGED <<persisted, dropped>>
              \/ dropped' = dropped + Len(batch) /\ UNCHANGED <<persisted, deadLettered>>
<1>1. FlushReturns /\ worker \in {"persist", "backoff", "deadletter"} /\ UNCHANGED closed
  BY DEF BackoffCancelled, PersistOk, DeadLetterOk, DeadLetterFails, WorkerStep
<1>2. Len(batch) \in 1..BatchSize
  BY <1>1, ConfigAssumption DEF ControlInv, BatchInv, TypeOK
<1>3. Pending = Len(queue) + Len(batch) /\ Len(queue) \in Nat
  BY <1>1 DEF Pending, ControlInv, TypeOK
<1>4. Pending' = Pending - Len(batch)
  <2>1. CASE flushing = "final"
    BY <1>1, <2>1 DEF FlushReturns, Pending, ControlInv, ShutdownInv, TypeOK
  <2>2. CASE flushing # "final"
    BY <1>1, <2>2 DEF FlushReturns, Pending, ControlInv, TypeOK
  <2> QED BY <2>1, <2>2
<1>5. Len(batch) <= Pending BY <1>2, <1>3, ConfigAssumption
<1> QED BY <1>1, <1>2, <1>4, <1>5 DEF BackoffCancelled, PersistOk, DeadLetterOk, DeadLetterFails

\* When the deadline has cancelled the worker, everything pending is dropped.
LEMMA CancelDropsPending ==
    ASSUME ControlInv, WorkerCancelled
    PROVE  /\ closed /\ Pending' = 0 /\ dropped' = dropped + Pending
           /\ UNCHANGED <<closed, persisted, deadLettered>>
<1>1. closed BY DEF WorkerCancelled, ControlInv, ShutdownInv
<1> QED BY <1>1 DEF WorkerCancelled, WorkerStep, Unhandled, Pending, ControlInv, TypeOK

\* Every step of the worker and the store keeps the counters balanced.
LEMMA WorkerCounts ==
    ASSUME ControlInv, EveryEventCountedOnce, WorkerLocal \/ StoreAnswer
    PROVE  EveryEventCountedOnce'
<1>0. pc' = pc
  BY DEF WorkerLocal, StoreAnswer, WorkerCancelled, WorkerReceive, WorkerMeasure, WorkerSetDepth,
     WorkerClosed, WorkerTimer, BackoffElapses, BackoffCancelled, WorkerExit, PersistOk,
     PersistFails, DeadLetterOk, DeadLetterFails, WorkerStep
<1>a. Cardinality(Decided)' = Cardinality(Decided) BY <1>0, DecidedUnchanged
<1>b. /\ Cardinality(Decided) \in Nat /\ Pending \in Nat /\ dropped \in Nat
      /\ persisted \in Nat /\ deadLettered \in Nat /\ Len(batch) \in Nat
  BY DecidedIsNat, PendingIsNat DEF ControlInv, TypeOK
<1>1. CASE WorkerCancelled
  BY <1>1, <1>a, <1>b, CancelDropsPending DEF EveryEventCountedOnce
<1>2. CASE QuietWorkerStep
  BY <1>2, <1>a, <1>b, QuietStepsKeepPending DEF EveryEventCountedOnce
<1>3. CASE BackoffCancelled \/ PersistOk \/ DeadLetterOk \/ DeadLetterFails
  BY <1>3, <1>a, <1>b, FlushSettles DEF EveryEventCountedOnce
<1> QED BY <1>1, <1>2, <1>3, SMTT(30) DEF WorkerLocal, StoreAnswer, QuietWorkerStep

\* Every offered event is waiting in the pipeline or counted in exactly one of
\* persisted, dead-lettered and dropped.
THEOREM EveryEventCountedOnceHolds == Spec => []EveryEventCountedOnce
<1>1. Init => EveryEventCountedOnce
  <2> SUFFICES ASSUME Init PROVE EveryEventCountedOnce OBVIOUS
  <2>1. Decided = {} BY DEF Init, Decided
  <2>2. Cardinality(Decided) = 0 BY <2>1, FS_EmptySet, Zenon
  <2> QED BY <2>2 DEF Init, EveryEventCountedOnce, Pending
<1>2. ASSUME ControlInv, EveryEventCountedOnce, [Next]_vars PROVE EveryEventCountedOnce'
  <2>1. ASSUME NEW c \in Closers, Close(c) PROVE EveryEventCountedOnce'
    <3>1. UNCHANGED <<pc, queue, batch, worker, persisted, deadLettered, dropped>>
      BY <2>1 DEF Close, CloseCall, CloseAdmission, CloseOnceDone, CloseReturn, CloseExpire,
         CloseExpired, CloserStep, workerVars, counters
    <3> QED BY <1>2, <3>1, DecidedUnchanged DEF EveryEventCountedOnce, Pending
  <2>2. CASE TimerFires \/ UNCHANGED vars
    <3>1. UNCHANGED <<pc, queue, batch, worker, persisted, deadLettered, dropped>>
      BY <2>2 DEF TimerFires, pipelineVars, counters, vars
    <3> QED BY <1>2, <3>1, DecidedUnchanged DEF EveryEventCountedOnce, Pending
  <2> QED BY <1>2, <2>1, <2>2, EnqueueCounts, WorkerCounts DEF Next, Terminated
<1> QED BY <1>1, <1>2, ControlInvariance, PTL DEF Spec
-----------------------------------------------------------------------------
(* The gauge *)

\* The gauge reads zero for ever once the worker has stopped: a late Enqueue, which
\* would publish the length it has read before, holds the read lock and so has
\* kept Close from closing the channel.
THEOREM StoppedGaugeIsZeroHolds == Spec => []StoppedGaugeIsZero
<1>1. Init => StoppedGaugeIsZero BY DEF Init, StoppedGaugeIsZero
<1>2. ASSUME ControlInv, StoppedGaugeIsZero, [Next]_vars PROVE StoppedGaugeIsZero'
  <2> USE <1>2 DEF StoppedGaugeIsZero
  <2>1. ASSUME NEW e \in Events, Enqueue(e) PROVE StoppedGaugeIsZero'
    <3>1. CASE SetUsageQueueDepth(e)
      BY <3>1 DEF SetUsageQueueDepth, EnqueueStep, workerVars, ControlInv, AdmissionInv, ShutdownInv
    <3>2. CASE ~SetUsageQueueDepth(e)
      BY <2>1, <3>2 DEF Enqueue, EnqueueInvalid, EnqueueRLock, EnqueueClosed, EnqueueAdmit,
         EnqueueSend, EnqueueFull, RecordUsageEnqueued, Refuse, EnqueueStep, workerVars
    <3> QED BY <3>1, <3>2
  <2>2. ASSUME NEW c \in Closers, Close(c) PROVE StoppedGaugeIsZero'
    BY <2>2 DEF Close, CloseCall, CloseAdmission, CloseOnceDone, CloseReturn, CloseExpire,
       CloseExpired, CloserStep, workerVars
  <2>3. CASE WorkerLocal
    BY <2>3 DEF WorkerLocal, WorkerCancelled, WorkerReceive, WorkerMeasure, WorkerSetDepth,
       WorkerClosed, WorkerTimer, BackoffElapses, BackoffCancelled, WorkerExit, WorkerStep,
       StartPersist, FlushReturns
  <2>4. CASE StoreAnswer
    BY <2>4 DEF StoreAnswer, PersistOk, PersistFails, DeadLetterOk, DeadLetterFails, FlushReturns
  <2>5. CASE TimerFires \/ UNCHANGED vars BY <2>5 DEF TimerFires, vars
  <2> QED BY <2>1, <2>2, <2>3, <2>4, <2>5 DEF Next, Terminated
<1> QED BY <1>1, <1>2, ControlInvariance, PTL DEF Spec

-----------------------------------------------------------------------------
(* The pipeline implements UsageLedger *)

\* Every step of the pipeline is a step of the ledger or leaves the ledger alone.
LEMMA LedgerStep ==
    ASSUME ControlInv, [Next]_vars
    PROVE  [Ledger!Next]_(Ledger!vars)
<1> DEFINE Quiet == UNCHANGED <<closed, Pending, dropped, persisted, deadLettered>>
<1>0. Quiet => UNCHANGED Ledger!vars BY DEF Ledger!vars
<1>a. TypeOK /\ Pending \in Nat BY PendingIsNat DEF ControlInv
<1>1. ASSUME NEW e \in Events, Enqueue(e) PROVE [Ledger!Next]_(Ledger!vars)
  <2>1. CASE EnqueueInvalid(e) \/ EnqueueClosed(e) \/ EnqueueFull(e)
    <3>1. dropped' = dropped + 1 /\ UNCHANGED <<closed, Pending, persisted, deadLettered>>
      BY <2>1 DEF EnqueueInvalid, EnqueueClosed, EnqueueFull, Refuse, EnqueueStep, workerVars,
         Pending
    <3>2. Ledger!Refuse BY <3>1 DEF Ledger!Refuse
    <3> QED BY <3>2 DEF Ledger!Next
  <2>2. CASE EnqueueSend(e)
    <3>1. ~closed /\ ~Finished
      BY <2>2 DEF EnqueueSend, EnqueueStep, ControlInv, AdmissionInv, ShutdownInv
    <3>2. /\ Pending' = Pending + 1 /\ Pending < QueueCapacity + BatchSize
          /\ UNCHANGED <<closed, dropped, persisted, deadLettered>>
      BY <1>a, <2>2, <3>1, ConfigAssumption
         DEF EnqueueSend, EnqueueStep, workerVars, Pending, TypeOK
    <3>3. Ledger!Admit BY <3>1, <3>2 DEF Ledger!Admit
    <3> QED BY <3>3 DEF Ledger!Next
  <2>3. CASE EnqueueRLock(e) \/ EnqueueAdmit(e) \/ RecordUsageEnqueued(e) \/ SetUsageQueueDepth(e)
    <3>1. Quiet
      BY <2>3 DEF EnqueueRLock, EnqueueAdmit, RecordUsageEnqueued, SetUsageQueueDepth,
         EnqueueStep, workerVars, Pending
    <3> QED BY <1>0, <3>1
  <2> QED BY <1>1, <2>1, <2>2, <2>3 DEF Enqueue
<1>2. ASSUME NEW c \in Closers, Close(c) PROVE [Ledger!Next]_(Ledger!vars)
  <2>1. UNCHANGED <<Pending, dropped, persisted, deadLettered>>
    BY <1>2 DEF Close, CloseCall, CloseAdmission, CloseOnceDone, CloseReturn, CloseExpire,
       CloseExpired, CloserStep, workerVars, counters, Pending
  <2>2. CASE CloseAdmission(c)
    <3>1. Ledger!Shut BY <2>1, <2>2 DEF Ledger!Shut, CloseAdmission
    <3> QED BY <3>1 DEF Ledger!Next
  <2>3. CASE ~CloseAdmission(c)
    <3>1. UNCHANGED closed
      BY <1>2, <2>3 DEF Close, CloseCall, CloseOnceDone, CloseReturn, CloseExpire, CloseExpired
    <3> QED BY <1>0, <2>1, <3>1
  <2> QED BY <2>2, <2>3
<1>3. CASE WorkerCancelled
  <2>1. Ledger!Abandon BY <1>3, CancelDropsPending DEF Ledger!Abandon
  <2> QED BY <2>1 DEF Ledger!Next
<1>4. CASE QuietWorkerStep BY <1>0, <1>4, QuietStepsKeepPending
<1>5. CASE BackoffCancelled \/ PersistOk \/ DeadLetterOk \/ DeadLetterFails
  <2>1. persisted \in Nat /\ deadLettered \in Nat /\ Len(batch) \in Nat BY <1>a DEF TypeOK
  <2>2. Ledger!Settle BY <1>5, <2>1, FlushSettles DEF Ledger!Settle
  <2> QED BY <2>2 DEF Ledger!Next
<1>6. CASE TimerFires \/ UNCHANGED vars
  <2>1. Quiet BY <1>6 DEF TimerFires, vars, pipelineVars, counters, Pending
  <2> QED BY <1>0, <2>1
<1> QED BY <1>1, <1>2, <1>3, <1>4, <1>5, <1>6
       DEF Next, Terminated, WorkerLocal, StoreAnswer, QuietWorkerStep

\* The pipeline implements the ledger its counters stand for.
THEOREM PipelineImplementsLedger == Spec => ImplementsLedger
<1>1. Init => Ledger!Init BY EmptySeq DEF Init, Ledger!Init, Pending
<1>2. ControlInv /\ [Next]_vars => [Ledger!Next]_(Ledger!vars) BY LedgerStep
<1> QED BY <1>1, <1>2, ControlInvariance, PTL DEF Spec, ImplementsLedger, Ledger!Spec
-----------------------------------------------------------------------------
(* No event disappears unseen *)

\* A sequence of events holds at most as many events as it is long.
LEMMA RangeCount ==
    ASSUME NEW s \in Seq(Events)
    PROVE  /\ IsFiniteSet(Range(s)) /\ Cardinality(Range(s)) \in Nat /\ Len(s) \in Nat
           /\ Cardinality(Range(s)) <= Len(s)
<1>1. IsFiniteSet(Range(s)) BY EventsAssumption, RangeOfEvents, FS_Subset
<1>2. Len(s) \in Nat /\ DOMAIN s = 1..Len(s) OBVIOUS
<1>3. s \in Surjection(1..Len(s), Range(s)) BY <1>2 DEF Surjection, Range
<1>4. Cardinality(Range(s)) <= Len(s)
  BY <1>2, <1>3, FS_SurjCardinalityBound DEF ExistsSurjection
<1> QED BY <1>1, <1>2, <1>4, FS_CardinalityType

\* Sending adds the event to what the channel holds.
LEMMA RangeOfAppend ==
    ASSUME NEW s \in Seq(Events), NEW e \in Events
    PROVE  Range(Append(s, e)) = Range(s) \cup {e}
<1>1. /\ DOMAIN s = 1..Len(s) /\ DOMAIN Append(s, e) = 1..(Len(s) + 1) /\ Len(s) \in Nat
      /\ \A i \in 1..Len(s) : Append(s, e)[i] = s[i]
      /\ Append(s, e)[Len(s) + 1] = e
  OBVIOUS
<1>2. 1..(Len(s) + 1) = 1..Len(s) \cup {Len(s) + 1} BY <1>1
<1> QED BY <1>1, <1>2 DEF Range

\* Receiving takes the head from what the channel holds, at most.
LEMMA RangeOfTail ==
    ASSUME NEW s \in Seq(Events), s # <<>>
    PROVE  Head(s) \in Range(s) /\ Range(s) = Range(Tail(s)) \cup {Head(s)}
<1>1. /\ DOMAIN s = 1..Len(s) /\ DOMAIN Tail(s) = 1..(Len(s) - 1) /\ Len(s) \in Nat \ {0}
      /\ \A i \in 1..(Len(s) - 1) : Tail(s)[i] = s[i + 1]
      /\ Head(s) = s[1]
  OBVIOUS
<1>2. ASSUME NEW x \in Range(s) PROVE x \in Range(Tail(s)) \cup {Head(s)}
  <2>1. PICK i \in 1..Len(s) : x = s[i] BY <1>1 DEF Range
  <2>2. CASE i = 1 BY <1>1, <2>1, <2>2
  <2>3. CASE i # 1
    <3>1. i - 1 \in 1..(Len(s) - 1) /\ (i - 1) + 1 = i BY <1>1, <2>3
    <3>2. x = Tail(s)[i - 1] BY <1>1, <2>1, <3>1
    <3> QED BY <1>1, <3>1, <3>2, Zenon DEF Range
  <2> QED BY <2>2, <2>3
<1>3. ASSUME NEW x \in Range(Tail(s)) PROVE x \in Range(s)
  <2>1. PICK i \in 1..(Len(s) - 1) : x = Tail(s)[i] BY <1>1 DEF Range
  <2>2. i + 1 \in 1..Len(s) BY <1>1
  <2> QED BY <1>1, <2>1, <2>2 DEF Range
<1>4. 1 \in 1..Len(s) BY <1>1
<1>5. Head(s) \in Range(s) BY <1>1, <1>4 DEF Range
<1> QED BY <1>2, <1>3, <1>5

Held == IF Finished THEN {} ELSE Range(queue) \cup Range(batch)
Lost == Decided \ (stored \cup dead \cup Held)

\* A step loses at most as many events as it counts as dropped.
LossCounted ==
    \E n \in Nat, X \in SUBSET Events :
        Lost' \subseteq Lost \cup X /\ Cardinality(X) <= n /\ dropped' = dropped + n

\* A step that loses nothing.
LEMMA NothingLost ==
    ASSUME dropped \in Nat, Lost' \subseteq Lost, dropped' = dropped
    PROVE  LossCounted
<1>1. dropped' = dropped + 0 /\ Cardinality({}) <= 0 BY FS_EmptySet
<1>2. Lost' \subseteq Lost \cup {} OBVIOUS
<1> QED BY <1>1, <1>2 DEF LossCounted

\* A refused event is the only one lost; an event sent is held.
LEMMA EnqueueLoses ==
    ASSUME ControlInv, NEW e \in Events, Enqueue(e)
    PROVE  LossCounted
<1>0. /\ queue \in Seq(Events) /\ dropped \in Nat /\ pc \in [Events -> EnqueueStates]
      /\ stored' = stored /\ dead' = dead /\ worker' = worker /\ batch' = batch
  BY DEF ControlInv, TypeOK, Enqueue, EnqueueInvalid, EnqueueRLock, EnqueueClosed, EnqueueAdmit,
     EnqueueSend, EnqueueFull, RecordUsageEnqueued, SetUsageQueueDepth, Refuse, EnqueueStep,
     workerVars, database
<1>1. CASE EnqueueInvalid(e) \/ EnqueueClosed(e) \/ EnqueueFull(e)
  <2>1. dropped' = dropped + 1 /\ queue' = queue /\ pc' = [pc EXCEPT ![e] = "refused"]
    BY <1>1 DEF EnqueueInvalid, EnqueueClosed, EnqueueFull, Refuse, EnqueueStep
  <2>2. Decided' \subseteq Decided \cup {e} BY <1>0, <2>1 DEF Decided
  <2>3. Lost' \subseteq Lost \cup {e} BY <1>0, <2>1, <2>2 DEF Lost, Held
  <2>4. Cardinality({e}) <= 1 BY FS_Singleton
  <2> QED BY <2>1, <2>3, <2>4 DEF LossCounted
<1>2. CASE EnqueueSend(e)
  <2>1. ~Finished BY <1>2 DEF EnqueueSend, EnqueueStep, ControlInv, AdmissionInv, ShutdownInv
  <2>2. dropped' = dropped /\ queue' = Append(queue, e) /\ pc' = [pc EXCEPT ![e] = "sent"]
    BY <1>2 DEF EnqueueSend, EnqueueStep
  <2>3. Decided' \subseteq Decided \cup {e} BY <1>0, <2>2 DEF Decided
  <2>4. Held' = Held \cup {e} BY <1>0, <2>1, <2>2, RangeOfAppend DEF Held
  <2>5. Lost' \subseteq Lost BY <1>0, <2>3, <2>4 DEF Lost
  <2> QED BY <1>0, <2>2, <2>5, NothingLost
<1>3. CASE EnqueueRLock(e) \/ EnqueueAdmit(e) \/ RecordUsageEnqueued(e) \/ SetUsageQueueDepth(e)
  <2>1. queue' = queue /\ dropped' = dropped
    BY <1>3 DEF EnqueueRLock, EnqueueAdmit, RecordUsageEnqueued, SetUsageQueueDepth, EnqueueStep
  <2>2. Decided' = Decided
    BY <1>0, <1>3 DEF EnqueueRLock, EnqueueAdmit, RecordUsageEnqueued, SetUsageQueueDepth,
       EnqueueStep, Decided
  <2>3. Lost' \subseteq Lost BY <1>0, <2>1, <2>2 DEF Lost, Held
  <2> QED BY <1>0, <2>1, <2>3, NothingLost
<1> QED BY <1>1, <1>2, <1>3, SMTT(30) DEF Enqueue

\* The worker gives up events only where it counts them.
LEMMA WorkerLoses ==
    ASSUME ControlInv, WorkerLocal \/ StoreAnswer
    PROVE  LossCounted
<1>0. /\ queue \in Seq(Events) /\ batch \in Seq(Events) /\ dropped \in Nat
  BY SMTT(30) DEF ControlInv, TypeOK
<1>a. Decided' = Decided
  BY DEF WorkerLocal, StoreAnswer, WorkerCancelled, WorkerReceive, WorkerMeasure, WorkerSetDepth,
     WorkerClosed, WorkerTimer, BackoffElapses, BackoffCancelled, WorkerExit, PersistOk,
     PersistFails, DeadLetterOk, DeadLetterFails, WorkerStep, Decided
<1>b. Range(queue) \subseteq Events /\ Range(batch) \subseteq Events BY <1>0, RangeOfEvents, SMTT(30)
<1>c. stored \subseteq stored' /\ dead \subseteq dead'
  BY DEF WorkerLocal, StoreAnswer, WorkerCancelled, WorkerReceive, WorkerMeasure, WorkerSetDepth,
     WorkerClosed, WorkerTimer, BackoffElapses, BackoffCancelled, WorkerExit, PersistOk,
     PersistFails, DeadLetterOk, DeadLetterFails, ApplyUsage, ApplyDeadLetters, database
<1>d. Range(<<>>) = {} BY DEF Range
<1>1. CASE QuietWorkerStep
  <2>1. dropped' = dropped BY <1>1, QuietStepsKeepPending
  <2>2. Held \subseteq Held'
    <3> USE DEF Held, WorkerStep, StartPersist
    <3>1. CASE WorkerReceive
      <4>1. Head(queue) \in Events /\ Range(queue) = Range(Tail(queue)) \cup {Head(queue)}
        BY <1>0, <3>1, RangeOfTail DEF WorkerReceive
      <4>2. Range(Append(batch, Head(queue))) = Range(batch) \cup {Head(queue)}
        BY <1>0, <4>1, RangeOfAppend
      <4>3. /\ queue' = Tail(queue) /\ batch' = Append(batch, Head(queue))
            /\ worker' = "received" /\ worker = "select"
        BY <3>1 DEF WorkerReceive
      <4> QED BY <4>1, <4>2, <4>3
    <3>2. CASE WorkerMeasure BY <3>2 DEF WorkerMeasure
    <3>3. CASE WorkerSetDepth BY <3>3 DEF WorkerSetDepth
    <3>4. CASE WorkerClosed BY <1>d, <3>4 DEF WorkerClosed
    <3>5. CASE WorkerTimer BY <3>5 DEF WorkerTimer
    <3>6. CASE BackoffElapses BY <3>6 DEF BackoffElapses
    <3>7. CASE PersistFails BY <3>7 DEF PersistFails
    <3>8. CASE WorkerExit BY <3>8 DEF WorkerExit
    <3> QED BY <1>1, <3>1, <3>2, <3>3, <3>4, <3>5, <3>6, <3>7, <3>8 DEF QuietWorkerStep
  <2>3. Lost' \subseteq Lost BY <1>a, <1>c, <2>2 DEF Lost
  <2> QED BY <1>0, <2>1, <2>3, NothingLost
<1>2. CASE WorkerCancelled
  <2>1. dropped' = dropped + (Len(batch) + Len(queue))
    BY <1>2 DEF WorkerCancelled, Unhandled
  <2>2. Lost' \subseteq Lost \cup (Range(queue) \cup Range(batch)) BY <1>a, <1>c DEF Lost, Held
  <2>3. /\ Cardinality(Range(queue) \cup Range(batch)) <= Len(batch) + Len(queue)
        /\ Len(batch) + Len(queue) \in Nat
    <3>1. /\ IsFiniteSet(Range(queue)) /\ IsFiniteSet(Range(batch))
          /\ Cardinality(Range(queue)) \in Nat /\ Cardinality(Range(batch)) \in Nat
          /\ Cardinality(Range(queue)) <= Len(queue) /\ Cardinality(Range(batch)) <= Len(batch)
          /\ Len(queue) \in Nat /\ Len(batch) \in Nat
      BY <1>0, RangeCount
    <3>2. Cardinality(Range(queue) \cup Range(batch)) =
            Cardinality(Range(queue)) + Cardinality(Range(batch))
                - Cardinality(Range(queue) \cap Range(batch))
      BY <3>1, FS_Union
    <3>3. Cardinality(Range(queue) \cap Range(batch)) \in Nat
      BY <3>1, FS_Intersection, FS_CardinalityType, Zenon
    <3> QED BY ONLY <3>1, <3>2, <3>3
  <2>4. Range(queue) \cup Range(batch) \in SUBSET Events BY <1>b
  <2> QED BY <2>1, <2>2, <2>3, <2>4 DEF LossCounted
<1>3. CASE BackoffCancelled \/ PersistOk \/ DeadLetterOk \/ DeadLetterFails
  <2>1. Held \subseteq Held' \cup Range(batch)
    <3>1. FlushReturns
      BY <1>3 DEF BackoffCancelled, PersistOk, DeadLetterOk, DeadLetterFails
    <3>2. CASE flushing = "final"
      BY <1>d, <3>2 DEF Held, ControlInv, ShutdownInv
    <3>3. CASE flushing # "final" BY <3>1, <3>3 DEF Held, FlushReturns
    <3> QED BY <3>2, <3>3
  <2>2. CASE PersistOk \/ DeadLetterOk
    <3>1. Range(batch) \subseteq stored' \cup dead' /\ dropped' = dropped
      BY <2>2 DEF PersistOk, DeadLetterOk, ApplyUsage, ApplyDeadLetters
    <3>2. Lost' \subseteq Lost BY <1>a, <1>c, <2>1, <3>1 DEF Lost
    <3> QED BY <1>0, <3>1, <3>2, NothingLost
  <2>3. CASE BackoffCancelled \/ DeadLetterFails
    <3>1. dropped' = dropped + Len(batch) BY <2>3 DEF BackoffCancelled, DeadLetterFails
    <3>2. Lost' \subseteq Lost \cup Range(batch) BY <1>a, <1>c, <2>1 DEF Lost
    <3>3. Cardinality(Range(batch)) <= Len(batch) /\ Len(batch) \in Nat BY <1>0, RangeCount
    <3> QED BY <1>b, <3>1, <3>2, <3>3 DEF LossCounted
  <2> QED BY <1>3, <2>2, <2>3
<1> QED BY <1>1, <1>2, <1>3 DEF WorkerLocal, StoreAnswer, QuietWorkerStep

\* Events that are in no table and no longer in the pipeline never outnumber the
\* dropped counter, on any path of persist and run.
THEOREM NoSilentLossHolds == Spec => []NoSilentLoss
<1>0. NoSilentLoss <=> Cardinality(Lost) <= dropped BY DEF NoSilentLoss, Lost, Held
<1>1. Init => Cardinality(Lost) <= dropped
  <2> SUFFICES ASSUME Init PROVE Cardinality(Lost) <= dropped OBVIOUS
  <2>1. Lost = {} BY DEF Init, Lost, Decided
  <2>2. Cardinality(Lost) = 0 BY <2>1, FS_EmptySet, Zenon
  <2> QED BY <2>2 DEF Init
<1>2. ASSUME ControlInv, Cardinality(Lost) <= dropped, [Next]_vars
      PROVE  (Cardinality(Lost) <= dropped)'
  <2>0. dropped \in Nat BY <1>2 DEF ControlInv, TypeOK
  <2>1. ASSUME NEW c \in Closers, Close(c) PROVE LossCounted
    <3>1. UNCHANGED <<pc, queue, batch, worker, dropped, stored, dead>>
      BY <2>1 DEF Close, CloseCall, CloseAdmission, CloseOnceDone, CloseReturn, CloseExpire,
         CloseExpired, CloserStep, workerVars, counters, database
    <3>2. Lost' \subseteq Lost /\ dropped' = dropped BY <3>1 DEF Lost, Decided, Held
    <3> QED BY ONLY <2>0, <3>2, NothingLost
  <2>2. ASSUME TimerFires \/ UNCHANGED vars PROVE LossCounted
    <3>1. UNCHANGED <<pc, queue, batch, worker, dropped, stored, dead>>
      BY <2>2 DEF TimerFires, pipelineVars, counters, database, vars
    <3>2. Lost' \subseteq Lost /\ dropped' = dropped BY <3>1 DEF Lost, Decided, Held
    <3> QED BY ONLY <2>0, <3>2, NothingLost
  <2>3. LossCounted
    <3>1. CASE WorkerLocal \/ StoreAnswer BY <1>2, <3>1, WorkerLoses
    <3>2. ASSUME NEW e \in Events, Enqueue(e) PROVE LossCounted BY <1>2, <3>2, EnqueueLoses
    <3> QED BY <1>2, <2>1, <2>2, <3>1, <3>2 DEF Next, Terminated
  <2>4. PICK n \in Nat, X \in SUBSET Events :
          Lost' \subseteq Lost \cup X /\ Cardinality(X) <= n /\ dropped' = dropped + n
    BY <2>3 DEF LossCounted
  <2>5. IsFiniteSet(Lost) /\ IsFiniteSet(X) /\ IsFiniteSet(Lost \cup X)
    BY EventsAssumption, FS_Subset, FS_Union DEF Lost, Decided
  <2>6. /\ Cardinality(Lost) \in Nat /\ Cardinality(X) \in Nat
        /\ Cardinality(Lost \cap X) \in Nat
    BY <2>5, FS_CardinalityType, FS_Intersection, Zenon
  <2>7. Cardinality(Lost \cup X) = Cardinality(Lost) + Cardinality(X) - Cardinality(Lost \cap X)
    BY <2>5, FS_Union
  <2>8. IsFiniteSet(Lost') /\ Cardinality(Lost') <= Cardinality(Lost \cup X)
    BY <2>4, <2>5, FS_Subset
  <2>9. Cardinality(Lost') \in Nat BY <2>8, FS_CardinalityType
  <2>10. Cardinality(Lost') <= dropped + n
    <3> DEFINE l == Cardinality(Lost) l1 == Cardinality(Lost') u == Cardinality(Lost \cup X)
               x == Cardinality(X) i == Cardinality(Lost \cap X)
    <3>1. /\ l \in Nat /\ l1 \in Nat /\ x \in Nat /\ i \in Nat /\ n \in Nat /\ l <= dropped
          /\ x <= n /\ u = l + x - i /\ l1 <= u
      BY <1>2, <2>4, <2>6, <2>7, <2>8, <2>9
    <3> HIDE DEF l, l1, u, x, i
    <3>2. l1 <= dropped + n BY ONLY <2>0, <3>1
    <3> QED BY <3>2 DEF l1
  <2> QED BY <2>4, <2>10
<1> QED BY <1>0, <1>1, <1>2, ControlInvariance, PTL DEF Spec
-----------------------------------------------------------------------------
(* What is acknowledged is stored *)

Sent == {e \in Events : pc[e] \in {"sent", "measured", "accepted"}}
Waiting == Range(queue) \cup Range(batch)

\* No event is twice in the pipeline, and only sent events are there or in a table.
DistinctInv ==
    /\ IsInjective(queue) /\ IsInjective(batch) /\ Range(queue) \cap Range(batch) = {}
    /\ Waiting \subseteq Sent /\ stored \subseteq Sent /\ dead \subseteq Sent

\* The counters are covered by rows of events that have left the pipeline.
AcknowledgedInv ==
    /\ persisted <= Cardinality(stored \ Waiting)
    /\ deadLettered <= Cardinality(dead \ Waiting)

\* A new event leaves the channel without duplicates.
LEMMA AppendDistinct ==
    ASSUME NEW s \in Seq(Events), NEW e \in Events, IsInjective(s), e \notin Range(s)
    PROVE  IsInjective(Append(s, e))
<1>1. /\ DOMAIN s = 1..Len(s) /\ DOMAIN Append(s, e) = 1..(Len(s) + 1) /\ Len(s) \in Nat
      /\ \A i \in 1..Len(s) : Append(s, e)[i] = s[i]
      /\ Append(s, e)[Len(s) + 1] = e
  OBVIOUS
<1>2. \A i \in 1..Len(s) : s[i] # e BY <1>1 DEF Range
<1>3. \A i \in 1..(Len(s) + 1) : i \in 1..Len(s) \/ i = Len(s) + 1 BY <1>1
<1> QED BY <1>1, <1>2, <1>3 DEF IsInjective

\* The head of a channel without duplicates is not in its tail.
LEMMA TailDistinct ==
    ASSUME NEW s \in Seq(Events), s # <<>>, IsInjective(s)
    PROVE  IsInjective(Tail(s)) /\ Head(s) \notin Range(Tail(s))
<1>1. /\ DOMAIN s = 1..Len(s) /\ DOMAIN Tail(s) = 1..(Len(s) - 1) /\ Len(s) \in Nat \ {0}
      /\ \A i \in 1..(Len(s) - 1) : Tail(s)[i] = s[i + 1]
      /\ Head(s) = s[1]
  OBVIOUS
<1>2. \A i \in 1..(Len(s) - 1) : i + 1 \in 1..Len(s) /\ i + 1 # 1 BY <1>1
<1>3. 1 \in 1..Len(s) BY <1>1
<1>4. ASSUME NEW i \in 1..(Len(s) - 1), NEW j \in 1..(Len(s) - 1), Tail(s)[i] = Tail(s)[j]
      PROVE  i = j
  <2>1. s[i + 1] = s[j + 1] BY <1>1, <1>4
  <2>2. i + 1 = j + 1 BY <1>1, <1>2, <2>1 DEF IsInjective
  <2> QED BY <1>1, <2>2
<1>5. ASSUME NEW i \in 1..(Len(s) - 1) PROVE Tail(s)[i] # Head(s)
  BY <1>1, <1>2, <1>3 DEF IsInjective
<1> QED BY <1>1, <1>4, <1>5 DEF IsInjective, Range

\* A batch without duplicates holds exactly as many events as it is long.
LEMMA DistinctCount ==
    ASSUME NEW s \in Seq(Events), IsInjective(s)
    PROVE  Len(s) \in Nat /\ Cardinality(Range(s)) = Len(s)
<1>1. Len(s) \in Nat /\ DOMAIN s = 1..Len(s) OBVIOUS
<1>2. s \in Bijection(1..Len(s), Range(s))
  BY <1>1 DEF Bijection, Surjection, Injection, IsInjective, Range
<1> QED BY <1>1, <1>2, FS_CountingElements DEF ExistsBijection

\* What a number of events is covered by, a larger set covers.
LEMMA Covers ==
    ASSUME NEW A \in SUBSET Events, NEW B \in SUBSET Events, A \subseteq B,
           NEW n \in Nat, n <= Cardinality(A)
    PROVE  n <= Cardinality(B)
<1>1. IsFiniteSet(A) /\ IsFiniteSet(B) BY EventsAssumption, FS_Subset
<1>2. Cardinality(A) \in Nat /\ Cardinality(B) \in Nat /\ Cardinality(A) <= Cardinality(B)
  BY <1>1, FS_Subset, FS_CardinalityType
<1> QED BY <1>2

\* A counter that grows by a batch stays covered if the batch is new to the set.
LEMMA CoversBatch ==
    ASSUME NEW A \in SUBSET Events, NEW B \in SUBSET Events, NEW C \in SUBSET Events,
           A \cap C = {}, A \cup C \subseteq B, NEW n \in Nat, n <= Cardinality(A)
    PROVE  n + Cardinality(C) <= Cardinality(B)
<1>1. IsFiniteSet(A) /\ IsFiniteSet(B) /\ IsFiniteSet(C) BY EventsAssumption, FS_Subset
<1>2. Cardinality(A \cup C) = Cardinality(A) + Cardinality(C) - Cardinality(A \cap C)
  BY <1>1, FS_Union
<1>3. Cardinality(A \cap C) = 0 BY FS_EmptySet
<1>4. Cardinality(A \cup C) <= Cardinality(B) BY <1>1, FS_Subset
<1>5. Cardinality(A) \in Nat /\ Cardinality(B) \in Nat /\ Cardinality(C) \in Nat
  BY <1>1, FS_CardinalityType
<1> QED BY <1>2, <1>3, <1>4, <1>5

\* The steps in which nothing enters or leaves the pipeline; a failed PersistUsage may
\* have stored the batch.
Still ==
    /\ queue' = queue /\ batch' = batch /\ Sent' = Sent
    /\ persisted' = persisted /\ deadLettered' = deadLettered
    /\ stored \subseteq stored' /\ stored' \subseteq stored \cup Range(batch) /\ dead' = dead

\* The steps in which persist ends.
Flushed ==
    /\ queue' = queue /\ batch' = <<>> /\ Sent' = Sent
    /\ stored \subseteq stored' /\ stored' \subseteq stored \cup Range(batch)
    /\ dead \subseteq dead' /\ dead' \subseteq dead \cup Range(batch)
    /\ \/ persisted' = persisted
       \/ persisted' = persisted + Len(batch) /\ Range(batch) \subseteq stored'
    /\ \/ deadLettered' = deadLettered
       \/ deadLettered' = deadLettered + Len(batch) /\ Range(batch) \subseteq dead'

\* Every step is one of four kinds.
LEMMA FourKinds ==
    ASSUME ControlInv, [Next]_vars
    PROVE  Still \/ Flushed \/ WorkerReceive \/ \E e \in Events : EnqueueSend(e)
<1>0. pc \in [Events -> EnqueueStates] BY DEF ControlInv, TypeOK
<1>1. ASSUME NEW e \in Events, Enqueue(e), ~EnqueueSend(e) PROVE Still
  <2>1. Sent' = Sent
    BY <1>0, <1>1, SMTT(30) DEF Sent, Enqueue, EnqueueInvalid, EnqueueRLock, EnqueueClosed, EnqueueAdmit,
       EnqueueFull, RecordUsageEnqueued, SetUsageQueueDepth, Refuse, EnqueueStep
  <2>2. UNCHANGED <<queue, batch, persisted, deadLettered, stored, dead>>
    BY <1>1, SMTT(30) DEF Enqueue, EnqueueInvalid, EnqueueRLock, EnqueueClosed, EnqueueAdmit,
       EnqueueFull, RecordUsageEnqueued, SetUsageQueueDepth, Refuse, EnqueueStep, workerVars,
       database
  <2> QED BY <2>1, <2>2, SMTT(30) DEF Still
<1>2. ASSUME NEW c \in Closers, Close(c) PROVE Still
  BY <1>2, SMTT(30) DEF Close, CloseCall, CloseAdmission, CloseOnceDone, CloseReturn, CloseExpire,
     CloseExpired, CloserStep, workerVars, counters, database, Still, Sent
<1>3. CASE WorkerLocal /\ ~WorkerReceive /\ ~BackoffCancelled
  BY <1>3 DEF WorkerLocal, WorkerCancelled, WorkerMeasure, WorkerSetDepth, WorkerClosed,
     WorkerTimer, BackoffElapses, WorkerExit, WorkerStep, database, Still, Sent
<1>4. CASE PersistFails BY <1>4 DEF PersistFails, ApplyUsage, WorkerStep, database, Still, Sent
<1>5. CASE BackoffCancelled
  BY <1>5 DEF BackoffCancelled, FlushReturns, WorkerStep, database, Flushed, Sent
<1>6. CASE PersistOk BY <1>6 DEF PersistOk, ApplyUsage, FlushReturns, WorkerStep, Flushed, Sent
<1>7. CASE DeadLetterOk
  BY <1>7 DEF DeadLetterOk, ApplyDeadLetters, FlushReturns, WorkerStep, Flushed, Sent
<1>8. CASE DeadLetterFails
  BY <1>8 DEF DeadLetterFails, ApplyDeadLetters, FlushReturns, WorkerStep, database, Flushed, Sent
<1>9. CASE TimerFires \/ UNCHANGED vars
  BY <1>9 DEF TimerFires, pipelineVars, counters, database, vars, Still, Sent
<1> QED BY <1>1, <1>2, <1>3, <1>4, <1>5, <1>6, <1>7, <1>8, <1>9
       DEF Next, Terminated, WorkerLocal, StoreAnswer

\* An event is sent once: its Enqueue call was still before the send.
LEMMA SendAcknowledged ==
    ASSUME ControlInv, DistinctInv, AcknowledgedInv, NEW e \in Events, EnqueueSend(e)
    PROVE  DistinctInv' /\ AcknowledgedInv'
<1>1. /\ queue \in Seq(Events) /\ queue' = Append(queue, e) /\ batch' = batch
      /\ UNCHANGED <<stored, dead, persisted, deadLettered>>
      /\ pc[e] = "admitted" /\ pc' = [pc EXCEPT ![e] = "sent"] /\ pc \in [Events -> EnqueueStates]
  BY DEF EnqueueSend, EnqueueStep, workerVars, database, ControlInv, TypeOK
<1>2. Sent' = Sent \cup {e} /\ e \notin Sent BY <1>1 DEF Sent
<1>3. e \notin Range(queue) /\ e \notin Range(batch) /\ e \notin stored /\ e \notin dead
  BY <1>2 DEF DistinctInv, Waiting
<1>4. IsInjective(Append(queue, e)) /\ Range(Append(queue, e)) = Range(queue) \cup {e}
  BY <1>1, <1>3, AppendDistinct, RangeOfAppend DEF DistinctInv
<1>5. Waiting' = Waiting \cup {e} BY <1>1, <1>4 DEF Waiting
<1>6. DistinctInv'
  <2>1. IsInjective(queue') /\ IsInjective(batch') /\ Range(queue') = Range(queue) \cup {e}
    BY <1>1, <1>4 DEF DistinctInv
  <2>2. Range(queue') \cap Range(batch') = {} BY <1>1, <1>3, <2>1 DEF DistinctInv
  <2>3. Waiting' \subseteq Sent' /\ stored' \subseteq Sent' /\ dead' \subseteq Sent'
    BY <1>1, <1>2, <1>5 DEF DistinctInv
  <2> QED BY <2>1, <2>2, <2>3 DEF DistinctInv
<1>7. stored' \ Waiting' = stored \ Waiting /\ dead' \ Waiting' = dead \ Waiting
  BY <1>1, <1>3, <1>5
<1>8. AcknowledgedInv' BY <1>1, <1>7, Zenon DEF AcknowledgedInv
<1> QED BY <1>6, <1>8

\* The worker moves the head of the channel to its batch.
LEMMA ReceiveAcknowledged ==
    ASSUME ControlInv, DistinctInv, AcknowledgedInv, WorkerReceive
    PROVE  DistinctInv' /\ AcknowledgedInv'
<1> DEFINE h == Head(queue)
<1>1. /\ queue \in Seq(Events) /\ batch \in Seq(Events) /\ queue # <<>> /\ pc' = pc
      /\ queue' = Tail(queue) /\ batch' = Append(batch, h)
      /\ UNCHANGED <<stored, dead, persisted, deadLettered>>
  BY DEF WorkerReceive, WorkerStep, database, ControlInv, TypeOK
<1>2. h \in Range(queue) /\ Range(queue) = Range(Tail(queue)) \cup {h} BY <1>1, RangeOfTail
<1>3. h \in Events BY <1>1, <1>2, RangeOfEvents
<1>4. h \notin Range(batch) BY <1>2 DEF DistinctInv
<1>5. IsInjective(Tail(queue)) /\ h \notin Range(Tail(queue)) BY <1>1, TailDistinct DEF DistinctInv
<1>6. IsInjective(Append(batch, h)) /\ Range(Append(batch, h)) = Range(batch) \cup {h}
  BY <1>1, <1>3, <1>4, AppendDistinct, RangeOfAppend DEF DistinctInv
<1> HIDE DEF h
<1>7. Waiting' = Waiting BY <1>1, <1>2, <1>6 DEF Waiting
<1>8. Sent' = Sent BY <1>1 DEF Sent
<1>9. DistinctInv'
  <2>1. Range(queue') \cap Range(batch') = {} BY <1>1, <1>2, <1>5, <1>6 DEF DistinctInv
  <2>2. IsInjective(queue') /\ IsInjective(batch') BY <1>1, <1>5, <1>6
  <2> QED BY <1>1, <1>7, <1>8, <2>1, <2>2 DEF DistinctInv
<1>10. AcknowledgedInv' BY <1>1, <1>7 DEF AcknowledgedInv
<1> QED BY <1>9, <1>10

\* Nothing enters or leaves.
LEMMA StillAcknowledged ==
    ASSUME ControlInv, DistinctInv, AcknowledgedInv, Still
    PROVE  DistinctInv' /\ AcknowledgedInv'
<1>1. Waiting' = Waiting /\ Sent \subseteq Events BY DEF Still, Waiting, Sent
<1>2. stored' \subseteq Sent' /\ dead' \subseteq Sent' BY DEF Still, DistinctInv, Waiting
<1>3. DistinctInv' BY <1>1, <1>2 DEF Still, DistinctInv
<1>4. persisted \in Nat BY DEF ControlInv, TypeOK
<1>5. stored \ Waiting \in SUBSET Events /\ stored' \ Waiting' \in SUBSET Events
      /\ stored \ Waiting \subseteq stored' \ Waiting'
  BY <1>1, <1>2 DEF Still, DistinctInv
<1>6. persisted <= Cardinality(stored' \ Waiting')
  <2>1. persisted <= Cardinality(stored \ Waiting) BY DEF AcknowledgedInv
  <2> QED BY ONLY <1>4, <1>5, <2>1, Covers
<1>7. AcknowledgedInv' BY <1>1, <1>6 DEF Still, AcknowledgedInv
<1> QED BY <1>3, <1>7

\* When persist ends, the batch leaves the pipeline; what is acknowledged of it is in
\* its table and was not counted before.
LEMMA FlushAcknowledged ==
    ASSUME ControlInv, DistinctInv, AcknowledgedInv, Flushed
    PROVE  DistinctInv' /\ AcknowledgedInv'
<1>0. /\ queue \in Seq(Events) /\ batch \in Seq(Events)
      /\ persisted \in Nat /\ deadLettered \in Nat
  BY DEF ControlInv, TypeOK
<1>1. Range(<<>>) = {} /\ IsInjective(<<>>) BY DEF Range, IsInjective
<1>2. Waiting' = Range(queue) /\ Waiting' \subseteq Waiting /\ Sent \subseteq Events
  BY <1>1 DEF Flushed, Waiting, Sent
<1>3. stored' \subseteq Sent' /\ dead' \subseteq Sent' BY DEF Flushed, DistinctInv, Waiting
<1>4. DistinctInv'
  <2>1. IsInjective(queue') /\ IsInjective(batch') /\ Range(queue') \cap Range(batch') = {}
    BY <1>1 DEF Flushed, DistinctInv
  <2>2. Waiting' \subseteq Sent' BY <1>2 DEF Flushed, DistinctInv
  <2> QED BY <1>3, <2>1, <2>2 DEF DistinctInv
<1>5. /\ stored \ Waiting \in SUBSET Events /\ stored' \ Waiting' \in SUBSET Events
      /\ dead \ Waiting \in SUBSET Events /\ dead' \ Waiting' \in SUBSET Events
      /\ Range(batch) \in SUBSET Events /\ Sent' = Sent
  BY <1>0, <1>2, <1>3, RangeOfEvents DEF Flushed, DistinctInv
<1>6. /\ stored \ Waiting \subseteq stored' \ Waiting' /\ dead \ Waiting \subseteq dead' \ Waiting'
      /\ (stored \ Waiting) \cap Range(batch) = {} /\ (dead \ Waiting) \cap Range(batch) = {}
  BY <1>2 DEF Flushed, Waiting
<1>7. Range(batch) \cap Waiting' = {} BY <1>2 DEF DistinctInv
<1>8. Cardinality(Range(batch)) = Len(batch) BY <1>0, DistinctCount DEF DistinctInv
<1>9. persisted' <= Cardinality(stored' \ Waiting')
  <2>1. persisted <= Cardinality(stored \ Waiting) BY DEF AcknowledgedInv
  <2>2. CASE persisted' = persisted
    <3>1. persisted <= Cardinality(stored' \ Waiting') BY ONLY <1>0, <1>5, <1>6, <2>1, Covers
    <3> QED BY <2>2, <3>1
  <2>3. CASE persisted' = persisted + Len(batch) /\ Range(batch) \subseteq stored'
    <3>1. (stored \ Waiting) \cup Range(batch) \subseteq stored' \ Waiting' BY <1>6, <1>7, <2>3
    <3>2. persisted + Cardinality(Range(batch)) <= Cardinality(stored' \ Waiting')
      BY ONLY <1>0, <1>5, <1>6, <2>1, <3>1, CoversBatch
    <3> QED BY <1>8, <2>3, <3>2
  <2> QED BY <2>2, <2>3 DEF Flushed
<1>10. deadLettered' <= Cardinality(dead' \ Waiting')
  <2>1. deadLettered <= Cardinality(dead \ Waiting) BY DEF AcknowledgedInv
  <2>2. CASE deadLettered' = deadLettered
    <3>1. deadLettered <= Cardinality(dead' \ Waiting') BY ONLY <1>0, <1>5, <1>6, <2>1, Covers
    <3> QED BY <2>2, <3>1
  <2>3. CASE deadLettered' = deadLettered + Len(batch) /\ Range(batch) \subseteq dead'
    <3>1. (dead \ Waiting) \cup Range(batch) \subseteq dead' \ Waiting' BY <1>6, <1>7, <2>3
    <3>2. deadLettered + Cardinality(Range(batch)) <= Cardinality(dead' \ Waiting')
      BY ONLY <1>0, <1>5, <1>6, <2>1, <3>1, CoversBatch
    <3> QED BY <1>8, <2>3, <3>2
  <2> QED BY <2>2, <2>3 DEF Flushed
<1>11. AcknowledgedInv' BY <1>9, <1>10 DEF AcknowledgedInv
<1> QED BY <1>4, <1>11

\* Every event counted as persisted or dead-lettered has its row, also when the same
\* batch was committed twice or given up half-way.
THEOREM AcknowledgedIsStoredHolds == Spec => []AcknowledgedIsStored
<1> DEFINE Inv == DistinctInv /\ AcknowledgedInv
<1>1. Init => Inv
  <2> SUFFICES ASSUME Init PROVE Inv OBVIOUS
  <2>1. Range(<<>>) = {} /\ IsInjective(<<>>) BY DEF Range, IsInjective
  <2>2. DistinctInv BY <2>1 DEF Init, DistinctInv, Waiting
  <2>3. stored \ Waiting = {} /\ dead \ Waiting = {} BY DEF Init
  <2>4. Cardinality(stored \ Waiting) = 0 /\ Cardinality(dead \ Waiting) = 0
    BY <2>3, FS_EmptySet, Zenon
  <2>5. AcknowledgedInv BY <2>4 DEF Init, AcknowledgedInv
  <2> QED BY <2>2, <2>5
<1>2. ControlInv /\ Inv /\ [Next]_vars => Inv'
  BY FourKinds, SendAcknowledged, ReceiveAcknowledged, StillAcknowledged, FlushAcknowledged
<1>3. ControlInv /\ Inv => AcknowledgedIsStored
  <2> SUFFICES ASSUME ControlInv, Inv PROVE AcknowledgedIsStored OBVIOUS
  <2>1. stored \in SUBSET Events /\ dead \in SUBSET Events /\ persisted \in Nat /\ deadLettered \in Nat
    BY DEF ControlInv, TypeOK
  <2>2. stored \ Waiting \in SUBSET Events /\ dead \ Waiting \in SUBSET Events BY <2>1
  <2>3. stored \ Waiting \subseteq stored /\ dead \ Waiting \subseteq dead OBVIOUS
  <2>4. persisted <= Cardinality(stored \ Waiting) /\ deadLettered <= Cardinality(dead \ Waiting)
    BY DEF AcknowledgedInv
  <2>5. persisted <= Cardinality(stored) BY ONLY <2>1, <2>2, <2>3, <2>4, Covers
  <2>6. deadLettered <= Cardinality(dead) BY ONLY <2>1, <2>2, <2>3, <2>4, Covers
  <2> QED BY <2>5, <2>6 DEF AcknowledgedIsStored
<1> QED BY <1>1, <1>2, <1>3, ControlInvariance, PTL DEF Spec
-----------------------------------------------------------------------------
(* Close *)

\* One Close runs the function of closeOnce, the others wait for it to have closed the
\* channel; who waits for the worker after the deadline has cancelled its context; done
\* is closed by the worker alone, as its last act.
CloseInv ==
    /\ \A c, d \in Closers : closer[c] = "locking" /\ closer[d] = "locking" => c = d
    /\ \A c \in Closers :
          /\ closer[c] = "locking" => ~closed
          /\ closer[c] = "blocked" => closed \/ \E d \in Closers : closer[d] = "locking"
          /\ closer[c] = "cancelling" => cancelled
          /\ closer[c] \in {"ok", "expired"} => done
    /\ closed => \E c \in Closers : closer[c] \notin {"idle", "locking", "blocked"}
    /\ done <=> worker = "stopped"

\* However many callers Close has, close(queue) runs once: a second one would panic.
ClosesOnce == \A c \in Closers : closer[c] = "locking" => ~closed

\* Whom a Close waits for can move: one that waits for closeOnce waits for a caller
\* who is at the lock, and one that waits for done waits for a worker that has not
\* stopped and whose channel is closed, after a deadline with a cancelled context.
CloseWaitsForSomeone ==
    \A c \in Closers :
        /\ closer[c] = "blocked" => closed \/ \E d \in Closers \ {c} : closer[d] = "locking"
        /\ closer[c] \in {"waiting", "cancelling"} => closed /\ (done \/ worker # "stopped")
        /\ closer[c] = "cancelling" => cancelled

\* When a Close has returned, the worker is over: nothing reaches the database or the
\* worker's counters any more, and main may close the store.
QuietAfterClose ==
    [][(\E c \in Closers : closer[c] \in {"ok", "expired"}) =>
          UNCHANGED <<database, persisted, deadLettered, depth, queue>>]_vars

\* Enqueue, the worker and the store leave the callers of Close alone, and only the
\* worker's exit closes done.
LEMMA OthersClose ==
    ASSUME ControlInv, CloseInv, [Next]_vars, ~(\E c \in Closers : Close(c))
    PROVE  CloseInv'
<1>1. /\ closer' = closer /\ closed' = closed /\ (cancelled => cancelled')
      /\ \/ done' = done /\ (worker' = "stopped" <=> worker = "stopped")
         \/ done' /\ worker' = "stopped"
  <2>1. ASSUME NEW e \in Events, Enqueue(e)
        PROVE  UNCHANGED <<closer, closed, cancelled, done, worker>>
    BY <2>1 DEF Enqueue, EnqueueInvalid, EnqueueRLock, EnqueueClosed, EnqueueAdmit, EnqueueSend,
       EnqueueFull, RecordUsageEnqueued, SetUsageQueueDepth, Refuse, EnqueueStep, workerVars
  <2>2. CASE WorkerExit BY <2>2 DEF WorkerExit, WorkerStep
  <2>3. CASE WorkerLocal /\ ~WorkerExit
    <3>1. UNCHANGED <<closer, closed, cancelled, done>> /\ worker # "stopped" /\ worker' # "stopped"
      BY <2>3 DEF WorkerLocal, WorkerCancelled, WorkerReceive, WorkerMeasure, WorkerSetDepth,
         WorkerClosed, WorkerTimer, BackoffElapses, BackoffCancelled, WorkerStep,
         StartPersist, FlushReturns
    <3> QED BY <3>1
  <2>4. CASE StoreAnswer
    <3>1. UNCHANGED <<closer, closed, cancelled, done>> /\ worker # "stopped" /\ worker' # "stopped"
      BY <2>4 DEF StoreAnswer, PersistOk, PersistFails, DeadLetterOk, DeadLetterFails, WorkerStep,
         FlushReturns
    <3> QED BY <3>1
  <2>5. CASE TimerFires \/ UNCHANGED vars BY <2>5 DEF TimerFires, vars, pipelineVars
  <2> QED BY <2>1, <2>2, <2>3, <2>4, <2>5 DEF Next, Terminated
<1>2. done => done' BY <1>1 DEF CloseInv
<1> QED BY <1>1, <1>2 DEF CloseInv

\* The first caller of Close finds all others idle; closeOnce lets nobody else in.
LEMMA CallersClose ==
    ASSUME ControlInv, CloseInv, NEW c \in Closers, Close(c)
    PROVE  CloseInv'
<1>1. UNCHANGED <<done, worker>> /\ (closed => closed') /\ (cancelled => cancelled')
  BY DEF Close, CloseCall, CloseAdmission, CloseOnceDone, CloseReturn, CloseExpire, CloseExpired,
     CloserStep, workerVars
<1>2. closer \in [Closers -> CloserStates] BY DEF ControlInv, TypeOK
<1>3. \A d \in Closers \ {c} : closer'[d] = closer[d]
  BY <1>2 DEF Close, CloseCall, CloseAdmission, CloseOnceDone, CloseReturn, CloseExpire,
     CloseExpired, CloserStep
<1>4. CASE CloseCall(c)
  <2>1. closed' = closed /\ closer[c] = "idle" BY <1>4 DEF CloseCall, CloserStep
  <2>2. CASE \A d \in Closers : closer[d] = "idle"
    <3>1. closer'[c] = "locking" BY <1>2, <1>4, <2>2 DEF CloseCall, CloserStep
    <3>2. ~closed BY <2>2 DEF CloseInv
    <3> QED BY <1>1, <1>3, <2>1, <2>2, <3>1, <3>2 DEF CloseInv
  <2>3. CASE \E d \in Closers : closer[d] # "idle"
    <3>1. closer'[c] = "blocked" BY <1>2, <1>4, <2>3 DEF CloseCall, CloserStep
    <3>2. closed \/ \E d \in Closers : closer[d] = "locking"
      <4>1. PICK d \in Closers : closer[d] # "idle" BY <2>3
      <4>2. closer[d] \in {"waiting", "cancelling", "ok", "expired"} => closed
        BY DEF ControlInv, ShutdownInv
      <4>3. closer[d] \in CloserStates BY <1>2
      <4> QED BY <4>1, <4>2, <4>3 DEF CloseInv
    <3> QED BY <1>1, <1>3, <2>1, <3>1, <3>2 DEF CloseInv
  <2> QED BY <2>2, <2>3
<1>5. CASE CloseAdmission(c)
  <2>1. closed' /\ closer[c] = "locking" /\ closer'[c] = "waiting"
    BY <1>2, <1>5 DEF CloseAdmission, CloserStep
  <2>2. \A d \in Closers : closer'[d] # "locking" BY <1>3, <2>1 DEF CloseInv
  <2> QED BY <1>1, <1>3, <2>1, <2>2 DEF CloseInv
<1>6. CASE CloseOnceDone(c)
  <2>1. closed /\ closed' /\ closer[c] = "blocked" /\ closer'[c] = "waiting"
    BY <1>2, <1>6 DEF CloseOnceDone, CloserStep
  <2> QED BY <1>1, <1>3, <2>1 DEF CloseInv
<1>7. CASE CloseReturn(c) \/ CloseExpire(c) \/ CloseExpired(c)
  <2>1. /\ closed' = closed /\ closer[c] \in {"waiting", "cancelling"}
        /\ closer'[c] \in {"cancelling", "ok", "expired"}
        /\ closer'[c] = "cancelling" => cancelled'
        /\ closer'[c] \in {"ok", "expired"} => done
    BY <1>2, <1>7 DEF CloseReturn, CloseExpire, CloseExpired, CloserStep
  <2>2. closed BY <2>1 DEF ControlInv, ShutdownInv
  <2> QED BY <1>1, <1>3, <2>1, <2>2 DEF CloseInv
<1> QED BY <1>4, <1>5, <1>6, <1>7 DEF Close

\* What the callers of Close wait for, in every reachable state.
THEOREM CloseInvariance == Spec => []CloseInv
<1>1. Init => CloseInv BY DEF Init, CloseInv
<1>2. ControlInv /\ CloseInv /\ [Next]_vars => CloseInv' BY OthersClose, CallersClose
<1> QED BY <1>1, <1>2, ControlInvariance, PTL DEF Spec

\* The channel is closed once, for any number of callers.
THEOREM ClosesOnceHolds == Spec => []ClosesOnce
<1>1. CloseInv => ClosesOnce BY DEF CloseInv, ClosesOnce
<1> QED BY <1>1, CloseInvariance, PTL

\* No Close waits for someone who will not come.
THEOREM CloseWaitsForSomeoneHolds == Spec => []CloseWaitsForSomeone
<1>1. ControlInv /\ CloseInv => CloseWaitsForSomeone
  BY DEF ControlInv, ShutdownInv, CloseInv, CloseWaitsForSomeone
<1> QED BY <1>1, ControlInvariance, CloseInvariance, PTL

\* A Close that has returned is the end of the pipeline's work.
THEOREM QuietAfterCloseHolds == Spec => QuietAfterClose
<1>1. ASSUME ControlInv, CloseInv, [Next]_vars,
             \E c \in Closers : closer[c] \in {"ok", "expired"}
      PROVE  UNCHANGED <<database, persisted, deadLettered, depth, queue>>
  <2>1. done /\ closed /\ worker = "stopped" BY <1>1 DEF ControlInv, ShutdownInv, CloseInv
  <2>2. \A e \in Events : pc[e] \notin {"admitted", "sent", "measured"}
    BY <1>1, <2>1 DEF ControlInv, AdmissionInv
  <2>3. ASSUME NEW e \in Events, Enqueue(e)
        PROVE  UNCHANGED <<database, persisted, deadLettered, depth, queue>>
    BY <2>1, <2>2, <2>3 DEF Enqueue, EnqueueInvalid, EnqueueRLock, EnqueueClosed, EnqueueAdmit,
       EnqueueSend, EnqueueFull, RecordUsageEnqueued, SetUsageQueueDepth, Refuse, EnqueueStep
  <2>4. ASSUME NEW c \in Closers, Close(c)
        PROVE  UNCHANGED <<database, persisted, deadLettered, depth, queue>>
    BY <2>4 DEF Close, CloseCall, CloseAdmission, CloseOnceDone, CloseReturn, CloseExpire,
       CloseExpired, CloserStep, counters
  <2>5. ~WorkerLocal /\ ~StoreAnswer
    BY <2>1 DEF WorkerLocal, WorkerCancelled, WorkerReceive, WorkerMeasure, WorkerSetDepth,
       WorkerClosed, WorkerTimer, BackoffElapses, BackoffCancelled, WorkerExit, StoreAnswer,
       PersistOk, PersistFails, DeadLetterOk, DeadLetterFails, WorkerStep
  <2>6. CASE TimerFires \/ UNCHANGED vars
    BY <2>6 DEF TimerFires, vars, pipelineVars, counters, database
  <2> QED BY <1>1, <2>3, <2>4, <2>5, <2>6 DEF Next, Terminated
<1> QED BY <1>1, ControlInvariance, CloseInvariance, PTL DEF Spec, QuietAfterClose
=============================================================================
