--------------------------- MODULE UsagePipeline ---------------------------
(***************************************************************************)
(* The asynchronous usage pipeline of internal/usage/pipeline.go together  *)
(* with the two PostgreSQL writes it makes (internal/store/usage.go) and   *)
(* the usage counters it drives (internal/metrics/metrics.go).             *)
(*                                                                         *)
(* Three kinds of goroutine interleave: one request goroutine per event    *)
(* (Enqueue), the single worker (run, persist), and the callers of Close.  *)
(* A step ends wherever another goroutine could observe the difference:    *)
(* a lock operation, a channel operation, an atomic load or store, a call  *)
(* to the store.                                                           *)
(*                                                                         *)
(* Definitions whose name ends in _Bug are deliberately wrong variants of  *)
(* the definition that follows them; they show which mistake each property *)
(* would catch.                                                            *)
(***************************************************************************)
EXTENDS Integers, Sequences, FiniteSets, Functions

CONSTANTS
    Events,         \* usage events, one Enqueue call each (IDs are unique)
    ValidEvents,    \* those that Event.Validate accepts
    Closers,        \* goroutines that call Close
    QueueCapacity,  \* Config.QueueCapacity
    BatchSize,      \* Config.BatchSize
    MaxAttempts     \* Config.MaxAttempts

\* The checks of NewPipeline, on the configuration it accepts.
ASSUME ConfigAssumption ==
    /\ QueueCapacity \in Nat \ {0}
    /\ BatchSize \in 1..QueueCapacity
    /\ MaxAttempts \in Nat \ {0}

ASSUME EventsAssumption == IsFiniteSet(Events) /\ ValidEvents \subseteq Events

VARIABLES
    \* Pipeline
    queue,        \* chan Event, buffered
    closed,       \* Pipeline.closed, set with close(queue) in one critical section
    cancelled,    \* Pipeline.ctx is done
    done,         \* Pipeline.done is closed
    \* request goroutines
    pc,           \* where each Enqueue call stands
    seen,         \* the len(queue) it has read and not yet published
    \* closers
    closer,       \* where each Close call stands
    \* worker
    worker,       \* where run / persist stands
    batch,        \* the worker's local batch
    attempt,      \* persist's loop variable
    flushing,     \* which case of the select called flush
    timer,        \* the flush timer
    workerSeen,   \* the len(queue) the worker has read and not yet published
    \* metrics.Registry
    depth, enqueued, dropped, persisted, deadLettered,
    \* PostgreSQL
    stored,       \* event_id of the rows of usage_events
    hourly,       \* sum of request_count over usage_hourly
    dead          \* event_id of the rows of usage_dead_letters

pipelineVars == <<queue, closed, cancelled, done>>
workerVars == <<worker, batch, attempt, flushing, timer, workerSeen>>
counters == <<enqueued, dropped, persisted, deadLettered>>
database == <<stored, hourly, dead>>
vars == <<queue, closed, cancelled, done, pc, seen, closer, worker, batch,
          attempt, flushing, timer, workerSeen, depth, enqueued, dropped,
          persisted, deadLettered, stored, hourly, dead>>

\* Enqueue: "locked" holds the read lock, "admitted" has seen closed = false,
\* "sent" has sent on the channel, "measured" has read len(queue).
HoldingRLock_Bug == {"locked", "admitted", "sent"}
HoldingRLock == {"locked", "admitted", "sent", "measured"}
EnqueueStates == {"start", "accepted", "refused"} \cup HoldingRLock
CloserStates == {"idle", "locking", "blocked", "waiting", "cancelling", "ok", "expired"}
WorkerStates == {"select", "received", "measured", "persist", "backoff",
                 "deadletter", "exit", "stopped"}

Init ==
    /\ queue = <<>> /\ closed = FALSE /\ cancelled = FALSE /\ done = FALSE
    /\ pc = [e \in Events |-> "start"]
    /\ seen = [e \in Events |-> 0]
    /\ closer = [c \in Closers |-> "idle"]
    /\ worker = "select" /\ batch = <<>> /\ attempt = 1 /\ flushing = "none"
    /\ timer = "armed" /\ workerSeen = 0
    /\ depth = 0 /\ enqueued = 0 /\ dropped = 0 /\ persisted = 0 /\ deadLettered = 0
    /\ stored = {} /\ hourly = 0 /\ dead = {}

-----------------------------------------------------------------------------
(* Enqueue, one call per event *)

EnqueueStep(e, from, to) ==
    /\ pc[e] = from
    /\ pc' = [pc EXCEPT ![e] = to]
    /\ UNCHANGED <<cancelled, done, closed, closer, workerVars, persisted,
                   deadLettered, database>>

\* Every refusal records one dropped event and returns false.
Refuse(e, from) ==
    /\ EnqueueStep(e, from, "refused")
    /\ dropped' = dropped + 1
    /\ UNCHANGED <<queue, seen, depth, enqueued>>

EnqueueInvalid(e) == e \notin ValidEvents /\ Refuse(e, "start")

EnqueueRLock_Bug(e) ==
    /\ e \in ValidEvents
    /\ \A c \in Closers : closer[c] = "idle"
    /\ EnqueueStep(e, "start", "locked")
    /\ UNCHANGED <<queue, seen, depth, enqueued, dropped>>

\* sync.RWMutex admits no new reader while a writer holds or awaits the lock.
EnqueueRLock(e) ==
    /\ e \in ValidEvents
    /\ \A c \in Closers : closer[c] # "locking"
    /\ EnqueueStep(e, "start", "locked")
    /\ UNCHANGED <<queue, seen, depth, enqueued, dropped>>

EnqueueClosed(e) == closed /\ Refuse(e, "locked")

EnqueueAdmit(e) ==
    /\ ~closed
    /\ EnqueueStep(e, "locked", "admitted")
    /\ UNCHANGED <<queue, seen, depth, enqueued, dropped>>

EnqueueSend(e) ==
    /\ Len(queue) < QueueCapacity
    /\ EnqueueStep(e, "admitted", "sent")
    /\ queue' = Append(queue, e)
    /\ UNCHANGED <<seen, depth, enqueued, dropped>>

EnqueueFull(e) == Len(queue) = QueueCapacity /\ Refuse(e, "admitted")

\* RecordUsageEnqueued commutes with every step of the others, so it is taken
\* together with the reading of len(queue).
RecordUsageEnqueued(e) ==
    /\ EnqueueStep(e, "sent", "measured")
    /\ enqueued' = enqueued + 1
    /\ seen' = [seen EXCEPT ![e] = Len(queue)]
    /\ UNCHANGED <<queue, depth, dropped>>

\* Publishes the length read before, then releases the read lock.
SetUsageQueueDepth(e) ==
    /\ EnqueueStep(e, "measured", "accepted")
    /\ depth' = seen[e]
    /\ seen' = [seen EXCEPT ![e] = 0]
    /\ UNCHANGED <<queue, enqueued, dropped>>

Enqueue(e) ==
    \/ EnqueueInvalid(e) \/ EnqueueRLock(e) \/ EnqueueClosed(e) \/ EnqueueAdmit(e)
    \/ EnqueueSend(e) \/ EnqueueFull(e) \/ RecordUsageEnqueued(e)
    \/ SetUsageQueueDepth(e)

-----------------------------------------------------------------------------
(* Close *)

CloserStep(c, from, to) ==
    /\ closer[c] = from
    /\ closer' = [closer EXCEPT ![c] = to]
    /\ UNCHANGED <<queue, done, pc, seen, workerVars, depth, counters, database>>

\* closeOnce: the first caller runs the function, the others wait for it.
CloseCall(c) ==
    /\ CloserStep(c, "idle",
          IF \A d \in Closers : closer[d] = "idle" THEN "locking" ELSE "blocked")
    /\ UNCHANGED <<closed, cancelled>>

WriterMayLock_Bug == TRUE

WriterMayLock == \A e \in Events : pc[e] \notin HoldingRLock

\* Lock, closed = true, close(queue), Unlock.
CloseAdmission(c) ==
    /\ WriterMayLock
    /\ CloserStep(c, "locking", "waiting")
    /\ closed' = TRUE
    /\ UNCHANGED cancelled

CloseOnceDone(c) ==
    /\ closed
    /\ CloserStep(c, "blocked", "waiting")
    /\ UNCHANGED <<closed, cancelled>>

CloseReturn(c) ==
    /\ done
    /\ CloserStep(c, "waiting", "ok")
    /\ UNCHANGED <<closed, cancelled>>

CloseExpire_Bug(c) ==
    /\ CloserStep(c, "waiting", "cancelling")
    /\ UNCHANGED <<closed, cancelled>>

\* The caller's deadline passes: cancel the context, then wait for the worker.
CloseExpire(c) ==
    /\ CloserStep(c, "waiting", "cancelling")
    /\ cancelled' = TRUE
    /\ UNCHANGED closed

CloseExpired(c) ==
    /\ done
    /\ CloserStep(c, "cancelling", "expired")
    /\ UNCHANGED <<closed, cancelled>>

Close(c) ==
    \/ CloseCall(c) \/ CloseAdmission(c) \/ CloseOnceDone(c)
    \/ CloseReturn(c) \/ CloseExpire(c) \/ CloseExpired(c)

-----------------------------------------------------------------------------
(* The worker: run, flush and persist *)

WorkerStep(from) ==
    /\ worker = from
    /\ UNCHANGED <<closed, pc, seen, closer, enqueued>>

BatchFull == Len(batch) >= BatchSize

\* flush calls persist on a batch that is not empty.
StartPersist(case) ==
    /\ worker' = "persist"
    /\ attempt' = 1
    /\ flushing' = case

FlushReturns_Bug ==
    /\ batch' = <<>>
    /\ attempt' = 1
    /\ flushing' = "none"
    /\ worker' = IF flushing = "final" THEN "exit" ELSE "select"
    /\ UNCHANGED <<queue, cancelled, done, timer, workerSeen, depth>>

\* persist has returned: empty the batch, then re-arm the timer and go back to
\* the select, or leave run when the channel was closed.
FlushReturns ==
    /\ batch' = <<>>
    /\ attempt' = 1
    /\ flushing' = "none"
    /\ worker' = IF flushing = "final" THEN "exit" ELSE "select"
    /\ timer' = IF flushing = "final" THEN timer ELSE "armed"
    /\ UNCHANGED <<queue, cancelled, done, workerSeen, depth>>

TimerFires ==
    /\ timer = "armed" /\ worker # "stopped"
    /\ timer' = "fired"
    /\ UNCHANGED <<pipelineVars, pc, seen, closer, worker, batch, attempt,
                   flushing, workerSeen, depth, counters, database>>

Unhandled_Bug == Len(batch)

\* case <-p.ctx.Done(): count what is left and return.
Unhandled == Len(batch) + Len(queue)

WorkerCancelled ==
    /\ WorkerStep("select")
    /\ cancelled
    /\ dropped' = dropped + Unhandled
    /\ worker' = "exit"
    /\ UNCHANGED <<queue, cancelled, done, batch, attempt, flushing, timer,
                   workerSeen, depth, persisted, deadLettered, database>>

\* case event, open := <-p.queue, with open true.
WorkerReceive ==
    /\ WorkerStep("select")
    /\ queue # <<>>
    /\ queue' = Tail(queue)
    /\ batch' = Append(batch, Head(queue))
    /\ worker' = "received"
    /\ UNCHANGED <<cancelled, done, attempt, flushing, timer, workerSeen, depth,
                   dropped, persisted, deadLettered, database>>

WorkerMeasure ==
    /\ WorkerStep("received")
    /\ workerSeen' = Len(queue)
    /\ worker' = "measured"
    /\ UNCHANGED <<queue, cancelled, done, batch, attempt, flushing, timer, depth,
                   dropped, persisted, deadLettered, database>>

WorkerSetDepth ==
    /\ WorkerStep("measured")
    /\ depth' = workerSeen
    /\ workerSeen' = 0
    /\ IF BatchFull THEN StartPersist("full")
                    ELSE worker' = "select" /\ UNCHANGED <<attempt, flushing>>
    /\ UNCHANGED <<queue, cancelled, done, batch, timer, dropped, persisted,
                   deadLettered, database>>

WorkerClosed_Bug ==
    /\ WorkerStep("select")
    /\ closed
    /\ IF batch # <<>> THEN StartPersist("final")
                       ELSE worker' = "exit" /\ UNCHANGED <<attempt, flushing>>
    /\ UNCHANGED <<queue, cancelled, done, batch, timer, workerSeen, depth,
                   dropped, persisted, deadLettered, database>>

\* case event, open := <-p.queue, with open false: the channel is closed and empty.
WorkerClosed ==
    /\ WorkerStep("select")
    /\ closed /\ queue = <<>>
    /\ IF batch # <<>> THEN StartPersist("final")
                       ELSE worker' = "exit" /\ UNCHANGED <<attempt, flushing>>
    /\ UNCHANGED <<queue, cancelled, done, batch, timer, workerSeen, depth,
                   dropped, persisted, deadLettered, database>>

\* case <-timer.C: the timer stays stopped until flush has returned.
WorkerTimer ==
    /\ WorkerStep("select")
    /\ timer = "fired"
    /\ IF batch # <<>>
       THEN StartPersist("timer") /\ timer' = "stopped"
       ELSE timer' = "armed" /\ UNCHANGED <<worker, attempt, flushing>>
    /\ UNCHANGED <<queue, cancelled, done, batch, workerSeen, depth, dropped,
                   persisted, deadLettered, database>>

NewRows_Bug == Range(batch)

\* The event_id conflict guard: only rows inserted by this statement reach
\* usage_hourly.
NewRows == Range(batch) \ stored

\* PersistUsage is one statement, so it is applied entirely or not at all.
ApplyUsage ==
    /\ stored' = stored \cup Range(batch)
    /\ hourly' = hourly + Cardinality(NewRows)
    /\ UNCHANGED dead

PersistOk_Bug ==
    /\ WorkerStep("persist")
    /\ ApplyUsage \/ UNCHANGED database
    /\ persisted' = persisted + Len(batch)
    /\ FlushReturns
    /\ UNCHANGED <<dropped, deadLettered>>

PersistOk ==
    /\ WorkerStep("persist")
    /\ ApplyUsage
    /\ persisted' = persisted + Len(batch)
    /\ FlushReturns
    /\ UNCHANGED <<dropped, deadLettered>>

\* PersistUsage returns an error.  The statement may have been committed all the
\* same: the connection or the context can fail after the commit.
PersistFails ==
    /\ WorkerStep("persist")
    /\ ApplyUsage \/ UNCHANGED database
    /\ worker' = IF attempt = MaxAttempts THEN "deadletter" ELSE "backoff"
    /\ UNCHANGED <<queue, cancelled, done, batch, attempt, flushing, timer,
                   workerSeen, depth, dropped, persisted, deadLettered>>

\* wait returns true.  When the delay and the context are both over, select may
\* take either case.
BackoffElapses ==
    /\ WorkerStep("backoff")
    /\ worker' = "persist"
    /\ attempt' = attempt + 1
    /\ UNCHANGED <<queue, cancelled, done, batch, flushing, timer, workerSeen,
                   depth, dropped, persisted, deadLettered, database>>

BackoffCancelled ==
    /\ WorkerStep("backoff")
    /\ cancelled
    /\ dropped' = dropped + Len(batch)
    /\ FlushReturns
    /\ UNCHANGED <<persisted, deadLettered, database>>

ApplyDeadLetters ==
    /\ dead' = dead \cup Range(batch)
    /\ UNCHANGED <<stored, hourly>>

DeadLetterOk ==
    /\ WorkerStep("deadletter")
    /\ ApplyDeadLetters
    /\ deadLettered' = deadLettered + Len(batch)
    /\ FlushReturns
    /\ UNCHANGED <<dropped, persisted>>

DeadLetterFails_Bug ==
    /\ WorkerStep("deadletter")
    /\ ApplyDeadLetters \/ UNCHANGED database
    /\ FlushReturns
    /\ UNCHANGED <<dropped, persisted, deadLettered>>

DeadLetterFails ==
    /\ WorkerStep("deadletter")
    /\ ApplyDeadLetters \/ UNCHANGED database
    /\ dropped' = dropped + Len(batch)
    /\ FlushReturns
    /\ UNCHANGED <<persisted, deadLettered>>

\* The gauge is cleared, then the deferred cancel and close(done) run.
WorkerExit ==
    /\ WorkerStep("exit")
    /\ depth' = 0
    /\ cancelled' = TRUE
    /\ done' = TRUE
    /\ worker' = "stopped"
    /\ UNCHANGED <<queue, batch, attempt, flushing, timer, workerSeen, dropped,
                   persisted, deadLettered, database>>

StoreAnswer == PersistOk \/ PersistFails \/ DeadLetterOk \/ DeadLetterFails

WorkerLocal ==
    \/ WorkerCancelled \/ WorkerReceive \/ WorkerMeasure \/ WorkerSetDepth
    \/ WorkerClosed \/ WorkerTimer \/ BackoffElapses \/ BackoffCancelled
    \/ WorkerExit

\* Every call has returned and the worker has stopped.
Terminated ==
    /\ worker = "stopped"
    /\ \A e \in Events : pc[e] \in {"accepted", "refused"}
    /\ \A c \in Closers : closer[c] \in {"ok", "expired"}
    /\ UNCHANGED vars

Next ==
    \/ \E e \in Events : Enqueue(e)
    \/ \E c \in Closers : Close(c)
    \/ WorkerLocal \/ StoreAnswer \/ TimerFires
    \/ Terminated

Spec == Init /\ [][Next]_vars

-----------------------------------------------------------------------------
(* Fairness *)

\* Every runnable goroutine is eventually scheduled, select passes over no ready
\* case for ever (Go picks one at random), the flush timer fires, a caller's
\* deadline passes, and a store call returns once its context is done.
\* A store call whose context is live may hang for ever: PersistUsage sets no
\* timeout of its own.
Fairness ==
    /\ \A e \in Events : WF_vars(pc[e] # "start" /\ Enqueue(e))
    /\ \A c \in Closers : WF_vars(closer[c] # "idle" /\ Close(c))
    /\ WF_vars(WorkerLocal)
    /\ WF_vars(WorkerReceive) /\ WF_vars(WorkerTimer)
    /\ WF_vars(WorkerCancelled) /\ WF_vars(WorkerClosed)
    /\ WF_vars(TimerFires)
    /\ WF_vars(cancelled /\ StoreAnswer)

LiveSpec == Spec /\ Fairness

-----------------------------------------------------------------------------
(* Properties *)

\* Types and bounds: the channel never holds more than its capacity, nor run's batch
\* more than BatchSize, however sends, receives and flushes interleave.
TypeOK ==
    /\ queue \in Seq(Events) /\ Len(queue) <= QueueCapacity
    /\ closed \in BOOLEAN /\ cancelled \in BOOLEAN /\ done \in BOOLEAN
    /\ pc \in [Events -> EnqueueStates]
    /\ seen \in [Events -> 0..QueueCapacity]
    /\ closer \in [Closers -> CloserStates]
    /\ worker \in WorkerStates
    /\ batch \in Seq(Events) /\ Len(batch) <= BatchSize
    /\ attempt \in 1..MaxAttempts
    /\ flushing \in {"none", "full", "timer", "final"}
    /\ timer \in {"armed", "fired", "stopped"}
    /\ workerSeen \in 0..QueueCapacity
    /\ depth \in 0..QueueCapacity
    /\ enqueued \in Nat /\ dropped \in Nat /\ persisted \in Nat /\ deadLettered \in Nat
    /\ stored \subseteq Events /\ hourly \in Nat /\ dead \subseteq Events

\* Enqueue never sends on the closed channel: between its check of p.closed and
\* its send no Close gets through, whatever the number of callers.
NoSendOnClosed == \A e \in Events : pc[e] = "admitted" => ~closed

\* Enqueue calls whose outcome is settled.
Decided == {e \in Events : pc[e] \in {"sent", "measured", "accepted", "refused"}}

Finished == worker \in {"exit", "stopped"}

\* Accepted events the pipeline still has to account for.
Pending == IF Finished THEN 0 ELSE Len(queue) + Len(batch)

\* Every offered event is counted exactly once: it is waiting in the pipeline, or
\* in exactly one of the persisted, dead-lettered and dropped counters, also when
\* Close's deadline cancels the worker in the middle of a batch.
EveryEventCountedOnce ==
    Cardinality(Decided) = Pending + persisted + deadLettered + dropped

Ledger == INSTANCE UsageLedger WITH
    Limit <- QueueCapacity + BatchSize, open <- ~closed, pending <- Pending,
    kept <- persisted + deadLettered, dropped <- dropped

\* The pipeline implements UsageLedger: no event is admitted after Close, none is
\* settled twice, at most a batch is settled at a time, and everything pending
\* is given up at once only after Close (WorkerCancelled).
ImplementsLedger == Ledger!Spec

\* No event disappears unseen: events that are in neither table and no longer
\* in the pipeline never outnumber usage_events_dropped_total.
NoSilentLoss ==
    LET held == IF Finished THEN {} ELSE Range(queue) \cup Range(batch)
    IN  Cardinality(Decided \ (stored \cup dead \cup held)) <= dropped

\* Retrying a batch whose first commit was reported as an error counts no event
\* twice in usage_hourly.
HourlyMatchesEvents == hourly = Cardinality(stored)

\* An acknowledged batch really is in its table.
AcknowledgedIsStored ==
    persisted <= Cardinality(stored) /\ deadLettered <= Cardinality(dead)

\* Once the worker has stopped no late Enqueue can overwrite the cleared gauge.
StoppedGaugeIsZero == worker = "stopped" => depth = 0

\* The gauge is the queue length when nothing is in progress (HELP text of
\* gateway_usage_queue_depth: "Usage events currently waiting in the bounded queue.")
IdleGaugeIsExact ==
    worker = "select" /\ WriterMayLock => depth = Len(queue)

\* Enqueue never blocks a request that has come to it, even while the store hangs
\* for ever.
EnqueueReturns ==
    \A e \in Events : WF_vars(Enqueue(e)) => <>(pc[e] \in {"accepted", "refused"})

\* Every Close call returns, even if the store hangs until the deadline.
CloseReturns ==
    \A c \in Closers : closer[c] # "idle" ~> closer[c] \in {"ok", "expired"}

\* With a database that answers every call, with success or an error, every accepted
\* event leaves the pipeline, a partial batch by the flush timer included.
EventsAreFlushed ==
    WF_vars(StoreAnswer) =>
        \A e \in Events : pc[e] = "sent" ~> (Finished \/ e \notin Range(queue) \cup Range(batch))
=============================================================================
