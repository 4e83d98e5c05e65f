------------------------ MODULE GatewayProcessProofs ------------------------
(***************************************************************************)
(* Proofs about GatewayProcess for any finite set of requests and any      *)
(* capacity of the pipeline.                                               *)
(***************************************************************************)
EXTENDS GatewayProcess, FiniteSetTheorems, TLAPS

\* The process has ended exactly when main is there; main listens only while it
\* serves; the pipeline is closed only on the way out.
ControlInv ==
    /\ Running <=> main # "exited"
    /\ Running /\ listening => main = "serving"
    /\ Running /\ ~open => main \in {"abort", "draining"}

\* No request is under way before main serves nor once it has got to Close.
QuietInv ==
    /\ main \in {"start", "abort", "draining"} => Handling = {}
    /\ exit \in {"clean", "usage timeout"} => Handling = {} /\ pending = 0

\* The ledger adds up to the events that requests have offered.
CountInv ==
    /\ \A r \in Requests : conn[r] # "done" => r \notin offered
    /\ pending + kept + dropped = Cardinality(offered)

ProcessInv == TypeOK /\ ControlInv /\ QuietInv /\ CountInv /\ NoLateEvent

\* The numbers of the ledger, apart from the rest of the state.
LEMMA LedgerNumbers ==
    ASSUME ProcessInv
    PROVE  /\ pending \in Int /\ 0 <= pending /\ pending <= Limit /\ Limit \in Nat
           /\ kept \in Nat /\ dropped \in Nat
           /\ pending + kept + dropped = Cardinality(offered)
<1>1. pending \in 0..Limit /\ kept \in Nat /\ dropped \in Nat BY DEF ProcessInv, TypeOK
<1>2. pending + kept + dropped = Cardinality(offered) BY DEF ProcessInv, CountInv
<1>3. Limit \in Nat BY LedgerAssumption
<1> QED BY <1>1, <1>2, <1>3

\* The process starts with an empty ledger and no requests.
LEMMA ProcessInit == Init => ProcessInv
<1> SUFFICES ASSUME Init PROVE ProcessInv OBVIOUS
<1> USE DEF Init, Pipeline!Init, Handler!Init
<1>1. TypeOK
  <2>1. pending \in 0..Limit /\ kept \in Nat /\ dropped \in Nat BY ONLY LedgerAssumption, Init
  <2> QED BY <2>1, Zenon DEF TypeOK
<1>2. ControlInv BY DEF ControlInv, Running
<1>3. QuietInv BY DEF QuietInv, Handling
<1>4. CountInv BY FS_EmptySet DEF CountInv
<1> QED BY <1>1, <1>2, <1>3, <1>4 DEF ProcessInv, NoLateEvent

\* The steps of main, and the signal, leave requests and counts alone.
LEMMA MainPreserves ==
    ProcessInv /\ (Main \/ ListenFails \/ Signal) => ProcessInv'
<1> SUFFICES ASSUME ProcessInv, Main \/ ListenFails \/ Signal PROVE ProcessInv' OBVIOUS
<1> USE DEF ProcessInv, TypeOK, NoLateEvent, Exit, ledger, process, Pipeline!Shut
<1> DEFINE Rest == conn' = conn /\ offered' = offered /\ late' = late
                   /\ pending' = pending /\ kept' = kept /\ dropped' = dropped
<1>0. Rest
  BY DEF Main, StartFails, BuildHandlerFails, Serve, ListenFails, Signal, BeginShutdown,
         ShutdownWaits, ShutdownReturns, ShutdownExpires, CloseExpires, CloseReturns
<1>1. TypeOK'
  BY <1>0 DEF Main, StartFails, BuildHandlerFails, Serve, ListenFails, Signal, BeginShutdown,
         ShutdownWaits, ShutdownReturns, ShutdownExpires, CloseExpires, CloseReturns
<1>2. ControlInv'
  <2> USE DEF ControlInv, Running
  <2>2. CASE StartFails BY <2>2 DEF StartFails
  <2>3. CASE BuildHandlerFails BY <2>3 DEF BuildHandlerFails
  <2>4. CASE Serve BY <2>4 DEF Serve
  <2>5. CASE ListenFails BY <2>5 DEF ListenFails
  <2>6. CASE Signal BY <2>6 DEF Signal
  <2>7. CASE BeginShutdown BY <2>7 DEF BeginShutdown
  <2>8. CASE ShutdownWaits BY <2>8 DEF ShutdownWaits
  <2>9. CASE ShutdownReturns BY <2>9 DEF ShutdownReturns
  <2>10. CASE ShutdownExpires BY <2>10 DEF ShutdownExpires
  <2>11. CASE CloseExpires BY <2>11 DEF CloseExpires
  <2>12. CASE CloseReturns BY <2>12 DEF CloseReturns
  <2> QED BY <2>2, <2>3, <2>4, <2>5, <2>6, <2>7, <2>8, <2>9, <2>10, <2>11, <2>12 DEF Main
<1>3. QuietInv'
  <2>1. Handling' = Handling BY <1>0 DEF Handling
  <2>2. CASE StartFails BY <1>0, <2>1, <2>2 DEF StartFails, QuietInv
  <2>3. CASE BuildHandlerFails BY <1>0, <2>1, <2>3 DEF BuildHandlerFails, QuietInv
  <2>4. CASE Serve BY <1>0, <2>1, <2>4 DEF Serve, QuietInv
  <2>5. CASE ListenFails BY <1>0, <2>1, <2>5 DEF ListenFails, QuietInv
  <2>6. CASE Signal BY <1>0, <2>1, <2>6 DEF Signal, QuietInv
  <2>7. CASE BeginShutdown BY <1>0, <2>1, <2>7 DEF BeginShutdown, QuietInv
  <2>8. CASE ShutdownWaits BY <1>0, <2>1, <2>8 DEF ShutdownWaits, QuietInv
  <2>9. CASE ShutdownReturns BY <1>0, <2>1, <2>9 DEF ShutdownReturns, QuietInv
  <2>10. CASE ShutdownExpires BY <1>0, <2>1, <2>10 DEF ShutdownExpires, QuietInv
  <2>11. CASE CloseExpires BY <1>0, <2>1, <2>11 DEF CloseExpires, QuietInv
  <2>12. CASE CloseReturns BY <1>0, <2>1, <2>12 DEF CloseReturns, QuietInv
  <2> QED BY <2>2, <2>3, <2>4, <2>5, <2>6, <2>7, <2>8, <2>9, <2>10, <2>11, <2>12 DEF Main
<1>4. CountInv' BY <1>0 DEF CountInv
<1> QED BY <1>0, <1>1, <1>2, <1>3, <1>4

\* A request is accepted only while the server listens, that is while main serves.
LEMMA RequestPreserves ==
    ASSUME ProcessInv, NEW r \in Requests, Accept(r) \/ Respond(r) \/ SkipUsage(r)
    PROVE  ProcessInv'
<1> USE DEF ProcessInv, TypeOK, NoLateEvent, ledger, process
<1>0. /\ main' = main /\ exit' = exit /\ listening' = listening /\ signalled' = signalled
      /\ cancelled' = cancelled /\ offered' = offered /\ late' = late
      /\ open' = open /\ pending' = pending /\ kept' = kept /\ dropped' = dropped
  BY DEF Accept, Respond, SkipUsage, Handler!Accept, Handler!Respond, Handler!Skip
<1>1. /\ Running
      /\ \E s \in {"handling", "usage", "done"} : conn' = [conn EXCEPT ![r] = s]
      /\ conn[r] \in {"new", "handling", "usage"}
  BY DEF Accept, Respond, SkipUsage, Handler!Accept, Handler!Respond, Handler!Skip
<1>2. TypeOK' BY <1>0, <1>1
<1>3. ControlInv' BY <1>0 DEF ControlInv, Running
<1>4. main \notin {"start", "abort", "draining"}
  <2>1. CASE Accept(r) BY <2>1 DEF Accept, ControlInv
  <2>2. CASE Respond(r) \/ SkipUsage(r)
    <3>1. r \in Handling
      BY <2>2 DEF Respond, SkipUsage, Handler!Respond, Handler!Skip, Handling
    <3> QED BY <3>1 DEF QuietInv
  <2> QED BY <2>1, <2>2
<1>5. QuietInv' BY <1>0, <1>1, <1>4 DEF QuietInv, Running
<1>6. CountInv' BY <1>0, <1>1 DEF CountInv
<1> QED BY <1>0, <1>2, <1>3, <1>5, <1>6

\* An event is offered while the pipeline is open, and counted once.
LEMMA OfferPreserves ==
    ASSUME ProcessInv, NEW r \in Requests, OfferUsage(r)
    PROVE  ProcessInv'
<1>n. /\ pending \in Int /\ 0 <= pending /\ pending <= Limit /\ Limit \in Nat
      /\ kept \in Nat /\ dropped \in Nat
      /\ pending + kept + dropped = Cardinality(offered)
  BY LedgerNumbers
<1> USE DEF ProcessInv, TypeOK, NoLateEvent, process
<1>0. /\ main' = main /\ exit' = exit /\ listening' = listening /\ signalled' = signalled
      /\ cancelled' = cancelled /\ Running /\ conn[r] = "usage"
      /\ conn' = [conn EXCEPT ![r] = "done"] /\ offered' = offered \cup {r}
  BY DEF OfferUsage, Handler!Offer
<1>1. open' = open /\ kept' = kept
  BY DEF OfferUsage, Pipeline!Admit, Pipeline!Refuse
<1>2. \/ pending < Limit /\ pending' = pending + 1 /\ dropped' = dropped
      \/ pending' = pending /\ dropped' = dropped + 1
  BY DEF OfferUsage, Pipeline!Admit, Pipeline!Refuse
<1>3. r \in Handling BY <1>0 DEF Handling
<1>4. main \notin {"start", "abort", "draining"} BY <1>3 DEF QuietInv
<1>5. open BY <1>0, <1>4 DEF ControlInv
<1>6. late' = {} BY <1>5 DEF OfferUsage
<1>7. TypeOK'
  <2>1. pending' \in 0..Limit /\ dropped' \in Nat BY ONLY <1>n, <1>2
  <2> QED BY <1>0, <1>1, <1>6, <2>1
<1>8. ControlInv' BY <1>0, <1>1 DEF ControlInv, Running
<1>9. QuietInv' BY <1>0, <1>4 DEF QuietInv, Running
<1>10. CountInv'
  <2>1. r \notin offered BY <1>0 DEF CountInv
  <2>2. IsFiniteSet(offered) BY RequestsAssumption, FS_Subset
  <2>3. Cardinality(offered \cup {r}) = Cardinality(offered) + 1
    BY <2>1, <2>2, FS_AddElement
  <2>4. Cardinality(offered) \in Nat BY <2>2, FS_CardinalityType
  <2>5. pending' + kept' + dropped' = Cardinality(offered')
    <3>1. pending' + kept + dropped' = Cardinality(offered) + 1
      BY ONLY <1>n, <1>2, <2>4
    <3> QED BY ONLY <1>0, <1>1, <2>3, <3>1
  <2>6. \A q \in Requests : conn'[q] # "done" => q \notin offered'
    BY <1>0 DEF CountInv
  <2> QED BY <2>5, <2>6 DEF CountInv
<1> QED BY <1>6, <1>7, <1>8, <1>9, <1>10

\* The worker moves events from pending to kept or dropped.
LEMMA WorkerPreserves == ProcessInv /\ (Settle \/ Abandon) => ProcessInv'
<1> SUFFICES ASSUME ProcessInv, Settle \/ Abandon PROVE ProcessInv' OBVIOUS
<1>n. /\ pending \in Int /\ 0 <= pending /\ pending <= Limit /\ Limit \in Nat
      /\ kept \in Nat /\ dropped \in Nat
      /\ pending + kept + dropped = Cardinality(offered)
  BY LedgerNumbers
<1> USE DEF ProcessInv, TypeOK, NoLateEvent, process
<1>0. /\ main' = main /\ exit' = exit /\ listening' = listening /\ signalled' = signalled
      /\ cancelled' = cancelled /\ conn' = conn /\ offered' = offered /\ late' = late /\ Running
  BY DEF Settle, Abandon
<1>1. open' = open BY DEF Settle, Abandon, Pipeline!Settle, Pipeline!Abandon
<1>2. /\ pending' \in 0..Limit /\ kept' \in Nat /\ dropped' \in Nat
      /\ pending' + kept' + dropped' = pending + kept + dropped
  <2>1. CASE Settle
    <3>1. PICK n \in 1..BatchSize :
            /\ n <= pending /\ pending' = pending - n
            /\ (kept' = kept + n /\ dropped' = dropped) \/ (dropped' = dropped + n /\ kept' = kept)
      BY <2>1 DEF Settle, Pipeline!Settle
    <3> QED BY ONLY <1>n, <3>1
  <2>2. CASE Abandon
    <3>1. pending' = 0 /\ dropped' = dropped + pending /\ kept' = kept
      BY <2>2 DEF Abandon, Pipeline!Abandon
    <3> QED BY ONLY <1>n, <3>1
  <2> QED BY <2>1, <2>2
<1>3. TypeOK' BY <1>0, <1>1, <1>2
<1>4. ControlInv' BY <1>0, <1>1 DEF ControlInv, Running
<1>5. Handling' = Handling BY <1>0 DEF Handling
<1>6. QuietInv' BY <1>0, <1>5 DEF QuietInv, Running
<1>7. CountInv' BY <1>0, <1>2 DEF CountInv
<1> QED BY <1>0, <1>3, <1>4, <1>6, <1>7

\* Nothing happens.
LEMMA StutterPreserves == ProcessInv /\ UNCHANGED vars => ProcessInv'
<1> SUFFICES ASSUME ProcessInv, UNCHANGED vars PROVE ProcessInv' OBVIOUS
<1> USE DEF ProcessInv, vars
<1>1. TypeOK' BY DEF TypeOK
<1>2. ControlInv' BY DEF ControlInv, Running
<1>3. QuietInv' BY DEF QuietInv, Handling
<1>4. CountInv' BY DEF CountInv
<1> QED BY <1>1, <1>2, <1>3, <1>4 DEF NoLateEvent

-----------------------------------------------------------------------------
(* Theorems *)

\* The inductive invariant holds throughout the life of the process.
THEOREM ProcessInvariance == Spec => []ProcessInv
<1>1. Init => ProcessInv BY ProcessInit
<1>2. ProcessInv /\ [Next]_vars => ProcessInv'
  BY MainPreserves, RequestPreserves, OfferPreserves, WorkerPreserves, StutterPreserves
     DEF Next, Request, Terminated
<1> QED BY <1>1, <1>2, PTL DEF Spec

\* Whatever main, the requests and the worker do, the pipeline stays within its limit.
THEOREM TypeCorrect == Spec => []TypeOK
<1>1. ProcessInv => TypeOK BY DEF ProcessInv
<1> QED BY <1>1, ProcessInvariance, PTL

\* main's order of Shutdown and Close keeps every event from a closed pipeline.
THEOREM NoLateEventHolds == Spec => []NoLateEvent
<1>1. ProcessInv => NoLateEvent BY DEF ProcessInv
<1> QED BY <1>1, ProcessInvariance, PTL

\* Once main gets to Close, the process ends with every offered event kept or
\* counted as dropped and with no request cut off.
THEOREM ClosedExitSettlesHolds == Spec => []ClosedExitSettles
<1>1. ProcessInv => ClosedExitSettles
  <2> SUFFICES ASSUME ProcessInv, exit \in {"clean", "usage timeout"}
               PROVE  pending = 0 /\ Handling = {} /\ kept + dropped = Cardinality(offered)
    BY DEF ClosedExitSettles
  <2>1. pending = 0 /\ Handling = {} BY DEF ProcessInv, QuietInv
  <2>2. kept + dropped = Cardinality(offered) BY ONLY ProcessInv, <2>1, LedgerNumbers
  <2> QED BY <2>1, <2>2
<1> QED BY <1>1, ProcessInvariance, PTL
=============================================================================
