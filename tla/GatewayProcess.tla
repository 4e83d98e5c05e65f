--------------------------- MODULE GatewayProcess ---------------------------
(***************************************************************************)
(* The life of a gateway process: main of cmd/gateway/main.go, the HTTP    *)
(* server with its request goroutines, and the usage pipeline.             *)
(*                                                                         *)
(* The pipeline appears as UsageLedger, which UsagePipeline is proved to   *)
(* implement, and the requests as RequestLife, which GatewayHandler is     *)
(* proved to implement: what is said here holds of the two components.     *)
(* http.Server is modelled by what main relies on: Shutdown closes the     *)
(* listeners, then waits until no request is being handled, and gives up   *)
(* when its context expires.                                               *)
(*                                                                         *)
(* Definitions whose name ends in _Bug are deliberately wrong variants.    *)
(***************************************************************************)
EXTENDS Integers, FiniteSets

CONSTANTS Requests, Limit, BatchSize

ASSUME LedgerAssumption == Limit \in Nat \ {0} /\ BatchSize \in Nat \ {0}
ASSUME RequestsAssumption == IsFiniteSet(Requests)

VARIABLES
    main,           \* where main is
    exit,           \* how the process ended, "none" while it runs
    listening,      \* the server accepts requests
    signalled,      \* SIGINT or SIGTERM has arrived
    cancelled,      \* the deadline of Close has expired
    conn,           \* per request: what its goroutine is doing
    offered,        \* requests whose event has been offered to the pipeline
    late,           \* those that found the pipeline closed
    open, pending, kept, dropped    \* the pipeline, see UsageLedger

process == <<main, exit, listening, signalled, cancelled>>
ledger == <<open, pending, kept, dropped>>
vars == <<main, exit, listening, signalled, cancelled, conn, offered, late,
          open, pending, kept, dropped>>

Pipeline == INSTANCE UsageLedger
Handler == INSTANCE RequestLife

Running == exit = "none"
Handling == {r \in Requests : conn[r] \in {"handling", "usage"}}

Init ==
    /\ main = "start" /\ exit = "none"
    /\ listening = FALSE /\ signalled = FALSE /\ cancelled = FALSE
    /\ Handler!Init /\ late = {}
    /\ Pipeline!Init

-----------------------------------------------------------------------------
(* main *)

Exit(how) == main' = "exited" /\ exit' = how

\* PostgreSQL cannot be reached, or a component refuses its configuration.
StartFails ==
    /\ main = "start"
    /\ Exit("start failed")
    /\ UNCHANGED <<listening, signalled, cancelled, conn, offered, late, ledger>>

\* NewHandler refuses an upstream URL; the pipeline is running and is closed first.
BuildHandlerFails ==
    /\ main = "start"
    /\ main' = "abort"
    /\ Pipeline!Shut
    /\ UNCHANGED <<exit, listening, signalled, cancelled, conn, offered, late>>

Serve ==
    /\ main = "start"
    /\ main' = "serving" /\ listening' = TRUE
    /\ UNCHANGED <<exit, signalled, cancelled, conn, offered, late, ledger>>

\* ListenAndServe returns an error of its own: os.Exit in its goroutine.
ListenFails ==
    /\ Running /\ listening
    /\ Exit("listen failed")
    /\ UNCHANGED <<listening, signalled, cancelled, conn, offered, late, ledger>>

Signal ==
    /\ main = "serving" /\ ~signalled
    /\ signalled' = TRUE
    /\ UNCHANGED <<main, exit, listening, cancelled, conn, offered, late, ledger>>

BeginShutdown ==
    /\ main = "serving" /\ signalled
    /\ main' = "shutdown" /\ listening' = FALSE
    /\ UNCHANGED <<exit, signalled, cancelled, conn, offered, late, ledger>>

\* Shutdown looks for requests under way before it first looks at its context.
ShutdownWaits ==
    /\ main = "shutdown" /\ Handling # {}
    /\ main' = "waiting"
    /\ UNCHANGED <<exit, listening, signalled, cancelled, conn, offered, late, ledger>>

ShutdownReturns_Bug ==
    /\ main \in {"shutdown", "waiting"}
    /\ main' = "draining"
    /\ Pipeline!Shut
    /\ UNCHANGED <<exit, listening, signalled, cancelled, conn, offered, late>>

\* Shutdown returns nil; main goes on to Close, which stops admission.
ShutdownReturns ==
    /\ main \in {"shutdown", "waiting"} /\ Handling = {}
    /\ main' = "draining"
    /\ Pipeline!Shut
    /\ UNCHANGED <<exit, listening, signalled, cancelled, conn, offered, late>>

ShutdownExpires_Bug == FALSE

\* Shutdown's context expires first: os.Exit without closing the pipeline.
ShutdownExpires ==
    /\ main = "waiting"
    /\ Exit("http timeout")
    /\ UNCHANGED <<listening, signalled, cancelled, conn, offered, late, ledger>>

CloseExpires ==
    /\ main \in {"abort", "draining"} /\ ~cancelled
    /\ cancelled' = TRUE
    /\ UNCHANGED <<main, exit, listening, signalled, conn, offered, late, ledger>>

CloseReturns_Bug ==
    /\ main \in {"abort", "draining"} /\ (pending = 0 \/ cancelled)
    /\ Exit(IF main = "abort" THEN "start failed"
            ELSE IF cancelled THEN "usage timeout" ELSE "clean")
    /\ UNCHANGED <<listening, signalled, cancelled, conn, offered, late, ledger>>

\* Close waits for the worker on both of its paths.
CloseReturns ==
    /\ main \in {"abort", "draining"} /\ pending = 0
    /\ Exit(IF main = "abort" THEN "start failed"
            ELSE IF cancelled THEN "usage timeout" ELSE "clean")
    /\ UNCHANGED <<listening, signalled, cancelled, conn, offered, late, ledger>>

Main ==
    \/ StartFails \/ BuildHandlerFails \/ Serve \/ BeginShutdown
    \/ ShutdownWaits \/ ShutdownReturns \/ ShutdownExpires \/ CloseExpires \/ CloseReturns

-----------------------------------------------------------------------------
(* Requests and the pipeline *)

Accept(r) ==
    /\ Running /\ listening /\ Handler!Accept(r)
    /\ UNCHANGED <<process, late, ledger>>

Respond(r) ==
    /\ Running /\ Handler!Respond(r)
    /\ UNCHANGED <<process, late, ledger>>

OfferUsage(r) ==
    /\ Running /\ Handler!Offer(r)
    /\ late' = IF open THEN late ELSE late \cup {r}
    /\ Pipeline!Admit \/ Pipeline!Refuse
    /\ UNCHANGED process

SkipUsage(r) ==
    /\ Running /\ Handler!Skip(r)
    /\ UNCHANGED <<process, late, ledger>>

Request(r) == Accept(r) \/ Respond(r) \/ OfferUsage(r) \/ SkipUsage(r)

Settle ==
    /\ Running /\ Pipeline!Settle
    /\ UNCHANGED <<process, conn, offered, late>>

Abandon ==
    /\ Running /\ cancelled /\ Pipeline!Abandon
    /\ UNCHANGED <<process, conn, offered, late>>

Terminated == ~Running /\ UNCHANGED vars

Next ==
    \/ Main \/ ListenFails \/ Signal \/ Settle \/ Abandon \/ Terminated
    \/ \E r \in Requests : Request(r)

Spec == Init /\ [][Next]_vars

\* main runs, the two deadlines expire and cancelled storage returns.  Neither the
\* upstreams (handlers) nor the store (Settle) are assumed to answer.
Fairness == WF_vars(Main) /\ WF_vars(Abandon)

LiveSpec == Spec /\ Fairness

-----------------------------------------------------------------------------
(* Properties *)

\* Types: the pipeline main closes never holds more than its limit, and every event
\* that came late was offered by a handler.
TypeOK ==
    /\ main \in {"start", "abort", "serving", "shutdown", "waiting", "draining", "exited"}
    /\ exit \in {"none", "start failed", "listen failed", "http timeout", "usage timeout", "clean"}
    /\ listening \in BOOLEAN /\ signalled \in BOOLEAN /\ cancelled \in BOOLEAN
    /\ conn \in [Requests -> {"new", "handling", "usage", "done"}]
    /\ offered \subseteq Requests /\ late \subseteq offered
    /\ open \in BOOLEAN /\ pending \in 0..Limit /\ kept \in Nat /\ dropped \in Nat

\* main closes the pipeline after Shutdown, so no handler ever finds it closed.
NoLateEvent == late = {}

\* When main gets as far as Close, no event is left behind: everything offered since
\* the process started has been kept or counted as dropped, and no request was cut
\* off, whether Close made it in time or not.
ClosedExitSettles ==
    exit \in {"clean", "usage timeout"} =>
        /\ pending = 0 /\ Handling = {}
        /\ kept + dropped = Cardinality(offered)

\* The two shutdown timeouts bound the shutdown, whatever upstreams and storage do.
ShutdownEnds == signalled ~> ~Running

\* A shutdown drains the queue or counts what it could not store, as
\* docs/usage-logging.md says, also when requests outlast the HTTP timeout.
ShutdownSettles ==
    exit \in {"clean", "usage timeout", "http timeout"} => pending = 0
=============================================================================
