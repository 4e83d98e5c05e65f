---------------------------- MODULE GatewayServer ----------------------------
(***************************************************************************)
(* GatewayProcess with its start and its readiness endpoint: main builds   *)
(* the components one after the other from the environment it reads        *)
(* (Settings), and GET /health/ready pings Redis and PostgreSQL, which     *)
(* come, go and hang, from requests of the same HTTP server that Shutdown  *)
(* waits for.                                                              *)
(*                                                                         *)
(* Definitions whose name ends in _Bug are deliberately wrong variants.    *)
(***************************************************************************)
EXTENDS GatewayProcess, Settings, Sequences

CONSTANTS
    Probes,         \* the requests that are for /health/ready
    Environments    \* the environments in which the process may be started

ASSUME ProbesAssumption == Probes \subseteq Requests

ASSUME EnvironmentsAssumption ==
    \A e \in Environments : e.numbers \in [Numbers -> Int \cup {Unset, Malformed}]

VARIABLES
    stage,      \* what main does next until it serves
    cfg,        \* the configuration, until every component has been built
    refusedBy,  \* what ended the start
    up,         \* which dependencies answer
    checked,    \* per probe: how many dependencies have answered its ping
    answer,     \* per probe: the response
    seenUp      \* per probe: history, the dependencies that were up meanwhile

startVars == <<stage, cfg, refusedBy>>
probeVars == <<checked, answer, seenUp>>
serverVars == <<vars, startVars, up, probeVars>>

readiness == <<"Redis", "PostgreSQL">>
Dependencies == {readiness[i] : i \in 1..Len(readiness)}
Least(a, b) == IF a <= b THEN a ELSE b
NoConfig == [pepper |-> Text("none", 0)]

ServerInit ==
    /\ Init
    /\ stage = "Load" /\ cfg = NoConfig /\ refusedBy = "none"
    /\ up \in [Dependencies -> BOOLEAN]
    /\ checked = [p \in Probes |-> 0]
    /\ answer = [p \in Probes |-> "none"]
    /\ seenUp = [p \in Probes |-> {}]

-----------------------------------------------------------------------------
(* The start of main *)

Built(next) == stage' = next /\ UNCHANGED <<vars, refusedBy>>

Refused == stage' = "refused" /\ refusedBy' = stage /\ cfg' = NoConfig /\ StartFails

Load ==
    /\ stage = "Load"
    /\ \E e \in Environments :
          IF LoadAccepts(e) THEN Built("Open") /\ cfg' = Config(e) ELSE Refused

\* store.Open pings PostgreSQL, which may also be too slow for its ten seconds.
Open ==
    /\ stage = "Open"
    /\ \/ up["PostgreSQL"] /\ Built("NewService") /\ UNCHANGED cfg
       \/ Refused

NewService ==
    /\ stage = "NewService"
    /\ IF NewServiceAccepts(cfg) THEN Built("NewPipeline") /\ UNCHANGED cfg ELSE Refused

NewPipeline ==
    /\ stage = "NewPipeline"
    /\ IF NewPipelineAccepts(cfg) THEN Built("NewHandler") /\ UNCHANGED cfg ELSE Refused

\* The last component; the server starts, or the pipeline is closed again.
NewHandler ==
    /\ stage = "NewHandler" /\ cfg' = NoConfig
    /\ IF NewHandlerAccepts(cfg)
       THEN Serve /\ stage' = "serving" /\ UNCHANGED refusedBy
       ELSE BuildHandlerFails /\ stage' = "refused" /\ refusedBy' = stage

Start ==
    /\ Load \/ Open \/ NewService \/ NewPipeline \/ NewHandler
    /\ UNCHANGED <<up, probeVars>>

-----------------------------------------------------------------------------
(* GET /health/ready *)

Ready(p, n) == checked' = [checked EXCEPT ![p] = n] /\ UNCHANGED <<vars, answer>>

Answered(p, a) ==
    /\ Respond(p) /\ conn'[p] = "done"
    /\ answer' = [answer EXCEPT ![p] = a]
    /\ UNCHANGED checked

ProbeStep == UNCHANGED <<startVars, up, seenUp>>

AcceptProbe(p) ==
    /\ Accept(p)
    /\ seenUp' = [seenUp EXCEPT ![p] = {d \in Dependencies : up[d]}]
    /\ UNCHANGED <<startVars, up, checked, answer>>

\* One round of the loop: the dependency answers the ping.
PingAnswered(p) ==
    /\ Running /\ conn[p] = "handling" /\ checked[p] < Len(readiness)
    /\ up[readiness[checked[p] + 1]]
    /\ Ready(p, checked[p] + 1) /\ ProbeStep

PingFails_Bug(p) ==
    /\ conn[p] = "handling" /\ checked[p] < Len(readiness)
    /\ up[readiness[checked[p] + 1]]
    /\ Answered(p, "not ready") /\ ProbeStep

\* The ping fails at once, or takes longer than a second: the first such dependency
\* decides the answer.
PingFails(p) ==
    /\ conn[p] = "handling" /\ checked[p] < Len(readiness)
    /\ Answered(p, "not ready") /\ ProbeStep

AnswerReady_Bug(p) ==
    /\ conn[p] = "handling" /\ checked[p] = Len(readiness) - 1
    /\ Answered(p, "ready") /\ ProbeStep

AnswerReady(p) ==
    /\ conn[p] = "handling" /\ checked[p] = Len(readiness)
    /\ Answered(p, "ready") /\ ProbeStep

Probe(p) == PingAnswered(p) \/ PingFails(p) \/ AnswerReady(p)

\* A dependency fails or hangs, or recovers.
Change(d) ==
    /\ Running
    /\ up' = [up EXCEPT ![d] = ~@]
    /\ seenUp' = [p \in Probes |->
                    IF conn[p] = "handling" /\ ~up[d] THEN seenUp[p] \cup {d} ELSE seenUp[p]]
    /\ UNCHANGED <<vars, startVars, checked, answer>>

-----------------------------------------------------------------------------
(* The rest of GatewayProcess *)

Shutdown ==
    /\ \/ BeginShutdown \/ ShutdownWaits \/ ShutdownReturns \/ ShutdownExpires
       \/ CloseExpires \/ CloseReturns
    /\ UNCHANGED <<startVars, up, probeVars>>

Others ==
    /\ \/ ListenFails \/ Signal \/ Settle \/ Terminated
       \/ \E r \in Requests \ Probes : Request(r)
    /\ UNCHANGED <<startVars, up, probeVars>>

Cancelled == Abandon /\ UNCHANGED <<startVars, up, probeVars>>

ServerNext ==
    \/ Start \/ Shutdown \/ Others \/ Cancelled
    \/ \E p \in Probes : AcceptProbe(p) \/ Probe(p)
    \/ \E d \in Dependencies : Change(d)

ServerSpec == ServerInit /\ [][ServerNext]_serverVars

\* As in GatewayProcess; besides, store.Open and a ping end by their timeouts.
ServerFairness ==
    /\ WF_serverVars(Start) /\ WF_serverVars(Shutdown) /\ WF_serverVars(Cancelled)
    /\ \A p \in Probes : WF_serverVars(Probe(p))

ServerLiveSpec == ServerSpec /\ ServerFairness

-----------------------------------------------------------------------------
(* Properties *)

\* Load refuses every configuration that a constructor would refuse: after the
\* connection to PostgreSQL, no start fails for a number or a pepper.
ConstructorsAgree == refusedBy \notin {"NewService", "NewPipeline"}

\* For every configuration with which the pipeline's worker runs, the delay before
\* the first retry is the base and that before each further one is twice the one
\* before, but never above thirty seconds and never zero, also for a base above that
\* and however many attempts are configured.
RetryDelayIsCapped ==
    stage = "NewHandler" =>
        \A n \in 1..cfg.numbers.MaxAttempts :
            LET base == cfg.numbers.RetryBaseDelay
                twice == IF n = 1 THEN base ELSE 2 * retryDelay(base, n - 1)
            IN  /\ retryDelay(base, n) = Least(twice, MaximumDelay)
                /\ retryDelay(base, n) > 0

\* A probe that is answered "ready" has seen every dependency up while it ran, and one
\* answered "not ready" had not yet heard from all of them.
ReadyIsWitnessed ==
    \A p \in Probes :
        /\ answer[p] = "ready" => seenUp[p] = Dependencies
        /\ answer[p] = "not ready" => checked[p] < Len(readiness)

\* Every probe is answered, or the process ends, whatever Redis and PostgreSQL do.
ProbeEnds == \A p \in Probes : conn[p] = "handling" ~> (conn[p] = "done" \/ ~Running)
=============================================================================
