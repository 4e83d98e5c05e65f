--------------------------- MODULE LoadGenerator ---------------------------
(***************************************************************************)
(* The load generator of cmd/loadgen with --verify-rate-limit, run against *)
(* the bucket of RateLimiter through any number of gateways.  It warms up  *)
(* with one request at a time, measures with Concurrency workers, and then *)
(* judges the bucket by its own clock, which is finer than the Redis one.  *)
(*                                                                         *)
(* A request is known by its index; the warm-up requests come first.  The  *)
(* generator's float64 arithmetic is taken as exact.  The rate-limit       *)
(* headers, which every 200 and 429 of the gateway carries, the upstream   *)
(* counts and the latencies are left out.                                  *)
(***************************************************************************)
EXTENDS RateLimiter, FiniteSets

CONSTANTS
    Requests, Warmup, Concurrency,  \* the options of these names
    Grain,      \* units of the generator's clock in a millisecond: 1000000
    Slack       \* what 0.999999 lacks to 1, in units of Second * Grain: 1000

ASSUME OptionsAssumption ==
    /\ Requests \in Nat \ {0} /\ Warmup \in Nat /\ Concurrency \in Nat \ {0}
    /\ Grain \in Nat \ {0} /\ Slack \in 0..(Second * Grain)

\* The check of the bound allows for less than one request more than the quota, so
\* it needs a rate of which a millisecond refills at most that: 1000 in the code.
ASSUME RateAssumption == RatePerSecond * (Grain - 1) <= Second * Grain - Slack

VARIABLES
    phase,      \* where run stands
    sample,     \* what has become of each request
    sub,        \* the generator's clock, since the latest tick of the Redis clock
    wall        \* the time since wallStarted

clientVars == <<phase, sample, sub, wall>>
loadVars == <<vars, clientVars>>

Warmups == 1..Warmup
Measured == (Warmup + 1)..(Warmup + Requests)
All == Warmups \cup Measured

\* A request is sent; the gateway then answers, by the script's reply if it has
\* one; what the worker makes of the answer is its sample.
Answers == {"allowed", "denied", "unavailable"}
Samples == {"200", "429", "5xx", "error"}

Running == phase \in {"warmup", "measuring"}
Outstanding == {i \in All : sample[i] \in {"sent"} \cup Answers}

LoadInit ==
    /\ Init
    /\ phase = "warmup" /\ sample = [i \in All |-> "queued"] /\ sub = 0 /\ wall = 0

-----------------------------------------------------------------------------
(* The generator *)

Becomes(i, s) == sample' = [sample EXCEPT ![i] = s]

\* The next warm-up request, or the next job that main hands to a free worker.
Send(i) ==
    /\ sample[i] = "queued" /\ \A k \in All : k < i => sample[k] # "queued"
    /\ \/ phase = "warmup" /\ i \in Warmups /\ Outstanding = {}
       \/ phase = "measuring" /\ i \in Measured /\ Cardinality(Outstanding) < Concurrency
    /\ Becomes(i, "sent")
    /\ UNCHANGED <<vars, phase, sub, wall>>

\* The status of an answer; an allowed request can still fail at the upstream.
StatusOf(answer) ==
    CASE answer = "allowed" -> {"200", "5xx"}
      [] answer = "denied" -> {"429"}
      [] answer = "unavailable" -> {"5xx"}

Receive(i) ==
    /\ Running /\ sample[i] \in Answers
    /\ \E s \in StatusOf(sample[i]) : Becomes(i, s)
    /\ UNCHANGED <<vars, phase, sub, wall>>

GiveUp_Bug(i) ==
    /\ Running /\ sample[i] \in Answers
    /\ Becomes(i, "error")
    /\ UNCHANGED <<vars, phase, sub, wall>>

\* client.Do fails, at the latest by the timeout.
GiveUp(i) ==
    /\ Running /\ i \in Outstanding
    /\ Becomes(i, "error")
    /\ UNCHANGED <<vars, phase, sub, wall>>

\* The body cannot be read to its end: a transport error, which ends a warm-up.
BreakOff(i) ==
    /\ Running /\ sample[i] \in Answers
    /\ Becomes(i, "error")
    /\ phase' = IF phase = "warmup" THEN "failed" ELSE phase
    /\ UNCHANGED <<vars, sub, wall>>

\* The samples and the jobs are made and wallStarted is read: a window opens.
Measure ==
    /\ phase = "warmup" /\ \A i \in Warmups : sample[i] \in Samples
    /\ phase' = "measuring" /\ wall' = 0
    /\ OpenWindow
    /\ UNCHANGED <<sample, sub>>

Finish_Bug ==
    /\ phase = "measuring" /\ \A i \in Measured : sample[i] # "queued"
    /\ phase' = "done"
    /\ UNCHANGED <<vars, sample, sub, wall>>

\* The jobs channel is closed and every worker has returned.
Finish ==
    /\ phase = "measuring" /\ \A i \in Measured : sample[i] \in Samples
    /\ phase' = "done"
    /\ UNCHANGED <<vars, sample, sub, wall>>

-----------------------------------------------------------------------------
(* The gateways, Redis and time *)

Serve(i) ==
    /\ Running /\ sample[i] = "sent"
    /\ Allow
    /\ Becomes(i, last'.kind)
    /\ UNCHANGED <<phase, sub, wall>>

\* The gateway answers 503, having no decision.
Fail(i) ==
    /\ Running /\ sample[i] = "sent"
    /\ Becomes(i, "unavailable")
    /\ UNCHANGED <<vars, phase, sub, wall>>

\* A script whose reply nobody uses: the reply was lost and the script is run
\* again, or the client has given up on the request.
Stray ==
    /\ Running /\ \E i \in All : sample[i] \in {"sent", "error"}
    /\ Allow
    /\ UNCHANGED clientVars

\* Redis deletes the expired key.
Delete == Running /\ Expire /\ UNCHANGED clientVars

\* The generator's clock moves; the Redis clock counts whole milliseconds.
Pass ==
    /\ Running
    /\ wall' = IF phase = "measuring" THEN wall + 1 ELSE wall
    /\ IF sub + 1 < Grain THEN sub' = sub + 1 /\ UNCHANGED vars
                          ELSE sub' = 0 /\ Tick
    /\ UNCHANGED <<phase, sample>>

LoadNext ==
    \/ \E i \in All : Send(i) \/ Receive(i) \/ GiveUp(i) \/ BreakOff(i) \/ Serve(i) \/ Fail(i)
    \/ Measure \/ Finish \/ Stray \/ Delete \/ Pass
    \/ ~Running /\ UNCHANGED loadVars

LoadSpec == LoadInit /\ [][LoadNext]_loadVars

\* Workers run and a timeout fires; nothing is assumed of the gateways.
LoadFairness ==
    /\ \A i \in All : WF_loadVars(Send(i)) /\ WF_loadVars(Receive(i) \/ GiveUp(i))
    /\ WF_loadVars(Measure) /\ WF_loadVars(Finish)

LoadLiveSpec == LoadSpec /\ LoadFairness

-----------------------------------------------------------------------------
(* The verdict: NewResult and verify *)

Count(s) == Cardinality({i \in Measured : sample[i] = s})

maximum_Bug == BurstCapacity + (RatePerSecond * wall) \div (Second * Grain)

\* int(rate * seconds + 0.999999), in units of a request
maximum ==
    BurstCapacity + (RatePerSecond * wall + Second * Grain - Slack) \div (Second * Grain)

\* With --allowed-statuses 200,429.
Passed ==
    /\ Count("error") = 0 /\ Count("5xx") = 0
    /\ Count("200") <= maximum /\ Count("200") > 0 /\ Count("429") > 0

-----------------------------------------------------------------------------
(* Properties *)

\* Types; at most Concurrency requests are outstanding however workers interleave.
LoadTypeOK ==
    /\ phase \in {"warmup", "measuring", "done", "failed"}
    /\ sample \in [All -> {"queued", "sent"} \cup Answers \cup Samples]
    /\ sub \in 0..(Grain - 1) /\ wall \in Nat
    /\ Cardinality(Outstanding) <= Concurrency

\* The statistics are made of finished samples only: no worker still writes to
\* samples when run reads it.
SamplesAreComplete == phase = "done" => \A i \in Measured : sample[i] \in Samples

\* A correct bucket is never reported as exceeding its quota: the accepted requests
\* stay within the maximum that verify computes from the generator's clock, however
\* that clock lies to the milliseconds of Redis and whatever warm-up, lost
\* replies and requests that were given up did to the bucket.
BoundIsSound == phase = "done" => Count("200") <= maximum

\* A passed verification speaks for every measured request, and each accepted one
\* was granted a token of its own within the measured window.
VerdictIsSound ==
    phase = "done" /\ Passed =>
        Count("200") + Count("429") = Requests /\ Count("200") <= granted

\* The run ends even if the gateways never answer.
RunEnds == <>(phase \in {"done", "failed"})
=============================================================================
