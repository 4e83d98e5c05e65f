------------------------- MODULE GatewayServerProofs -------------------------
(***************************************************************************)
(* Proofs about GatewayServer for any requests, probes and environments:   *)
(* it implements GatewayProcess, Load makes the constructors' own checks   *)
(* redundant, and a ready answer is backed by every dependency.            *)
(***************************************************************************)
EXTENDS GatewayServer, GatewayProcessProofs, WellFoundedInduction

\* What Load accepts, the constructors accept.
LEMMA LoadImpliesConstructors ==
    ASSUME NEW e, LoadAccepts(e)
    PROVE  NewServiceAccepts(Config(e)) /\ NewPipelineAccepts(Config(e))
BY DEF LoadAccepts, NewServiceAccepts, NewPipelineAccepts

\* What Load has parsed or replaced by a default is a number.
LEMMA LoadedNumbers ==
    ASSUME NEW e \in Environments, LoadAccepts(e)
    PROVE  Config(e).numbers \in [Numbers -> Int]
<1>1. ASSUME NEW f \in Numbers PROVE Number(e, f) \in Int
  <2>1. e.numbers[f] \in Int \cup {Unset, Malformed} BY EnvironmentsAssumption
  <2>2. e.numbers[f] # Malformed BY DEF LoadAccepts, Parsed
  <2>3. Fallback[f] \in Int BY DEF Numbers, Fallback
  <2> QED BY <2>1, <2>2, <2>3 DEF Number
<1> QED BY <1>1 DEF Config

\* Every step of the server is a step of the process or leaves the process alone.
LEMMA StepImplementsProcess == [ServerNext]_serverVars => [Next]_vars
<1> SUFFICES ASSUME [ServerNext]_serverVars PROVE [Next]_vars OBVIOUS
<1>1. CASE Start
  <2>1. StartFails \/ BuildHandlerFails \/ Serve \/ UNCHANGED vars
    BY <1>1 DEF Start, Load, Open, NewService, NewPipeline, NewHandler, Built, Refused
  <2> QED BY <2>1 DEF Next, Main
<1>2. CASE Shutdown BY <1>2 DEF Shutdown, Next, Main
<1>3. CASE Others BY <1>3 DEF Others, Next
<1>4. CASE Cancelled BY <1>4 DEF Cancelled, Next
<1>5. ASSUME NEW p \in Probes, AcceptProbe(p) \/ Probe(p) PROVE [Next]_vars
  <2>1. p \in Requests BY ProbesAssumption
  <2>2. Accept(p) \/ Respond(p) \/ UNCHANGED vars
    BY <1>5 DEF AcceptProbe, Probe, PingAnswered, PingFails, AnswerReady, Answered, Ready
  <2> QED BY <2>1, <2>2 DEF Next, Request
<1>6. ASSUME NEW d \in Dependencies, Change(d) PROVE [Next]_vars BY <1>6 DEF Change
<1>7. CASE UNCHANGED serverVars BY <1>7 DEF serverVars
<1> QED BY <1>1, <1>2, <1>3, <1>4, <1>5, <1>6, <1>7 DEF ServerNext

-----------------------------------------------------------------------------
(* The start *)

Constructors == {"Open", "NewService", "NewPipeline", "NewHandler"}

\* A configuration that is being used has passed the constructors' checks, and its
\* numbers are numbers.
StartInv ==
    /\ stage \in Constructors => /\ NewServiceAccepts(cfg) /\ NewPipelineAccepts(cfg)
                                 /\ cfg.numbers \in [Numbers -> Int]
    /\ ConstructorsAgree

\* The steps after the start do not touch it.
LEMMA StartInvariance == StartInv /\ [ServerNext]_serverVars => StartInv'
<1> SUFFICES ASSUME StartInv, [ServerNext]_serverVars PROVE StartInv' OBVIOUS
<1> USE DEF StartInv, ConstructorsAgree, Constructors, Built, Refused
<1>1. CASE Start
  <2>1. CASE Load
    <3>1. PICK e \in Environments :
            IF LoadAccepts(e) THEN Built("Open") /\ cfg' = Config(e) ELSE Refused
      BY <2>1 DEF Load
    <3>2. CASE LoadAccepts(e)
      <4>1. /\ NewServiceAccepts(cfg') /\ NewPipelineAccepts(cfg')
            /\ cfg'.numbers \in [Numbers -> Int]
        BY <3>1, <3>2, LoadImpliesConstructors, LoadedNumbers
      <4> QED BY <3>1, <3>2, <4>1 DEF NewServiceAccepts, NewPipelineAccepts
    <3>3. CASE ~LoadAccepts(e) BY <2>1, <3>1, <3>3 DEF Load
    <3> QED BY <3>2, <3>3
  <2>2. CASE Open BY <2>2 DEF Open, NewServiceAccepts, NewPipelineAccepts
  <2>3. CASE NewService BY <2>3 DEF NewService, NewServiceAccepts, NewPipelineAccepts
  <2>4. CASE NewPipeline BY <2>4 DEF NewPipeline, NewServiceAccepts, NewPipelineAccepts
  <2>5. CASE NewHandler BY <2>5 DEF NewHandler
  <2> QED BY <1>1, <2>1, <2>2, <2>3, <2>4, <2>5 DEF Start
<1>2. CASE ~Start
  <2>1. UNCHANGED startVars
    BY <1>2 DEF ServerNext, Shutdown, Others, Cancelled, AcceptProbe, Probe, PingAnswered,
                PingFails, AnswerReady, ProbeStep, Change, serverVars, startVars
  <2> QED BY <2>1 DEF startVars, NewServiceAccepts, NewPipelineAccepts
<1> QED BY <1>1, <1>2

-----------------------------------------------------------------------------
(* Probes *)

Heard(n) == {readiness[i] : i \in 1..n}

\* What a probe has heard it has seen up, and it sees whatever is up now.
ProbeOK(p) ==
    /\ checked[p] \in 0..2 /\ seenUp[p] \subseteq Dependencies
    /\ conn[p] = "new" => checked[p] = 0
    /\ conn[p] \in {"new", "handling"} => answer[p] = "none"
    /\ conn[p] = "handling" => /\ Heard(checked[p]) \subseteq seenUp[p]
                               /\ \A d \in Dependencies : up[d] => d \in seenUp[p]
    /\ answer[p] = "ready" => seenUp[p] = Dependencies
    /\ answer[p] = "not ready" => checked[p] < 2

ProbeInv ==
    /\ checked \in [Probes -> 0..2] /\ answer \in [Probes -> {"none", "ready", "not ready"}]
    /\ seenUp \in [Probes -> SUBSET Dependencies] /\ up \in [Dependencies -> BOOLEAN]
    /\ \A p \in Probes : ProbeOK(p)

\* The dependencies, in the order in which they are pinged.
LEMMA TwoDependencies ==
    /\ Len(readiness) = 2 /\ Dependencies = {readiness[1], readiness[2]}
    /\ Heard(0) = {} /\ Heard(1) = {readiness[1]} /\ Heard(2) = Dependencies
<1>1. Len(readiness) = 2 BY DEF readiness
<1>2. 1..0 = {} /\ 1..1 = {1} /\ 1..2 = {1, 2} OBVIOUS
<1> QED BY <1>1, <1>2 DEF Heard, Dependencies

\* Probes start with nothing heard.
LEMMA ProbeInit == ServerInit => ProbeInv
<1> SUFFICES ASSUME ServerInit PROVE ProbeInv OBVIOUS
<1> USE DEF ServerInit, Init, Handler!Init
<1>1. checked \in [Probes -> 0..2] OBVIOUS
<1>2. \A p \in Probes : ProbeOK(p) BY ProbesAssumption DEF ProbeOK
<1> QED BY <1>1, <1>2 DEF ProbeInv

\* A step that changes none of a probe's state keeps what is known of it.
LEMMA OtherProbe ==
    ASSUME NEW p \in Probes, ProbeOK(p), conn'[p] = conn[p], checked'[p] = checked[p],
           answer'[p] = answer[p], seenUp'[p] = seenUp[p], up' = up
    PROVE  ProbeOK(p)'
BY DEF ProbeOK, Heard

\* A probe that is accepted sees what is up.
LEMMA AcceptPreserves ==
    ASSUME ProcessInv, ProbeInv, NEW p \in Probes, AcceptProbe(p)
    PROVE  ProbeInv'
<1> USE DEF ProbeInv
<1>1. /\ conn' = [conn EXCEPT ![p] = "handling"] /\ conn[p] = "new" /\ p \in DOMAIN conn
      /\ seenUp' = [seenUp EXCEPT ![p] = {d \in Dependencies : up[d]}]
      /\ up' = up /\ checked' = checked /\ answer' = answer
  BY ProbesAssumption DEF AcceptProbe, Accept, Handler!Accept, ProcessInv, TypeOK
<1>2. ASSUME NEW q \in Probes \ {p} PROVE ProbeOK(q)'
  <2>1. conn'[q] = conn[q] /\ seenUp'[q] = seenUp[q]
    BY <1>1, ProbesAssumption DEF ProcessInv, TypeOK
  <2> QED BY <1>1, <2>1, OtherProbe
<1>3. ProbeOK(p)'
  <2>1. /\ checked'[p] = 0 /\ answer'[p] = "none" /\ conn'[p] = "handling"
        /\ seenUp'[p] = {d \in Dependencies : up[d]}
    BY <1>1 DEF ProbeOK
  <2>2. Heard(checked'[p]) = {} BY <2>1, TwoDependencies
  <2> QED BY <1>1, <2>1, <2>2 DEF ProbeOK, Heard
<1>4. seenUp' \in [Probes -> SUBSET Dependencies] BY <1>1
<1> QED BY <1>1, <1>2, <1>3, <1>4

\* A ping that is answered was answered by a dependency that the probe sees up.
LEMMA PingPreserves ==
    ASSUME ProcessInv, ProbeInv, NEW p \in Probes, PingAnswered(p)
    PROVE  ProbeInv'
<1> USE DEF ProbeInv
<1>1. /\ conn' = conn /\ seenUp' = seenUp /\ up' = up /\ answer' = answer
      /\ conn[p] = "handling" /\ checked[p] < 2 /\ up[readiness[checked[p] + 1]]
      /\ checked' = [checked EXCEPT ![p] = checked[p] + 1]
  BY TwoDependencies DEF PingAnswered, Ready, ProbeStep, vars
<1>2. checked[p] \in {0, 1}
  <2>1. checked[p] \in 0..2 /\ checked[p] < 2 BY <1>1
  <2> QED BY ONLY <2>1
<1>3. checked' \in [Probes -> 0..2]
  <2>1. checked[p] + 1 \in 0..2 BY ONLY <1>2
  <2> QED BY <1>1, <2>1
<1>4. ASSUME NEW q \in Probes \ {p} PROVE ProbeOK(q)'
  <2>1. checked'[q] = checked[q] BY <1>1
  <2> QED BY <1>1, <2>1, OtherProbe
<1>5. ProbeOK(p)'
  <2>1. Heard(checked[p] + 1) \subseteq seenUp[p]
    <3>0. /\ Heard(checked[p]) \subseteq seenUp[p]
          /\ \A d \in Dependencies : up[d] => d \in seenUp[p]
      BY <1>1 DEF ProbeOK
    <3>1. CASE checked[p] = 0
      <4>0. checked[p] + 1 = 1 BY ONLY <3>1
      <4>1. up[readiness[1]] /\ Heard(checked[p] + 1) = Heard(1) BY ONLY <1>1, <4>0
      <4> QED BY ONLY <3>0, <4>1, TwoDependencies
    <3>2. CASE checked[p] = 1
      <4>0. checked[p] + 1 = 2 BY ONLY <3>2
      <4>1. up[readiness[2]] /\ Heard(checked[p] + 1) = Heard(2) /\ Heard(1) \subseteq seenUp[p]
        BY ONLY <1>1, <3>0, <3>2, <4>0
      <4> QED BY ONLY <3>0, <4>1, TwoDependencies
    <3> QED BY <1>2, <3>1, <3>2
  <2>2. checked'[p] = checked[p] + 1 /\ checked'[p] \in 0..2 BY <1>1, <1>3
  <2>3. Heard(checked'[p]) \subseteq seenUp'[p] BY <1>1, <2>1, <2>2
  <2> QED BY <1>1, <2>2, <2>3 DEF ProbeOK, Heard
<1> QED BY <1>1, <1>3, <1>4, <1>5

\* An answer matches what the probe has heard.
LEMMA AnswerPreserves ==
    ASSUME ProcessInv, ProbeInv, NEW p \in Probes, PingFails(p) \/ AnswerReady(p)
    PROVE  ProbeInv'
<1> USE DEF ProbeInv
<1>1. /\ seenUp' = seenUp /\ up' = up /\ checked' = checked /\ conn[p] = "handling"
      /\ \/ checked[p] < 2 /\ answer' = [answer EXCEPT ![p] = "not ready"]
         \/ checked[p] = 2 /\ answer' = [answer EXCEPT ![p] = "ready"]
  BY TwoDependencies DEF PingFails, AnswerReady, Answered, ProbeStep
<1>2. conn'[p] = "done" /\ \A q \in Probes \ {p} : conn'[q] = conn[q]
  <2>1. /\ \E s \in {"usage", "done"} : conn' = [conn EXCEPT ![p] = s]
        /\ conn'[p] = "done" /\ conn \in [Requests -> {"new", "handling", "usage", "done"}]
    BY DEF PingFails, AnswerReady, Answered, Respond, Handler!Respond, ProcessInv, TypeOK
  <2> QED BY ProbesAssumption, <2>1
<1>3. ASSUME NEW q \in Probes \ {p} PROVE ProbeOK(q)'
  <2>1. answer'[q] = answer[q] /\ conn'[q] = conn[q] BY <1>1, <1>2
  <2> QED BY <1>1, <2>1, OtherProbe
<1>4. ProbeOK(p)'
  <2>1. checked[p] = 2 => seenUp[p] = Dependencies
    BY <1>1, TwoDependencies DEF ProbeOK
  <2>2. answer'[p] = "not ready" => checked[p] < 2 BY <1>1
  <2>3. answer'[p] = "ready" => checked[p] = 2 BY <1>1
  <2> QED BY <1>1, <1>2, <2>1, <2>2, <2>3 DEF ProbeOK
<1>5. answer' \in [Probes -> {"none", "ready", "not ready"}] BY <1>1
<1> QED BY <1>1, <1>3, <1>4, <1>5

\* A dependency that recovers is seen by the probes under way.
LEMMA ChangePreserves ==
    ASSUME ProbeInv, NEW d \in Dependencies, Change(d)
    PROVE  ProbeInv'
<1> USE DEF ProbeInv
<1>1. /\ conn' = conn /\ checked' = checked /\ answer' = answer
      /\ up' = [up EXCEPT ![d] = ~up[d]]
      /\ seenUp' = [p \in Probes |->
            IF conn[p] = "handling" /\ ~up[d] THEN seenUp[p] \cup {d} ELSE seenUp[p]]
  BY DEF Change, vars
<1>2. up' \in [Dependencies -> BOOLEAN] BY <1>1
<1>3. seenUp' \in [Probes -> SUBSET Dependencies] BY <1>1
<1>4. ASSUME NEW p \in Probes PROVE ProbeOK(p)'
  <2>1. CASE conn[p] = "handling"
    <3>1. seenUp[p] \subseteq seenUp'[p] /\ seenUp'[p] \subseteq Dependencies BY <1>1, <1>3
    <3>2. \A c \in Dependencies : up'[c] => c \in seenUp'[p] BY <1>1, <2>1 DEF ProbeOK
    <3>3. Heard(checked[p]) \subseteq seenUp'[p] BY <2>1, <3>1 DEF ProbeOK
    <3> QED BY <1>1, <2>1, <3>1, <3>2, <3>3 DEF ProbeOK, Heard
  <2>2. CASE conn[p] # "handling"
    <3>1. seenUp'[p] = seenUp[p] BY <1>1, <2>2
    <3> QED BY <1>1, <2>2, <3>1 DEF ProbeOK
  <2> QED BY <2>1, <2>2
<1> QED BY <1>1, <1>2, <1>3, <1>4

\* The other steps leave the probes and the dependencies alone.
LEMMA OthersPreserve ==
    ASSUME ProcessInv, ProbeInv, Start \/ Shutdown \/ Others \/ Cancelled \/ UNCHANGED serverVars
    PROVE  ProbeInv'
<1>1. up' = up /\ checked' = checked /\ answer' = answer /\ seenUp' = seenUp
  BY DEF Start, Shutdown, Others, Cancelled, serverVars, probeVars
<1>2. \A p \in Probes : conn'[p] = conn[p]
  <2>1. CASE Start
    BY <2>1, Zenon DEF Start, Load, Open, NewService, NewPipeline, NewHandler, Built, Refused,
                StartFails, BuildHandlerFails, Serve, vars
  <2>2. CASE Shutdown
    BY <2>2 DEF Shutdown, BeginShutdown, ShutdownWaits, ShutdownReturns, ShutdownExpires,
                CloseExpires, CloseReturns
  <2>3. CASE Others
    <3>1. conn' = conn \/ \E r \in Requests \ Probes : \E s \in {"handling", "usage", "done"} :
                             conn' = [conn EXCEPT ![r] = s]
      BY <2>3 DEF Others, ListenFails, Signal, Settle, Terminated, Request, Accept, Respond,
         OfferUsage, SkipUsage, Handler!Accept, Handler!Respond, Handler!Offer, Handler!Skip, vars
    <3> QED BY <3>1, ProbesAssumption DEF ProcessInv, TypeOK
  <2>4. CASE Cancelled BY <2>4 DEF Cancelled, Abandon
  <2>5. CASE UNCHANGED serverVars BY <2>5 DEF serverVars, vars
  <2> QED BY <2>1, <2>2, <2>3, <2>4, <2>5, SMTT(30)
<1>3. ASSUME NEW p \in Probes PROVE ProbeOK(p)'
  BY <1>1, <1>2, OtherProbe DEF ProbeInv
<1> QED BY <1>1, <1>3 DEF ProbeInv

-----------------------------------------------------------------------------
(* The delay before a retry *)

\* Induction over the naturals, for a set instead of a predicate.
LEMMA SetInduction ==
    ASSUME NEW S, 0 \in S, \A n \in Nat : n \in S => n + 1 \in S
    PROVE  Nat \subseteq S
<1> DEFINE R == OpToRel(<, Nat)
           T == Nat \ S
<1> SUFFICES ASSUME T # {} PROVE FALSE OBVIOUS
<1>1. PICK x \in T : \A y \in T : ~(<<y, x>> \in R)
  <2>1. IsWellFoundedOn(R, Nat) BY NatLessThanWellFounded DEF R
  <2>2. T \subseteq Nat OBVIOUS
  <2> HIDE DEF R, T
  <2> QED BY <2>1, <2>2, WFMin, Zenon
<1>2. \A y \in Nat : y < x => <<y, x>> \in R BY DEF OpToRel
<1> HIDE DEF R
<1>3. x \in Nat /\ x # 0 OBVIOUS
<1>4. x - 1 \in Nat /\ x - 1 < x /\ (x - 1) + 1 = x BY <1>3
<1>5. x - 1 \in S BY <1>1, <1>2, <1>4
<1>6. x \in S BY <1>4, <1>5
<1> QED BY <1>6

\* The equation that defines the successive delays of retryDelay.
IsDelay(delay, base, n) ==
    delay = [i \in 1..n |-> IF i = 1 THEN base ELSE Doubled(delay[i - 1])]

\* The equation has a solution for every number of attempts.
LEMMA DelayExists ==
    ASSUME NEW base, NEW n \in Nat
    PROVE  \E delay : IsDelay(delay, base, n)
<1> DEFINE S == {m \in Nat : \E delay : IsDelay(delay, base, m)}
<1>1. 0 \in S
  <2>1. [i \in 1..0 |-> base] = [i \in 1..0 |-> IF i = 1 THEN base ELSE Doubled([j \in 1..0 |-> base][i - 1])]
    OBVIOUS
  <2>2. IsDelay([i \in 1..0 |-> base], base, 0) BY <2>1 DEF IsDelay
  <2> QED BY <2>2
<1>2. ASSUME NEW m \in Nat, m \in S PROVE m + 1 \in S
  <2>1. PICK d : IsDelay(d, base, m) BY <1>2
  <2> DEFINE next == IF m = 0 THEN base ELSE Doubled(d[m])
             e == [i \in 1..m + 1 |-> IF i = m + 1 THEN next ELSE d[i]]
  <2> HIDE DEF next
  <2>2. ASSUME NEW i \in 1..m + 1 PROVE e[i] = IF i = 1 THEN base ELSE Doubled(e[i - 1])
    <3>1. CASE i = m + 1
      <4>1. CASE m = 0 BY <3>1, <4>1 DEF next
      <4>2. CASE m # 0
        <5>1. i - 1 \in 1..m + 1 /\ i - 1 = m /\ i # 1 /\ m # m + 1 BY <3>1, <4>2
        <5>2. e[i - 1] = d[m] BY <5>1
        <5>3. e[i] = Doubled(d[m]) BY <3>1, <4>2 DEF next
        <5> HIDE DEF e
        <5> QED BY <5>1, <5>2, <5>3
      <4> QED BY <4>1, <4>2
    <3>2. CASE i # m + 1
      <4>1. i \in 1..m /\ e[i] = d[i] BY <3>2
      <4>2. d[i] = IF i = 1 THEN base ELSE Doubled(d[i - 1]) BY <2>1, <4>1 DEF IsDelay
      <4>3. i # 1 => e[i - 1] = d[i - 1] BY <4>1
      <4> HIDE DEF e
      <4> QED BY <4>1, <4>2, <4>3
    <3> QED BY <3>1, <3>2
  <2>3. e = [i \in 1..m + 1 |-> e[i]] OBVIOUS
  <2> HIDE DEF e
  <2>4. IsDelay(e, base, m + 1) BY <2>2, <2>3 DEF IsDelay
  <2> QED BY <2>4
<1> HIDE DEF S
<1>3. n \in S BY <1>1, <1>2, SetInduction
<1> QED BY <1>3 DEF S

\* retryDelay is the last delay of a solution, capped.
LEMMA RetryDelayIs ==
    ASSUME NEW base, NEW n \in Nat
    PROVE  \E delay : /\ IsDelay(delay, base, n)
                      /\ retryDelay(base, n) = IF delay[n] > MaximumDelay THEN MaximumDelay ELSE delay[n]
<1> DEFINE d == CHOOSE delay : IsDelay(delay, base, n)
<1>1. IsDelay(d, base, n) BY DelayExists, Zenon
<1>2. retryDelay(base, n) = IF d[n] > MaximumDelay THEN MaximumDelay ELSE d[n]
  BY DEF retryDelay, IsDelay
<1> QED BY <1>1, <1>2


\* One attempt more does not change the delays before it.
LEMMA DelayAgrees ==
    ASSUME NEW base, NEW n \in Nat, NEW d, NEW e, IsDelay(d, base, n), IsDelay(e, base, n + 1)
    PROVE  \A i \in 1..n : d[i] = e[i]
<1> DEFINE S == {m \in Nat : m \in 1..n => d[m] = e[m]}
<1>1. 0 \in S OBVIOUS
<1>2. ASSUME NEW m \in Nat, m \in S PROVE m + 1 \in S
  <2> SUFFICES ASSUME m + 1 \in 1..n PROVE d[m + 1] = e[m + 1] OBVIOUS
  <2>0. m + 1 \in 1..n + 1 /\ (m + 1) - 1 = m /\ (m + 1 = 1 <=> m = 0) OBVIOUS
  <2>1. d[m + 1] = IF m = 0 THEN base ELSE Doubled(d[m]) BY <2>0 DEF IsDelay
  <2>2. e[m + 1] = IF m = 0 THEN base ELSE Doubled(e[m]) BY <2>0 DEF IsDelay
  <2>3. m # 0 => d[m] = e[m] BY <1>2
  <2> QED BY <2>1, <2>2, <2>3
<1> HIDE DEF S
<1>3. Nat \subseteq S BY <1>1, <1>2, SetInduction
<1> QED BY <1>3 DEF S

\* No delay is zero.
LEMMA DelayPositive ==
    ASSUME NEW base \in Nat \ {0}, NEW n \in Nat, NEW d, IsDelay(d, base, n)
    PROVE  \A i \in 1..n : d[i] \in Nat \ {0}
<1> DEFINE S == {m \in Nat : m \in 1..n => d[m] \in Nat \ {0}}
<1>1. 0 \in S OBVIOUS
<1>2. ASSUME NEW m \in Nat, m \in S PROVE m + 1 \in S
  <2> SUFFICES ASSUME m + 1 \in 1..n PROVE d[m + 1] \in Nat \ {0} OBVIOUS
  <2>0. (m + 1) - 1 = m /\ (m + 1 = 1 <=> m = 0) OBVIOUS
  <2>1. d[m + 1] = IF m = 0 THEN base ELSE Doubled(d[m]) BY <2>0 DEF IsDelay
  <2>2. m # 0 => d[m] \in Nat \ {0} BY <1>2
  <2>3. m # 0 => Doubled(d[m]) \in Nat \ {0} BY <2>2 DEF Doubled, MaximumDelay
  <2> QED BY <2>1, <2>3
<1> HIDE DEF S
<1>3. Nat \subseteq S BY <1>1, <1>2, SetInduction
<1> QED BY <1>3 DEF S

\* The loop's early exits amount to doubling and capping, for every base and attempt.
LEMMA RetryDelayDoubles ==
    ASSUME NEW base \in Nat \ {0}, NEW n \in Nat \ {0}
    PROVE  /\ retryDelay(base, n) \in Nat \ {0}
           /\ retryDelay(base, 1) = Least(base, MaximumDelay)
           /\ retryDelay(base, n + 1) = Least(2 * retryDelay(base, n), MaximumDelay)
<1> DEFINE Capped(x) == IF x > MaximumDelay THEN MaximumDelay ELSE x
<1>1. PICK one : IsDelay(one, base, 1) /\ retryDelay(base, 1) = Capped(one[1])
  BY RetryDelayIs
<1>2. PICK d : IsDelay(d, base, n) /\ retryDelay(base, n) = Capped(d[n])
  BY RetryDelayIs
<1>3. PICK e : IsDelay(e, base, n + 1) /\ retryDelay(base, n + 1) = Capped(e[n + 1])
  BY RetryDelayIs
<1>4. one[1] = base
  <2>1. 1 \in 1..1 OBVIOUS
  <2> QED BY <1>1, <2>1 DEF IsDelay
<1>5. d[n] \in Nat \ {0} /\ d[n] = e[n]
  <2>1. n \in 1..n OBVIOUS
  <2> QED BY <1>2, <1>3, <2>1, DelayPositive, DelayAgrees
<1>6. e[n + 1] = Doubled(d[n])
  <2>1. n + 1 \in 1..n + 1 /\ n + 1 # 1 /\ (n + 1) - 1 = n OBVIOUS
  <2> QED BY <1>3, <1>5, <2>1 DEF IsDelay
<1>7. retryDelay(base, n + 1) = Least(2 * retryDelay(base, n), MaximumDelay)
  BY <1>2, <1>3, <1>5, <1>6 DEF Doubled, Least, MaximumDelay
<1>8. retryDelay(base, n) \in Nat \ {0} BY <1>2, <1>5 DEF MaximumDelay
<1>9. retryDelay(base, 1) = Least(base, MaximumDelay) BY <1>1, <1>4 DEF Least, MaximumDelay
<1> QED BY <1>7, <1>8, <1>9

-----------------------------------------------------------------------------
(* Theorems *)

\* The server with its start sequence and its probes is a GatewayProcess, so that all
\* that is proved of the process holds of it.
THEOREM ServerImplementsProcess == ServerSpec => Spec
<1>1. ServerInit => Init BY DEF ServerInit
<1> QED BY <1>1, StepImplementsProcess, PTL DEF ServerSpec, Spec

\* The server, whatever its configuration, its probes and its dependencies do, closes
\* the pipeline only when no handler can still find it closed.
THEOREM ServerHasNoLateEvent == ServerSpec => []NoLateEvent
BY ServerImplementsProcess, NoLateEventHolds, PTL

\* A server that gets as far as Close leaves no event unaccounted for, and the probes
\* that were under way when the signal came are answered as well.
THEOREM ServerClosedExitSettles == ServerSpec => []ClosedExitSettles
BY ServerImplementsProcess, ClosedExitSettlesHolds, PTL

\* No constructor refuses, after PostgreSQL has been reached, what Load has accepted.
THEOREM ConstructorsAgreeHolds == ServerSpec => []ConstructorsAgree
<1>1. ServerInit => StartInv BY DEF ServerInit, StartInv, ConstructorsAgree, Constructors
<1>2. StartInv => ConstructorsAgree BY DEF StartInv
<1> QED BY <1>1, <1>2, StartInvariance, PTL DEF ServerSpec

\* With every configuration that reaches the pipeline, the delay before a retry doubles
\* up to thirty seconds, however many attempts are configured.
THEOREM RetryDelayIsCappedHolds == ServerSpec => []RetryDelayIsCapped
<1>1. ServerInit => StartInv BY DEF ServerInit, StartInv, ConstructorsAgree, Constructors
<1>2. StartInv => RetryDelayIsCapped
  <2> SUFFICES ASSUME StartInv, stage = "NewHandler", NEW n \in 1..cfg.numbers.MaxAttempts
               PROVE  LET base == cfg.numbers.RetryBaseDelay
                          twice == IF n = 1 THEN base ELSE 2 * retryDelay(base, n - 1)
                      IN  /\ retryDelay(base, n) = Least(twice, MaximumDelay)
                          /\ retryDelay(base, n) > 0
    BY DEF RetryDelayIsCapped
  <2> DEFINE base == cfg.numbers.RetryBaseDelay
  <2>1. base \in Int /\ cfg.numbers.MaxAttempts \in Int /\ base > 0
    BY DEF StartInv, Constructors, NewPipelineAccepts, Numbers, Fallback
  <2>2. base \in Nat \ {0} /\ n \in Nat \ {0} BY <2>1
  <2> HIDE DEF base
  <2>3. retryDelay(base, n) > 0 BY <2>2, RetryDelayDoubles
  <2>4. CASE n = 1 BY <2>2, <2>3, <2>4, RetryDelayDoubles DEF base
  <2>5. CASE n # 1
    <3>1. n - 1 \in Nat \ {0} /\ (n - 1) + 1 = n BY <2>2, <2>5
    <3>2. retryDelay(base, n) = Least(2 * retryDelay(base, n - 1), MaximumDelay)
      BY <2>2, <3>1, RetryDelayDoubles
    <3> QED BY <2>3, <2>5, <3>2 DEF base
  <2> QED BY <2>4, <2>5
<1> QED BY <1>1, <1>2, StartInvariance, PTL DEF ServerSpec

\* A probe answered ready has seen Redis and PostgreSQL up, whenever they change.
THEOREM ReadyIsWitnessedHolds == ServerSpec => []ReadyIsWitnessed
<1>1. ServerInit => ProbeInv BY ProbeInit
<1>2. ProcessInv /\ ProbeInv /\ [ServerNext]_serverVars => ProbeInv'
  BY AcceptPreserves, PingPreserves, AnswerPreserves, ChangePreserves, OthersPreserve
     DEF ServerNext, Probe
<1>3. ProbeInv => ReadyIsWitnessed BY TwoDependencies DEF ProbeInv, ProbeOK, ReadyIsWitnessed
<1> QED BY <1>1, <1>2, <1>3, ServerImplementsProcess, ProcessInvariance, PTL DEF ServerSpec
=============================================================================
