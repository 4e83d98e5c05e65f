------------------------ MODULE LoadGeneratorProofs ------------------------
(***************************************************************************)
(* The load generator's bound on accepted requests is sound for every      *)
(* policy of at most 1000 requests a second (RateAssumption), every number *)
(* of requests and workers, and every position of the two clocks.          *)
(***************************************************************************)
EXTENDS LatencySummary, RateLimiterProofs, FiniteSetTheorems

\* Measured requests that were granted a token or are still to be told so.
Accepted == {i \in Measured : sample[i] \in {"allowed", "200"}}

LoadTypes ==
    /\ phase \in {"warmup", "measuring", "done", "failed"}
    /\ sample \in [All -> {"queued", "sent"} \cup Answers \cup Samples]
    /\ sub \in 0..(Grain - 1) /\ wall \in Nat

\* Nothing is measured before the window opens.
WarmupInv == phase = "warmup" => \A i \in Measured : sample[i] = "queued"

\* The Redis clock has ticked at most once more than the generator's clock tells.
ClockInv ==
    phase \in {"measuring", "done"} => elapsed * Grain + sub <= wall + Grain - 1

AcceptInv == phase \in {"measuring", "done"} => Cardinality(Accepted) <= granted

LoadInv ==
    /\ BucketInv /\ LoadTypes /\ WarmupInv /\ ClockInv /\ AcceptInv
    /\ SamplesAreComplete

-----------------------------------------------------------------------------
(* The bucket within the composition *)

\* Every step of the composition is a step of RateLimiter or leaves it alone.
LEMMA BucketStep == [LoadNext]_loadVars => [Next]_vars
<1> SUFFICES ASSUME [LoadNext]_loadVars PROVE [Next]_vars OBVIOUS
<1>1. ASSUME NEW i \in All, Send(i) \/ Receive(i) \/ GiveUp(i) \/ BreakOff(i) \/ Fail(i)
      PROVE  UNCHANGED vars
  BY <1>1 DEF Send, Receive, GiveUp, BreakOff, Fail
<1>2. ASSUME NEW i \in All, Serve(i) PROVE Next BY <1>2 DEF Serve, Next
<1>3. CASE Measure BY <1>3 DEF Measure, Next
<1>4. CASE Finish BY <1>4 DEF Finish
<1>5. CASE Stray BY <1>5 DEF Stray, Next
<1>6. CASE Delete BY <1>6 DEF Delete, Next
<1>7. CASE Pass BY <1>7 DEF Pass, Next
<1>8. CASE UNCHANGED loadVars BY <1>8 DEF loadVars
<1> QED BY <1>1, <1>2, <1>3, <1>4, <1>5, <1>6, <1>7, <1>8 DEF LoadNext

\* The bucket under load is the bucket of RateLimiter, so that whatever is proved
\* of the latter holds here.
THEOREM ImplementsRateLimiter == LoadSpec => Spec
<1>1. LoadInit => Init BY DEF LoadInit
<1> QED BY <1>1, BucketStep, PTL DEF LoadSpec, Spec

\* The bucket that the load generator drives, warm-up, stray requests and the deletion
\* of its key included, grants no more than its quota.
THEOREM LoadWithinQuota == LoadSpec => []WithinQuota
BY ImplementsRateLimiter, WithinQuotaHolds, PTL

-----------------------------------------------------------------------------
(* Sets of requests *)

\* The sets of indices are finite.
LEMMA MeasuredFinite == IsFiniteSet(Measured) /\ Cardinality(Measured) = Requests
<1> DEFINE a == Warmup + 1
           b == Warmup + Requests
<1>1. a \in Int /\ b \in Int /\ ~(a > b) /\ b - a + 1 = Requests BY OptionsAssumption
<1>2. Measured = a..b BY DEF Measured
<1> HIDE DEF a, b
<1>3. IsFiniteSet(a..b) BY <1>1, FS_Interval
<1>4. Cardinality(a..b) = IF a > b THEN 0 ELSE b - a + 1 BY <1>1, FS_Interval
<1> QED BY <1>1, <1>2, <1>3, <1>4

\* A set of measured requests that gains at most one member.
LEMMA GainOne ==
    ASSUME NEW S \in SUBSET Measured, NEW T, NEW i, T \subseteq S \cup {i}
    PROVE  Cardinality(T) <= Cardinality(S) + 1 /\ Cardinality(T) \in Nat /\ Cardinality(S) \in Nat
<1>1. IsFiniteSet(S) BY MeasuredFinite, FS_Subset
<1>2. IsFiniteSet(S \cup {i}) /\ Cardinality(S \cup {i}) \in {Cardinality(S), Cardinality(S) + 1}
  BY <1>1, FS_AddElement
<1>3. IsFiniteSet(T) /\ Cardinality(T) <= Cardinality(S \cup {i}) BY <1>2, FS_Subset
<1>4. Cardinality(S) \in Nat /\ Cardinality(T) \in Nat BY <1>1, <1>3, FS_CardinalityType
<1> QED BY <1>2, <1>3, <1>4

\* A set of measured requests that gains none.
LEMMA GainNone ==
    ASSUME NEW S \in SUBSET Measured, NEW T, T \subseteq S
    PROVE  Cardinality(T) <= Cardinality(S) /\ Cardinality(T) \in Nat /\ Cardinality(S) \in Nat
<1>1. IsFiniteSet(S) BY MeasuredFinite, FS_Subset
<1>2. IsFiniteSet(T) /\ Cardinality(T) <= Cardinality(S) BY <1>1, FS_Subset
<1> QED BY <1>1, <1>2, FS_CardinalityType

-----------------------------------------------------------------------------
(* The invariant *)

\* No request has been sent and no time measured.
LEMMA LoadInitial == LoadInit => LoadInv
<1> SUFFICES ASSUME LoadInit PROVE LoadInv OBVIOUS
<1>1. BucketInv BY BucketInit DEF LoadInit
<1>2. phase = "warmup" /\ sample = [i \in All |-> "queued"] /\ sub = 0 /\ wall = 0
  BY DEF LoadInit
<1>3. LoadTypes
  <2>1. sub \in 0..(Grain - 1) /\ wall \in Nat BY <1>2, OptionsAssumption
  <2> QED BY <1>2, <2>1 DEF LoadTypes
<1>4. WarmupInv BY <1>2 DEF WarmupInv, All
<1> QED BY <1>1, <1>2, <1>3, <1>4 DEF LoadInv, ClockInv, AcceptInv, SamplesAreComplete

\* A step of one request, which takes no time, preserves the invariant if a token
\* is granted with every "allowed" that it adds.
LEMMA RequestStep ==
    ASSUME LoadInv, BucketInv', NEW i \in All,
           NEW s \in {"queued", "sent"} \cup Answers \cup Samples, Running,
           sample[i] # "queued" \/ phase = "measuring" \/ i \in Warmups,
           Becomes(i, s), phase' \in {phase, "failed"}, sub' = sub, wall' = wall,
           elapsed' = elapsed, granted' \in {granted, granted + 1},
           s \in {"allowed", "200"} /\ sample[i] \notin {"allowed", "200"}
               => granted' = granted + 1
    PROVE  LoadInv'
<1>1. sample' = [sample EXCEPT ![i] = s] /\ sample \in [All -> {"queued", "sent"} \cup Answers \cup Samples]
  BY DEF Becomes, LoadInv, LoadTypes
<1>2. LoadTypes'
  <2>1. sample' \in [All -> {"queued", "sent"} \cup Answers \cup Samples] BY ONLY <1>1
  <2> QED BY <2>1 DEF LoadInv, LoadTypes
<1>3. WarmupInv'
  <2>1. i \in Warmups => i \notin Measured BY OptionsAssumption DEF Warmups, Measured
  <2>2. phase' = "warmup" => phase = "warmup" OBVIOUS
  <2> QED BY <1>1, <2>1, <2>2 DEF LoadInv, WarmupInv, All
<1>4. phase' \in {"measuring", "done"} => phase = "measuring" /\ phase' = "measuring"
  BY DEF Running
<1>5. ClockInv' BY <1>4 DEF LoadInv, ClockInv
<1>6. AcceptInv'
  <2> SUFFICES ASSUME phase = "measuring" PROVE Cardinality(Accepted') <= granted'
    BY <1>4 DEF AcceptInv
  <2>1. Cardinality(Accepted) <= granted BY DEF LoadInv, AcceptInv
  <2>2. granted \in Nat BY DEF LoadInv, BucketInv, TypeOK
  <2>3. Accepted \in SUBSET Measured BY DEF Accepted
  <2>4. CASE granted' = granted + 1
    <3>1. Accepted' \subseteq Accepted \cup {i} BY <1>1 DEF Accepted, All
    <3>2. Cardinality(Accepted') <= Cardinality(Accepted) + 1 /\ Cardinality(Accepted') \in Nat
          /\ Cardinality(Accepted) \in Nat
      BY <2>3, <3>1, GainOne, Zenon
    <3> QED BY <2>1, <2>2, <2>4, <3>2
  <2>5. CASE granted' = granted
    <3>0. s \in {"allowed", "200"} => sample[i] \in {"allowed", "200"} BY <2>2, <2>5
    <3>1. Accepted' \subseteq Accepted BY <1>1, <3>0 DEF Accepted, All
    <3>2. Cardinality(Accepted') <= Cardinality(Accepted) /\ Cardinality(Accepted') \in Nat
          /\ Cardinality(Accepted) \in Nat
      BY <2>3, <3>1, GainNone
    <3> QED BY <2>1, <2>2, <2>5, <3>2
  <2> QED BY <2>4, <2>5
<1>7. SamplesAreComplete' BY <1>4 DEF SamplesAreComplete
<1> QED BY <1>2, <1>3, <1>5, <1>6, <1>7 DEF LoadInv

\* A step that changes no sample and grants or keeps what was granted.
LEMMA QuietStep ==
    ASSUME LoadInv, BucketInv', sample' = sample, phase' = phase, LoadTypes', ClockInv',
           granted' \in {granted, granted + 1}
    PROVE  LoadInv'
<1>1. granted \in Nat BY DEF LoadInv, BucketInv, TypeOK
<1>2. Accepted' = Accepted BY DEF Accepted
<1>3. Cardinality(Accepted) \in Nat
  <2>1. Accepted \in SUBSET Measured /\ Accepted \subseteq Accepted BY DEF Accepted
  <2> QED BY <2>1, GainNone
<1>4. AcceptInv' BY <1>1, <1>2, <1>3 DEF LoadInv, AcceptInv
<1>5. WarmupInv' /\ SamplesAreComplete' BY DEF LoadInv, WarmupInv, SamplesAreComplete
<1> QED BY <1>4, <1>5 DEF LoadInv

\* The script grants at most one request, and then says so.
LEMMA AllowGrants ==
    ASSUME TypeOK, Allow
    PROVE  /\ granted' \in {granted, granted + 1} /\ elapsed' = elapsed
           /\ last'.kind \in {"allowed", "denied"}
           /\ last'.kind = "allowed" => granted' = granted + 1
<1> DEFINE allowed == Refilled >= cost
<1>1. granted' = (IF allowed THEN granted + 1 ELSE granted) /\ elapsed' = elapsed
      /\ last'.kind = (IF allowed THEN "allowed" ELSE "denied")
  BY DEF Allow
<1> HIDE DEF allowed
<1> QED BY <1>1

\* Every step of the composition preserves the invariant.
LEMMA LoadStep == LoadInv /\ BucketInv' /\ [LoadNext]_loadVars => LoadInv'
<1> SUFFICES ASSUME LoadInv, BucketInv', [LoadNext]_loadVars PROVE LoadInv' OBVIOUS
<1>0. TypeOK /\ LoadTypes /\ granted \in Nat /\ elapsed \in Nat
  BY DEF LoadInv, BucketInv, TypeOK
<1>1. ASSUME NEW i \in All, Send(i) PROVE LoadInv'
  <2>1. Running /\ sub' = sub /\ wall' = wall /\ phase' = phase BY <1>1 DEF Send, Running
  <2>2. granted' = granted /\ elapsed' = elapsed BY <1>1 DEF Send, vars
  <2>3. Becomes(i, "sent") /\ (phase = "measuring" \/ i \in Warmups) BY <1>1 DEF Send
  <2> QED BY <2>1, <2>2, <2>3, RequestStep
<1>2. ASSUME NEW i \in All, Receive(i) PROVE LoadInv'
  <2>1. Running /\ sub' = sub /\ wall' = wall /\ phase' = phase /\ sample[i] \in Answers
    BY <1>2 DEF Receive
  <2>2. granted' = granted /\ elapsed' = elapsed BY <1>2 DEF Receive, vars
  <2>3. PICK s \in StatusOf(sample[i]) : Becomes(i, s) BY <1>2 DEF Receive
  <2>4. s \in Samples /\ (s = "200" => sample[i] = "allowed") /\ s # "allowed"
    BY <2>1, <2>3 DEF StatusOf, Answers, Samples
  <2>5. sample[i] # "queued" BY <2>1 DEF Answers
  <2> QED BY <2>1, <2>2, <2>3, <2>4, <2>5, RequestStep, Zenon
<1>3. ASSUME NEW i \in All, GiveUp(i) \/ BreakOff(i) PROVE LoadInv'
  <2>1. Running /\ sub' = sub /\ wall' = wall /\ phase' \in {phase, "failed"}
    BY <1>3 DEF GiveUp, BreakOff
  <2>2. granted' = granted /\ elapsed' = elapsed BY <1>3 DEF GiveUp, BreakOff, vars
  <2>3. Becomes(i, "error") /\ sample[i] # "queued"
    BY <1>3 DEF GiveUp, BreakOff, Outstanding, Answers
  <2>4. "error" \in Samples BY DEF Samples
  <2> QED BY <2>1, <2>2, <2>3, <2>4, RequestStep
<1>4. ASSUME NEW i \in All, Serve(i) PROVE LoadInv'
  <2>1. Running /\ sub' = sub /\ wall' = wall /\ phase' = phase /\ sample[i] = "sent"
    BY <1>4 DEF Serve
  <2>2. /\ granted' \in {granted, granted + 1} /\ elapsed' = elapsed
        /\ last'.kind \in {"allowed", "denied"}
        /\ last'.kind = "allowed" => granted' = granted + 1
    BY <1>0, <1>4, AllowGrants DEF Serve
  <2>3. Becomes(i, last'.kind) BY <1>4 DEF Serve
  <2>4. CASE last'.kind = "allowed"
    <3>1. Becomes(i, "allowed") BY <2>3, <2>4 DEF Becomes
    <3> QED BY <2>1, <2>2, <2>4, <3>1, RequestStep DEF Answers
  <2>5. CASE last'.kind = "denied"
    <3>1. Becomes(i, "denied") BY <2>3, <2>5 DEF Becomes
    <3> QED BY <2>1, <2>2, <2>5, <3>1, RequestStep DEF Answers
  <2> QED BY <2>2, <2>4, <2>5
<1>5. ASSUME NEW i \in All, Fail(i) PROVE LoadInv'
  <2>1. Running /\ sub' = sub /\ wall' = wall /\ phase' = phase /\ sample[i] = "sent"
        /\ Becomes(i, "unavailable")
    BY <1>5 DEF Fail
  <2>2. granted' = granted /\ elapsed' = elapsed BY <1>5 DEF Fail, vars
  <2> QED BY <2>1, <2>2, RequestStep DEF Answers
<1>6. CASE Measure
  <2>1. /\ phase = "warmup" /\ phase' = "measuring" /\ wall' = 0 /\ sub' = sub
        /\ sample' = sample /\ granted' = 0 /\ elapsed' = 0
    BY <1>6 DEF Measure, OpenWindow
  <2>2. LoadTypes' BY <1>0, <2>1 DEF LoadTypes
  <2>3. Accepted' = {} BY <2>1 DEF Accepted, LoadInv, WarmupInv
  <2>4. AcceptInv' BY <2>1, <2>3, FS_EmptySet DEF AcceptInv
  <2>5. ClockInv'
    <3>1. 0 * Grain + sub <= 0 + Grain - 1 BY <1>0, OptionsAssumption DEF LoadTypes
    <3> QED BY <2>1, <3>1 DEF ClockInv
  <2> QED BY <2>1, <2>2, <2>4, <2>5 DEF LoadInv, WarmupInv, SamplesAreComplete
<1>7. CASE Finish
  <2>1. /\ phase = "measuring" /\ phase' = "done" /\ wall' = wall /\ sub' = sub
        /\ sample' = sample /\ granted' = granted /\ elapsed' = elapsed
        /\ \A i \in Measured : sample[i] \in Samples
    BY <1>7 DEF Finish, vars
  <2>2. LoadTypes' BY <1>0, <2>1 DEF LoadTypes
  <2>3. Accepted' = Accepted BY <2>1 DEF Accepted
  <2> QED BY <2>1, <2>2, <2>3 DEF LoadInv, WarmupInv, SamplesAreComplete, ClockInv, AcceptInv
<1>8. CASE Stray
  <2>1. phase' = phase /\ wall' = wall /\ sub' = sub /\ sample' = sample
    BY <1>8 DEF Stray, clientVars
  <2>2. granted' \in {granted, granted + 1} /\ elapsed' = elapsed
    BY <1>0, <1>8, AllowGrants DEF Stray
  <2>3. LoadTypes' /\ ClockInv' BY <1>0, <2>1, <2>2 DEF LoadTypes, LoadInv, ClockInv
  <2> QED BY <2>1, <2>2, <2>3, QuietStep
<1>9. CASE Delete
  <2>1. phase' = phase /\ wall' = wall /\ sub' = sub /\ sample' = sample
        /\ granted' = granted /\ elapsed' = elapsed
    BY <1>9 DEF Delete, Expire, clientVars
  <2>3. LoadTypes' /\ ClockInv' BY <1>0, <2>1 DEF LoadTypes, LoadInv, ClockInv
  <2> QED BY <2>1, <2>3, QuietStep
<1>10. CASE Pass
  <2>1. phase' = phase /\ sample' = sample /\ Running
        /\ wall' = IF phase = "measuring" THEN wall + 1 ELSE wall
    BY <1>10 DEF Pass
  <2>2. \/ sub + 1 < Grain /\ sub' = sub + 1 /\ elapsed' = elapsed /\ granted' = granted
        \/ sub + 1 >= Grain /\ sub' = 0 /\ elapsed' = elapsed + 1 /\ granted' = granted
    BY <1>0, <1>10, OptionsAssumption DEF Pass, Tick, vars, LoadTypes
  <2>3. LoadTypes'
    <3>1. sub' \in 0..(Grain - 1) BY <1>0, <2>2, OptionsAssumption DEF LoadTypes
    <3>2. wall' \in Nat BY <1>0, <2>1 DEF LoadTypes
    <3> QED BY <1>0, <2>1, <3>1, <3>2 DEF LoadTypes
  <2>4. ClockInv'
    <3> SUFFICES ASSUME phase = "measuring"
                 PROVE  elapsed' * Grain + sub' <= wall' + Grain - 1
      BY <2>1 DEF ClockInv, Running
    <3>1. elapsed * Grain + sub <= wall + Grain - 1 BY DEF LoadInv, ClockInv
    <3>2. elapsed * Grain \in Int /\ sub \in Int /\ sub <= Grain - 1 /\ wall \in Nat /\ Grain \in Nat
      BY <1>0, OptionsAssumption DEF LoadTypes
    <3>3. (elapsed + 1) * Grain = elapsed * Grain + Grain BY <1>0, <3>2, MultSuccessor
    <3>4. wall' = wall + 1 BY <2>1
    <3>5. CASE sub' = sub + 1 /\ elapsed' = elapsed BY <3>1, <3>2, <3>4, <3>5
    <3>6. CASE sub + 1 >= Grain /\ sub' = 0 /\ elapsed' = elapsed + 1
      <4>1. (elapsed + 1) * Grain + 0 <= (wall + 1) + Grain - 1 BY <3>1, <3>2, <3>3, <3>6
      <4> QED BY <3>4, <3>6, <4>1
    <3> QED BY <2>2, <3>5, <3>6
  <2> QED BY <2>1, <2>2, <2>3, <2>4, QuietStep
<1>11. CASE UNCHANGED loadVars
  <2>1. phase' = phase /\ wall' = wall /\ sub' = sub /\ sample' = sample
        /\ granted' = granted /\ elapsed' = elapsed
    BY <1>11 DEF loadVars, vars, clientVars
  <2>2. LoadTypes' /\ ClockInv' BY <1>0, <2>1 DEF LoadTypes, LoadInv, ClockInv
  <2> QED BY <2>1, <2>2, QuietStep
<1> QED BY <1>1, <1>2, <1>3, <1>4, <1>5, <1>6, <1>7, <1>8, <1>9, <1>10, <1>11 DEF LoadNext

\* The composition's invariant holds in every reachable state.
THEOREM LoadInvariance == LoadSpec => []LoadInv
<1>1. LoadSpec => []BucketInv BY ImplementsRateLimiter, BucketInvariance, PTL
<1>2. LoadInit => LoadInv BY LoadInitial
<1> QED BY <1>1, <1>2, LoadStep, PTL DEF LoadSpec

-----------------------------------------------------------------------------
(* The verdict *)

\* A quotient is at least every number whose product fits.
LEMMA DivBound ==
    ASSUME NEW a \in Nat, NEW b \in Nat \ {0}, NEW n \in Int, n * b <= a
    PROVE  n <= a \div b
<1> DEFINE q == a \div b
           r == a % b
<1>1. q \in Int /\ r \in 0..(b - 1) /\ a = b * q + r BY DivMod
<1> HIDE DEF q, r
<1>2. ASSUME q + 1 <= n PROVE FALSE
  <2>1. (q + 1) * b <= n * b BY <1>1, <1>2, MultMonotonic
  <2>2. (q + 1) * b = q * b + b BY <1>1, MultSuccessor
  <2>3. q * b + b <= b * q + r BY <1>1, <2>1, <2>2
  <2> QED BY <1>1, <2>3
<1>3. n <= q BY <1>1, <1>2
<1> QED BY <1>3 DEF q

\* The quota in whole requests: what was granted beyond the burst took the Redis
\* clock at least so many milliseconds.
LEMMA GrantedInTime ==
    ASSUME BucketInv
    PROVE  granted * Second <= BurstCapacity * Second + RatePerSecond * elapsed
<1> DEFINE q == MicroToken \div Second
           lhs == granted * Second
           rhs == BurstCapacity * Second + RatePerSecond * elapsed
<1>1. q \in Nat \ {0} /\ MicroToken = Second * q BY UnitFacts
<1>2. granted \in Nat /\ elapsed \in Nat BY DEF BucketInv, TypeOK
<1>3. granted * MicroToken <= capacity + refill_per_ms * elapsed
  <2>1. Refilled \in 0..capacity BY RefilledType DEF BucketInv
  <2>2. granted * MicroToken \in Int /\ refill_per_ms * elapsed \in Int
    BY <1>2, PolicyAssumption, PolicyFacts
  <2> QED BY <2>1, <2>2, PolicyFacts DEF BucketInv, QuotaInv
<1>4. capacity = BurstCapacity * (Second * q) /\ refill_per_ms = RatePerSecond * q
  BY <1>1 DEF capacity, CapacityOf, refill_per_ms, RefillOf
<1> HIDE DEF q
<1>5. granted * (Second * q) <= BurstCapacity * (Second * q) + (RatePerSecond * q) * elapsed
  BY <1>1, <1>3, <1>4
<1>6. lhs \in Int /\ rhs \in Int BY <1>2, PolicyAssumption
<1>7. lhs * q = granted * (Second * q) BY <1>1, <1>2, PolicyAssumption
<1>8. rhs * q = BurstCapacity * (Second * q) + (RatePerSecond * q) * elapsed
  BY <1>1, <1>2, PolicyAssumption
<1> HIDE DEF lhs, rhs
<1>9. lhs * q <= rhs * q BY <1>5, <1>7, <1>8
<1>10. ASSUME rhs + 1 <= lhs PROVE FALSE
  <2>1. (rhs + 1) * q <= lhs * q BY <1>1, <1>6, <1>10, MultMonotonic
  <2>2. (rhs + 1) * q = rhs * q + q BY <1>1, <1>6, MultSuccessor
  <2>3. rhs * q \in Int /\ lhs * q \in Int BY <1>1, <1>6
  <2> QED BY <1>1, <1>9, <2>1, <2>2, <2>3
<1>11. lhs <= rhs BY <1>6, <1>10
<1> QED BY <1>11 DEF lhs, rhs

\* Whatever the bucket granted in the measured window is within verify's maximum.
LEMMA GrantedWithinMaximum ==
    ASSUME LoadInv, phase = "done"
    PROVE  granted <= maximum
<1> DEFINE n == granted - BurstCapacity
           unit == Second * Grain
           room == RatePerSecond * wall + unit - Slack
<1>1. /\ granted \in Nat /\ elapsed \in Nat /\ wall \in Nat /\ sub \in Nat
      /\ Second \in Nat \ {0} /\ Grain \in Nat \ {0} /\ RatePerSecond \in Nat \ {0}
      /\ BurstCapacity \in Nat
  BY PolicyAssumption, OptionsAssumption DEF LoadInv, BucketInv, TypeOK, LoadTypes
<1>2. unit \in Nat \ {0} BY <1>1
<1>3. Slack \in Nat /\ Slack <= unit BY <1>2, OptionsAssumption
<1>4. RatePerSecond * wall \in Nat BY <1>1
<1>5. RatePerSecond * (Grain - 1) <= unit - Slack BY RateAssumption
<1>6. maximum = BurstCapacity + (room \div unit) BY DEF maximum
<1>7. n * Second <= RatePerSecond * elapsed
  <2>1. granted * Second <= BurstCapacity * Second + RatePerSecond * elapsed
    BY GrantedInTime DEF LoadInv
  <2>2. n * Second = granted * Second - BurstCapacity * Second BY <1>1
  <2> QED BY <1>1, <2>1, <2>2
<1>8. elapsed * Grain <= wall + (Grain - 1)
  <2>1. elapsed * Grain + sub <= wall + Grain - 1 BY DEF LoadInv, ClockInv
  <2>2. elapsed * Grain \in Int BY <1>1
  <2> QED BY <1>1, <2>1, <2>2
<1>9. (n * Second) * Grain <= (RatePerSecond * elapsed) * Grain
  <2>1. n * Second \in Int /\ RatePerSecond * elapsed \in Int BY <1>1
  <2> QED BY <1>1, <1>7, <2>1, MultMonotonic
<1>10. (elapsed * Grain) * RatePerSecond <= (wall + (Grain - 1)) * RatePerSecond
  <2>1. elapsed * Grain \in Int /\ wall + (Grain - 1) \in Int BY <1>1
  <2> QED BY <1>1, <1>8, <2>1, MultMonotonic
<1>11. (RatePerSecond * elapsed) * Grain = (elapsed * Grain) * RatePerSecond BY <1>1
<1>12. (wall + (Grain - 1)) * RatePerSecond = RatePerSecond * wall + RatePerSecond * (Grain - 1)
  BY <1>1
<1>13. (n * Second) * Grain = n * unit BY <1>1
<1>14. n \in Int /\ n * unit \in Int /\ RatePerSecond * (Grain - 1) \in Int BY <1>1
<1>15. n * unit <= RatePerSecond * wall + RatePerSecond * (Grain - 1)
  <2>1. \A a, b, c \in Int : a <= b /\ b <= c => a <= c OBVIOUS
  <2>2. (elapsed * Grain) * RatePerSecond \in Int
        /\ RatePerSecond * wall + RatePerSecond * (Grain - 1) \in Int
    BY <1>1
  <2>3. n * unit <= (elapsed * Grain) * RatePerSecond BY ONLY <1>9, <1>11, <1>13
  <2>4. (elapsed * Grain) * RatePerSecond <= RatePerSecond * wall + RatePerSecond * (Grain - 1)
    BY ONLY <1>10, <1>12
  <2> QED BY ONLY <1>14, <2>1, <2>2, <2>3, <2>4
<1>16. n = granted - BurstCapacity /\ room = RatePerSecond * wall + unit - Slack OBVIOUS
<1> HIDE DEF n, unit, room
<1>17. room \in Nat /\ n * unit <= room
  BY <1>2, <1>3, <1>4, <1>5, <1>14, <1>15, <1>16
<1>18. n <= room \div unit BY <1>2, <1>14, <1>17, DivBound
<1>19. room \div unit \in Int BY <1>2, <1>17
<1> QED BY <1>1, <1>6, <1>16, <1>18, <1>19

\* Every sample that counts as accepted was granted.
LEMMA CountedIsGranted ==
    ASSUME LoadInv, phase = "done"
    PROVE  Count("200") <= granted /\ Count("200") \in Nat
<1>1. Accepted \in SUBSET Measured BY DEF Accepted
<1>2. {i \in Measured : sample[i] = "200"} \subseteq Accepted BY DEF Accepted
<1>3. Cardinality({i \in Measured : sample[i] = "200"}) <= Cardinality(Accepted)
      /\ Cardinality({i \in Measured : sample[i] = "200"}) \in Nat
      /\ Cardinality(Accepted) \in Nat
  BY <1>1, <1>2, GainNone
<1>4. Cardinality(Accepted) <= granted /\ granted \in Nat
  BY DEF LoadInv, AcceptInv, BucketInv, TypeOK
<1> QED BY <1>3, <1>4 DEF Count

\* Every worker has written its sample before run reads the samples.
THEOREM SamplesAreCompleteHolds == LoadSpec => []SamplesAreComplete
<1>1. LoadInv => SamplesAreComplete BY DEF LoadInv
<1> QED BY <1>1, LoadInvariance, PTL

\* verify never reports a correct bucket as exceeding its quota, for every policy of
\* at most 1000 requests a second.
THEOREM BoundIsSoundHolds == LoadSpec => []BoundIsSound
<1>1. LoadInv => BoundIsSound
  <2> SUFFICES ASSUME LoadInv, phase = "done" PROVE Count("200") <= maximum
    BY DEF BoundIsSound
  <2>1. Count("200") <= granted /\ Count("200") \in Nat BY CountedIsGranted
  <2>2. granted <= maximum BY GrantedWithinMaximum
  <2>3. granted \in Nat BY DEF LoadInv, BucketInv, TypeOK
  <2>4. maximum \in Int
    <3>1. /\ wall \in Nat /\ Second \in Nat \ {0} /\ Grain \in Nat \ {0} /\ Slack \in Int
          /\ RatePerSecond \in Nat /\ BurstCapacity \in Nat
      BY PolicyAssumption, OptionsAssumption DEF LoadInv, LoadTypes
    <3>2. Second * Grain \in Nat \ {0} /\ RatePerSecond * wall + Second * Grain - Slack \in Int
      BY <3>1
    <3>3. (RatePerSecond * wall + Second * Grain - Slack) \div (Second * Grain) \in Int
      BY <3>2, DivMod
    <3> QED BY <3>1, <3>3 DEF maximum
  <2> QED BY <2>1, <2>2, <2>3, <2>4
<1> QED BY <1>1, LoadInvariance, PTL

\* A passed verification speaks for every measured request.
THEOREM VerdictIsSoundHolds == LoadSpec => []VerdictIsSound
<1>1. LoadInv => VerdictIsSound
  <2> SUFFICES ASSUME LoadInv, phase = "done", Passed
               PROVE  Count("200") + Count("429") = Requests /\ Count("200") <= granted
    BY DEF VerdictIsSound
  <2> DEFINE Of(s) == {i \in Measured : sample[i] = s}
  <2>1. ASSUME NEW s PROVE IsFiniteSet(Of(s)) /\ Count(s) = Cardinality(Of(s))
    <3>1. Of(s) \in SUBSET Measured OBVIOUS
    <3> QED BY <3>1, MeasuredFinite, FS_Subset DEF Count
  <2>2. Of("error") = {} /\ Of("5xx") = {} BY <2>1, FS_EmptySet, Zenon DEF Passed
  <2>3. \A i \in Measured : sample[i] \in Samples BY DEF LoadInv, SamplesAreComplete
  <2>4. Measured = Of("200") \cup Of("429") BY <2>2, <2>3 DEF Samples
  <2>5. Of("200") \cap Of("429") = {} OBVIOUS
  <2> HIDE DEF Of
  <2>6. Cardinality(Of("200") \cup Of("429")) = Cardinality(Of("200")) + Cardinality(Of("429")) - 0
    BY <2>1, <2>5, FS_Union, FS_EmptySet
  <2>7. Cardinality(Of("200")) \in Nat /\ Cardinality(Of("429")) \in Nat
    BY <2>1, FS_CardinalityType
  <2>8. Count("200") + Count("429") = Requests BY <2>1, <2>4, <2>6, <2>7, MeasuredFinite
  <2> QED BY <2>8, CountedIsGranted
<1> QED BY <1>1, LoadInvariance, PTL

-----------------------------------------------------------------------------
(* The number of outstanding requests *)

BusyInv == LoadTypes /\ Cardinality(Outstanding) <= Concurrency

\* The outstanding requests are a finite set.
LEMMA OutstandingFinite == IsFiniteSet(Outstanding) /\ Cardinality(Outstanding) \in Nat
<1>1. IsFiniteSet(Warmups)
  <2>1. 1 \in Int /\ Warmup \in Int BY OptionsAssumption
  <2> QED BY <2>1, FS_Interval DEF Warmups
<1>2. IsFiniteSet(All) BY <1>1, MeasuredFinite, FS_Union, Zenon DEF All
<1>3. Outstanding \in SUBSET All BY DEF Outstanding
<1>4. IsFiniteSet(Outstanding) BY <1>2, <1>3, FS_Subset
<1> QED BY <1>4, FS_CardinalityType

\* At most Concurrency requests are outstanding, and one in the warm-up.
THEOREM LoadTypeCorrect == LoadSpec => []LoadTypeOK
<1>1. LoadInit => BusyInv
  <2> SUFFICES ASSUME LoadInit PROVE BusyInv OBVIOUS
  <2>1. LoadTypes BY LoadInitial DEF LoadInv
  <2>2. Outstanding = {} BY DEF LoadInit, Outstanding, Answers
  <2> QED BY <2>1, <2>2, FS_EmptySet, OptionsAssumption DEF BusyInv
<1>2. BusyInv /\ LoadInv /\ LoadInv' /\ [LoadNext]_loadVars => BusyInv'
  <2> SUFFICES ASSUME BusyInv, LoadInv', [LoadNext]_loadVars
               PROVE  Cardinality(Outstanding') <= Concurrency
    BY DEF BusyInv, LoadInv
  <2> SUFFICES ASSUME ~(Outstanding' \subseteq Outstanding)
               PROVE  Cardinality(Outstanding') <= Concurrency
    <3>1. ASSUME Outstanding' \subseteq Outstanding PROVE Cardinality(Outstanding') <= Concurrency
      <4>1. Cardinality(Outstanding') <= Cardinality(Outstanding) BY <3>1, OutstandingFinite, FS_Subset
      <4>2. (Cardinality(Outstanding) \in Nat)' BY OutstandingFinite, PTL
      <4> QED BY <4>1, <4>2, OutstandingFinite, OptionsAssumption DEF BusyInv
    <3> QED BY <3>1
  <2>0. sample \in [All -> {"queued", "sent"} \cup Answers \cup Samples]
    BY DEF BusyInv, LoadTypes
  <2>1. PICK i \in All : Send(i)
    <3>1. ASSUME sample' = sample PROVE FALSE BY <3>1 DEF Outstanding
    <3>2. ASSUME NEW i \in All, NEW s, i \in Outstanding, Becomes(i, s) PROVE FALSE
      BY <2>0, <3>2 DEF Outstanding, Becomes
    <3>3. ASSUME NEW i \in All, Receive(i) PROVE FALSE
      BY <3>2, <3>3 DEF Receive, Outstanding
    <3>4. ASSUME NEW i \in All, GiveUp(i) \/ BreakOff(i) \/ Serve(i) \/ Fail(i) PROVE FALSE
      BY <3>2, <3>4 DEF GiveUp, BreakOff, Serve, Fail, Outstanding
    <3>5. ASSUME Measure \/ Finish \/ Stray \/ Delete \/ Pass \/ UNCHANGED loadVars PROVE FALSE
      BY <3>1, <3>5 DEF Measure, Finish, Stray, Delete, Pass, loadVars, clientVars
    <3> QED BY <3>3, <3>4, <3>5 DEF LoadNext
  <2>2. Outstanding' \subseteq Outstanding \cup {i} BY <2>0, <2>1 DEF Send, Becomes, Outstanding
  <2>3. IsFiniteSet(Outstanding \cup {i})
        /\ Cardinality(Outstanding \cup {i}) \in {Cardinality(Outstanding), Cardinality(Outstanding) + 1}
    BY OutstandingFinite, FS_AddElement
  <2>4. Cardinality(Outstanding') <= Cardinality(Outstanding \cup {i}) BY <2>2, <2>3, FS_Subset
  <2>5. Cardinality(Outstanding) + 1 <= Concurrency
    BY <2>1, OutstandingFinite, FS_EmptySet, OptionsAssumption DEF Send
  <2>6. (Cardinality(Outstanding) \in Nat)' BY OutstandingFinite, PTL
  <2> QED BY <2>3, <2>4, <2>5, <2>6, OutstandingFinite, OptionsAssumption
<1>3. BusyInv => LoadTypeOK BY DEF BusyInv, LoadTypes, LoadTypeOK
<1> QED BY <1>1, <1>2, <1>3, LoadInvariance, PTL DEF LoadSpec

-----------------------------------------------------------------------------
(* The latency summary *)

\* The samples up to a sample, with it, are finitely many of the samples.
LEMMA UpToFinite ==
  ASSUME NEW n \in Nat, NEW values \in [1..n -> Int], NEW i \in 1..n
  PROVE  /\ UpTo(values, i) \subseteq 1..n
         /\ i \in UpTo(values, i)
         /\ IsFiniteSet(UpTo(values, i))
         /\ Cardinality(UpTo(values, i)) \in 1..n
<1>1. UpTo(values, i) \subseteq 1..n /\ i \in UpTo(values, i)
  BY DEF UpTo
<1>2. IsFiniteSet(1..n) /\ Cardinality(1..n) = n
  BY FS_Interval
<1>3. IsFiniteSet(UpTo(values, i)) /\ Cardinality(UpTo(values, i)) <= n
  BY <1>1, <1>2, FS_Subset
<1>4. Cardinality(UpTo(values, i)) \in Nat /\ Cardinality(UpTo(values, i)) # 0
  BY <1>1, <1>3, FS_CardinalityType, FS_EmptySet
<1>5. QED
  BY <1>1, <1>3, <1>4

\* Of two samples one comes first: it has fewer samples up to itself.
LEMMA UpToDiffer ==
  ASSUME NEW n \in Nat, NEW values \in [1..n -> Int], NEW i \in 1..n, NEW j \in 1..n, i # j
  PROVE  Cardinality(UpTo(values, i)) # Cardinality(UpTo(values, j))
<1>1. \A a, b \in 1..n : \/ UpTo(values, a) \subseteq UpTo(values, b)
                         \/ UpTo(values, b) \subseteq UpTo(values, a)
  BY DEF UpTo
<1>2. UpTo(values, i) # UpTo(values, j)
  <2>1. ~ (i \in UpTo(values, j) /\ j \in UpTo(values, i))
    BY DEF UpTo
  <2>2. QED
    BY <2>1, UpToFinite
<1>3. IsFiniteSet(UpTo(values, i)) /\ IsFiniteSet(UpTo(values, j))
  BY UpToFinite
<1>4. CASE UpTo(values, i) \subseteq UpTo(values, j)
  BY <1>2, <1>3, <1>4, FS_Subset
<1>5. CASE UpTo(values, j) \subseteq UpTo(values, i)
  BY <1>2, <1>3, <1>5, FS_Subset
<1>6. QED
  BY <1>1, <1>4, <1>5

\* Every position of the sorted list is taken by a sample: sort.Slice returns a
\* rearrangement of the list it is given.
LEMMA EveryPositionTaken ==
  ASSUME NEW n \in Nat, NEW values \in [1..n -> Int], NEW k \in 1..n
  PROVE  \E i \in 1..n : Cardinality(UpTo(values, i)) = k /\ Sorted(values)[k] = values[i]
<1> DEFINE place == [i \in 1..n |-> Cardinality(UpTo(values, i))]
<1>1. place \in [1..n -> 1..n]
  BY UpToFinite
<1>2. \A i, j \in 1..n : place[i] = place[j] => i = j
  BY UpToDiffer
<1>3. place \in Injection(1..n, 1..n)
  BY <1>1, <1>2 DEF Injection, IsInjective
<1>4. IsFiniteSet(1..n)
  BY FS_Interval
<1>5. place \in Surjection(1..n, 1..n)
  BY <1>3, <1>4, FS_Injection
<1>6. \E i \in 1..n : Cardinality(UpTo(values, i)) = k
  BY <1>5 DEF Surjection
<1>7. DOMAIN values = 1..n
  OBVIOUS
<1> DEFINE c == CHOOSE i \in 1..n : Cardinality(UpTo(values, i)) = k
<1>8. c \in 1..n /\ Cardinality(UpTo(values, c)) = k
  BY <1>6
<1>9. Sorted(values)[k] = values[c]
  BY <1>7 DEF Sorted
<1>10. QED
  BY <1>8, <1>9

\* The k-th sample of the sorted list is the least that k samples do not exceed.
LEMMA SortedIsOrderStatistic ==
  ASSUME NEW n \in Nat, NEW values \in [1..n -> Int], NEW k \in 1..n
  PROVE  /\ Sorted(values)[k] \in Range(values)
         /\ \A v \in Range(values) :
                 /\ Cardinality({i \in DOMAIN values : values[i] <= v}) \in Nat
                 /\ Cardinality({i \in DOMAIN values : values[i] <= v}) >= k
                      <=> Sorted(values)[k] <= v
<1>1. PICK c \in 1..n : Cardinality(UpTo(values, c)) = k /\ Sorted(values)[k] = values[c]
  BY EveryPositionTaken
<1>2. DOMAIN values = 1..n
  OBVIOUS
<1>3. Sorted(values)[k] \in Range(values)
  BY <1>1, <1>2 DEF Range
<1>4. ASSUME NEW v \in Range(values)
      PROVE  /\ Cardinality({i \in DOMAIN values : values[i] <= v}) \in Nat
             /\ Cardinality({i \in DOMAIN values : values[i] <= v}) >= k
                  <=> Sorted(values)[k] <= v
  <2> DEFINE B == {i \in 1..n : values[i] <= v}
  <2>1. v \in Int
    BY <1>2 DEF Range
  <2>2. IsFiniteSet(1..n)
    BY FS_Interval
  <2>3. IsFiniteSet(B)
    BY <2>2, FS_Subset
  <2>4. Cardinality(B) \in Nat
    BY <2>3, FS_CardinalityType
  <2>5. ASSUME values[c] <= v
        PROVE  Cardinality(B) >= k
    <3>1. UpTo(values, c) \subseteq B
      BY <2>1, <2>5 DEF UpTo
    <3>2. Cardinality(UpTo(values, c)) <= Cardinality(B)
      BY <3>1, <2>3, FS_Subset
    <3>3. QED
      BY <3>2, <1>1, <2>4
  <2>6. ASSUME ~ (values[c] <= v)
        PROVE  Cardinality(B) < k
    <3> DEFINE A == UpTo(values, c) \ {c}
    <3>1. B \subseteq A
      BY <2>1, <2>6 DEF UpTo
    <3>2. IsFiniteSet(A) /\ Cardinality(A) = k - 1
      BY <1>1, UpToFinite, FS_RemoveElement
    <3>3. Cardinality(B) <= Cardinality(A)
      BY <3>1, <3>2, FS_Subset
    <3>4. QED
      BY <3>2, <3>3, <2>4
  <2> HIDE DEF B
  <2>7. Cardinality(B) \in Nat /\ (Cardinality(B) >= k <=> Sorted(values)[k] <= v)
    BY <2>4, <2>5, <2>6, <1>1
  <2>8. QED
    BY <2>7, <1>2 DEF B
<1>5. QED
  BY <1>3, <1>4

\* The rank percentile uses lies within the list.
LEMMA CeilWithinList ==
  ASSUME NEW n \in Nat \ {0}, NEW percent \in {50, 95, 99}
  PROVE  Ceil(percent, n) \in 1..n
<1>1. CASE percent = 50
  BY <1>1 DEF Ceil
<1>2. CASE percent = 95
  BY <1>2 DEF Ceil
<1>3. CASE percent = 99
  BY <1>3 DEF Ceil
<1>4. QED
  BY <1>1, <1>2, <1>3

\* percentile of the sorted samples is their nearest-rank percentile.
LEMMA PercentileIsNearestRank ==
  ASSUME NEW n \in Nat \ {0}, NEW values \in [1..n -> Int], NEW percent \in {50, 95, 99}
  PROVE  percentile(Sorted(values), percent) = NearestRank(values, percent)
<1> DEFINE k == Ceil(percent, n)
           count(v) == Cardinality({i \in DOMAIN values : values[i] <= v})
           V == {v \in Range(values) : 100 * count(v) >= percent * n}
<1>1. k \in 1..n /\ \A c \in Nat : 100 * c >= percent * n <=> c >= k
  <2>1. Ceil(percent, n) \in 1..n
    BY CeilWithinList
  <2>2. ASSUME NEW c \in Nat
        PROVE  100 * c >= percent * n <=> c >= Ceil(percent, n)
    <3>1. CASE percent = 50
      BY <3>1 DEF Ceil
    <3>2. CASE percent = 95
      BY <3>2 DEF Ceil
    <3>3. CASE percent = 99
      BY <3>3 DEF Ceil
    <3>4. QED
      BY <3>1, <3>2, <3>3
  <2>3. QED
    BY <2>1, <2>2, Zenon
<1>2. /\ Sorted(values)[k] \in Range(values)
      /\ \A v \in Range(values) : count(v) \in Nat /\ (count(v) >= k <=> Sorted(values)[k] <= v)
  BY <1>1, SortedIsOrderStatistic
<1>3. DOMAIN values = 1..n /\ values \in Seq(Int) /\ Len(values) = n
  OBVIOUS
<1>4. Range(values) \subseteq Int
  BY <1>3 DEF Range
<1>5. Sorted(values) \in Seq(Int) /\ Len(Sorted(values)) = n /\ Sorted(values) # << >>
  <2>1. \A m \in 1..n : Sorted(values)[m] \in Int
    BY SortedIsOrderStatistic, <1>4
  <2>2. Sorted(values) = [m \in 1..n |-> Sorted(values)[m]]
    BY <1>3 DEF Sorted
  <2>3. Sorted(values) \in [1..n -> Int]
    BY <2>1, <2>2
  <2>4. QED
    BY <2>3
<1>6. V = {v \in Range(values) : Sorted(values)[k] <= v}
  <2> HIDE DEF k, count
  <2>1. QED
    BY <1>1, <1>2 DEF V
<1>7. Min(V) = Sorted(values)[k]
  <2> HIDE DEF k, V
  <2>1. Sorted(values)[k] \in V /\ \A v \in V : v \in Int /\ Sorted(values)[k] <= v
    BY <1>2, <1>4, <1>6
  <2>2. QED
    BY <2>1 DEF Min
<1>8. percentile(Sorted(values), percent) = Sorted(values)[k]
  <2> HIDE DEF k
  <2>1. Max({k - 1, 0}) = k - 1
    BY <1>1 DEF Max
  <2>2. Min({k - 1, n - 1}) = k - 1
    BY <1>1 DEF Min
  <2>3. percentile(Sorted(values), percent) = Sorted(values)[Min({Max({k - 1, 0}), n - 1}) + 1]
    BY <1>5 DEF percentile, k
  <2>4. (k - 1) + 1 = k
    BY <1>1
  <2>5. QED
    BY <2>1, <2>2, <2>3, <2>4, Zenon
<1>9. NearestRank(values, percent) = Min(V)
  BY <1>3 DEF NearestRank
<1>10. QED
  BY <1>7, <1>8, <1>9

\* SummarizeLatency is exact for every list of samples there can be, of any length:
\* its percentiles are the nearest-rank ones and its extremes bound every sample.
THEOREM SummaryIsExact ==
  ASSUME NEW n \in Nat \ {0}, NEW values \in [1..n -> Int]
  PROVE  Exact(values)
<1>1. DOMAIN values = 1..n /\ values # << >>
  OBVIOUS
<1>2. DOMAIN Sorted(values) = 1..n /\ Len(Sorted(values)) = n
  BY <1>1 DEF Sorted
<1> DEFINE summary == SummarizeLatency(values)
<1>3. /\ summary.P50 = percentile(Sorted(values), 50)
      /\ summary.P95 = percentile(Sorted(values), 95)
      /\ summary.P99 = percentile(Sorted(values), 99)
      /\ summary.Minimum = Sorted(values)[1]
      /\ summary.Maximum = Sorted(values)[n]
  BY <1>1, <1>2 DEF SummarizeLatency
<1>4. ASSUME NEW i \in 1..n
      PROVE  Sorted(values)[1] <= values[i] /\ values[i] <= Sorted(values)[n]
  <2>1. PICK c \in 1..n : Cardinality(UpTo(values, c)) = 1 /\ Sorted(values)[1] = values[c]
    BY EveryPositionTaken
  <2>2. values[c] <= values[i]
    <3>1. PICK x : UpTo(values, c) = {x}
      BY <2>1, UpToFinite, FS_Singleton
    <3>2. UpTo(values, c) = {c}
      BY <3>1, UpToFinite
    <3>3. i \in UpTo(values, c) => i = c
      BY <3>2
    <3>4. QED
      BY <3>3 DEF UpTo
  <2>3. PICK d \in 1..n : Cardinality(UpTo(values, d)) = n /\ Sorted(values)[n] = values[d]
    BY EveryPositionTaken
  <2>4. values[i] <= values[d]
    <3>1. IsFiniteSet(1..n) /\ Cardinality(1..n) = n
      BY FS_Interval
    <3>2. UpTo(values, d) = 1..n
      BY <2>3, <3>1, UpToFinite, FS_Subset
    <3>3. QED
      BY <3>2 DEF UpTo
  <2>5. QED
    BY <2>1, <2>2, <2>3, <2>4
<1>5. \A v \in Range(values) : Sorted(values)[1] <= v /\ v <= Sorted(values)[n]
  BY <1>1, <1>4 DEF Range
<1>6. QED
  BY <1>3, <1>5, PercentileIsNearestRank DEF Exact

\* PercentilesAreNearestRank holds of every finished run.
THEOREM PercentilesAreNearestRankHolds == LoadSpec => []PercentilesAreNearestRank
<1>1. ASSUME NEW values \in Inputs
      PROVE  Exact(values)
  <2>1. \/ \E n \in 1..ShortLists : values \in [1..n -> Latencies]
        \/ \E n \in 1..LongLists : values = [i \in 1..n |-> n + 1 - i]
    BY DEF Inputs
  <2>2. ASSUME NEW n \in 1..ShortLists, values \in [1..n -> Latencies]
        PROVE  Exact(values)
    <3>1. n \in Nat \ {0}
      BY LatencyAssumption
    <3>2. Latencies \subseteq Int
      BY LatencyAssumption
    <3>3. values \in [1..n -> Int]
      BY <2>2, <3>2
    <3>4. QED
      BY <3>1, <3>3, SummaryIsExact
  <2>3. ASSUME NEW n \in 1..LongLists, values = [i \in 1..n |-> n + 1 - i]
        PROVE  Exact(values)
    <3>1. n \in Nat \ {0}
      BY LatencyAssumption
    <3>2. values \in [1..n -> Int]
      BY <2>3, <3>1
    <3>3. QED
      BY <3>1, <3>2, SummaryIsExact
  <2>4. QED
    BY <2>1, <2>2, <2>3
<1>2. PercentilesAreNearestRank
  BY <1>1 DEF PercentilesAreNearestRank, AllExact
<1>3. QED
  BY <1>2, PTL
=============================================================================
