------------------------- MODULE RateLimiterProofs -------------------------
(***************************************************************************)
(* Proofs about RateLimiter for every policy and every scale of tokens and *)
(* milliseconds that the code's arithmetic allows.                         *)
(***************************************************************************)
EXTENDS RateLimiter, TLAPS

-----------------------------------------------------------------------------
(* Arithmetic *)

\* Multiplication by a natural number is monotonic.
LEMMA MultMonotonic ==
    ASSUME NEW a \in Int, NEW b \in Int, NEW c \in Nat, a <= b
    PROVE  a * c <= b * c
OBVIOUS

\* The products used below distribute.
LEMMA MultSuccessor ==
    ASSUME NEW a \in Int, NEW c \in Int
    PROVE  (a + 1) * c = a * c + c /\ (a - 1) * c = a * c - c
OBVIOUS

\* The script's math.max(0, a) is monotonic.
LEMMA ElapsedMonotonic ==
    ASSUME NEW a \in Int, NEW b \in Int, a <= b
    PROVE  Greatest(0, a) \in Nat /\ Greatest(0, b) \in Nat /\ Greatest(0, a) <= Greatest(0, b)
BY DEF Greatest

\* What \div and % compute.
LEMMA DivMod ==
    ASSUME NEW a \in Int, NEW b \in Nat \ {0}
    PROVE  /\ a \div b \in Int /\ a % b \in 0..(b - 1)
           /\ a = b * (a \div b) + (a % b)
<1>1. a \div b \in Int OBVIOUS
<1>2. a % b \in 0..(b - 1) OBVIOUS
<1>3. a = b * (a \div b) + (a % b) OBVIOUS
<1> QED BY <1>1, <1>2, <1>3

\* A quotient of natural numbers is a natural number.
LEMMA DivIsNat ==
    ASSUME NEW a \in Nat, NEW b \in Nat \ {0}
    PROVE  a \div b \in Nat
<1> DEFINE q == a \div b
           r == a % b
<1>1. q \in Int /\ r \in 0..(b - 1) /\ a = b * q + r BY DivMod
<1> HIDE DEF q, r
<1>2. ASSUME q <= -1 PROVE FALSE
  <2>1. q * b <= (-1) * b BY <1>1, <1>2, MultMonotonic
  <2> QED BY <1>1, <2>1
<1>3. q \in Nat BY <1>1, <1>2
<1> QED BY <1>3 DEF q

\* The script's math.ceil(a / b) is the least multiple count that reaches a.
LEMMA CeilDivIsExact ==
    ASSUME NEW a \in Nat, NEW b \in Nat \ {0}, NEW d \in Nat
    PROVE  /\ CeilDiv(a, b) \in Nat
           /\ d * b >= a <=> d >= CeilDiv(a, b)
<1> DEFINE m == a + b - 1
           q == m \div b
           r == m % b
<1>0. m \in Nat /\ m = a + b - 1 OBVIOUS
<1>1. CeilDiv(a, b) = q BY DEF CeilDiv
<1> HIDE DEF m
<1>2. q \in Nat /\ r \in 0..(b - 1) /\ m = b * q + r
  <2>1. m \in Int BY <1>0
  <2>2. q \in Nat BY <1>0, DivIsNat
  <2>3. r \in 0..(b - 1) /\ m = b * q + r BY <2>1, DivMod
  <2> QED BY <2>2, <2>3
<1> HIDE DEF q, r
<1>3. b * q >= a /\ b * q <= a + b - 1 BY <1>0, <1>2
<1>4. ASSUME d >= q PROVE d * b >= a
  <2>1. q * b <= d * b BY <1>2, <1>4, MultMonotonic
  <2> QED BY <1>2, <1>3, <2>1
<1>5. ASSUME ~(d >= q) PROVE ~(d * b >= a)
  <2>1. d <= q - 1 BY <1>2, <1>5
  <2>2. d * b <= (q - 1) * b BY <1>2, <2>1, MultMonotonic
  <2>3. (q - 1) * b = q * b - b BY <1>2, MultSuccessor
  <2> QED BY <1>2, <1>3, <2>2, <2>3
<1> QED BY <1>1, <1>2, <1>4, <1>5

-----------------------------------------------------------------------------
(* The policy's constants *)

\* A millisecond refills a whole number of units.
LEMMA UnitFacts ==
    /\ MicroToken \div Second \in Nat \ {0}
    /\ MicroToken = Second * (MicroToken \div Second)
<1> DEFINE q == MicroToken \div Second
<1>1. q \in Nat BY PolicyAssumption, DivIsNat
<1>2. MicroToken = Second * q + (MicroToken % Second) BY PolicyAssumption, DivMod
<1> HIDE DEF q
<1>3. MicroToken = Second * q BY <1>1, <1>2, PolicyAssumption
<1>4. q # 0 BY <1>1, <1>3, PolicyAssumption
<1> QED BY <1>1, <1>3, <1>4 DEF q

\* The derived constants are positive, and a full bucket holds at least one request.
LEMMA PolicyFacts ==
    /\ cost \in Nat \ {0} /\ capacity \in Nat \ {0} /\ capacity >= cost
    /\ refill_per_ms \in Nat \ {0} /\ ttl_ms \in Nat \ {0}
<1>1. refill_per_ms \in Nat \ {0} BY UnitFacts, PolicyAssumption DEF refill_per_ms, RefillOf
<1>2. capacity \in Nat \ {0} /\ capacity >= MicroToken
  <2>1. 1 * MicroToken <= BurstCapacity * MicroToken BY PolicyAssumption, MultMonotonic
  <2> QED BY <2>1, PolicyAssumption DEF capacity, CapacityOf
<1>3. BurstCapacity * Second \in Nat BY PolicyAssumption
<1>4. (BurstCapacity * Second) \div RatePerSecond \in Nat BY <1>3, PolicyAssumption, DivIsNat
<1>5. ttl_ms \in Nat \ {0} BY <1>4, PolicyAssumption DEF ttl_ms, TtlOf
<1> QED BY <1>1, <1>2, <1>5, PolicyAssumption DEF cost

\* The time to live is long enough to fill the bucket: an expired key was full.
LEMMA TtlFillsBucket == ttl_ms * refill_per_ms >= capacity
<1> DEFINE q == MicroToken \div Second
           n == BurstCapacity * Second
           d == n \div RatePerSecond
           r == n % RatePerSecond
<1>1. n \in Nat BY PolicyAssumption
<1>2. q \in Nat /\ MicroToken = Second * q BY UnitFacts
<1>3. refill_per_ms = RatePerSecond * q /\ ttl_ms = d * 2 + Second
      /\ capacity = BurstCapacity * (Second * q)
  BY <1>2 DEF refill_per_ms, ttl_ms, capacity, RefillOf, TtlOf, CapacityOf
<1>4. n * q = BurstCapacity * (Second * q) BY <1>2, PolicyAssumption
<1> HIDE DEF n
<1>5. d \in Nat /\ r \in 0..(RatePerSecond - 1) /\ n = RatePerSecond * d + r
  <2>1. n \in Int /\ RatePerSecond \in Nat \ {0} BY <1>1, PolicyAssumption
  <2>2. d \in Nat BY <1>1, <2>1, DivIsNat
  <2>3. r \in 0..(RatePerSecond - 1) /\ n = RatePerSecond * d + r BY <2>1, DivMod
  <2> QED BY <2>2, <2>3
<1> HIDE DEF q, d, r
<1>6. (d + 1) * RatePerSecond >= n
  <2>1. (d + 1) * RatePerSecond = d * RatePerSecond + RatePerSecond
    BY <1>5, PolicyAssumption, MultSuccessor
  <2> QED BY <1>1, <1>5, <2>1, PolicyAssumption
<1>7. ttl_ms >= d + 1 /\ ttl_ms \in Nat BY <1>3, <1>5, PolicyAssumption
<1>8. (d + 1) * RatePerSecond <= ttl_ms * RatePerSecond
  BY <1>5, <1>7, PolicyAssumption, MultMonotonic
<1>9. ttl_ms * RatePerSecond \in Nat /\ ttl_ms * RatePerSecond >= n
  BY <1>1, <1>5, <1>6, <1>7, <1>8, PolicyAssumption
<1>10. n * q <= (ttl_ms * RatePerSecond) * q
  BY <1>1, <1>2, <1>9, MultMonotonic
<1>11. (ttl_ms * RatePerSecond) * q = ttl_ms * (RatePerSecond * q)
  BY <1>2, <1>7, PolicyAssumption
<1> QED BY <1>3, <1>4, <1>10, <1>11

-----------------------------------------------------------------------------
(* The inductive invariant *)

\* The latest script ran under the observed policy.
Owned == granted > 0 \/ last.kind # "none"

\* The key then expires one time to live of that policy after the script.
ExpiryInv == present /\ Owned => expires = updated + ttl_ms

\* What was granted and what could still be granted now is covered by a full
\* bucket and the refill of the window.
QuotaInv == granted * MicroToken + Refilled <= capacity + refill_per_ms * elapsed

\* The latest reply describes the bucket, or the key has expired since.
ReplyInv ==
    last.kind # "none" =>
        /\ updated = last.at /\ last.at <= now /\ last.full = full_ms(tokens)
        /\ present \/ now >= last.at + ttl_ms
        /\ last.kind = "denied" => tokens < cost /\ last.retry = retry_ms(tokens)

BucketInv == TypeOK /\ ExpiryInv /\ QuotaInv /\ ReplyInv

\* A script finds between zero and capacity units.
LEMMA RefilledType == TypeOK => Refilled \in 0..capacity
<1> SUFFICES ASSUME TypeOK PROVE Refilled \in 0..capacity OBVIOUS
<1> DEFINE g == Greatest(0, now - updated)
<1>1. g \in Nat BY DEF TypeOK, Greatest
<1>2. g * refill_per_ms \in Nat BY <1>1, PolicyFacts
<1>3. Refilled = IF ~Live THEN capacity ELSE Least(capacity, tokens + g * refill_per_ms)
  BY DEF Refilled, Available
<1> HIDE DEF g
<1> QED BY <1>2, <1>3, PolicyFacts DEF TypeOK, Least

\* The waiting times that the script returns are natural numbers.
LEMMA WaitType ==
    ASSUME NEW left \in 0..capacity
    PROVE  full_ms(left) \in Nat /\ (left < cost => retry_ms(left) \in Nat)
<1>1. capacity - left \in Nat /\ (left < cost => cost - left \in Nat) BY PolicyFacts
<1>2. refill_per_ms \in Nat \ {0} /\ 0 \in Nat BY PolicyFacts
<1> QED BY <1>1, <1>2, CeilDivIsExact DEF full_ms, retry_ms

\* A Redis without the key satisfies the bucket's invariant.
LEMMA BucketInit == Init => BucketInv
<1> SUFFICES ASSUME Init PROVE BucketInv OBVIOUS
<1>1. TypeOK
  <2>1. last \in [kind : {"none", "allowed", "denied"}, at : Nat, retry : Nat, full : Nat]
    BY DEF Init, None
  <2>2. tokens \in Nat /\ tokens <= capacity BY PolicyFacts DEF Init
  <2>3. now \in Nat /\ updated \in Nat /\ expires \in Nat /\ granted \in Nat /\ elapsed \in Nat
    BY DEF Init
  <2>4. present \in BOOLEAN BY Zenon DEF Init
  <2> QED BY <2>1, <2>2, <2>3, <2>4 DEF TypeOK
<1>2. Refilled = capacity BY DEF Init, Refilled, Available, Live
<1>3. QuotaInv BY <1>2, PolicyFacts, PolicyAssumption DEF QuotaInv, Init
<1> QED BY <1>1, <1>3 DEF BucketInv, ExpiryInv, Owned, ReplyInv, Init, None

\* The script preserves the invariant: what it grants it takes from the bucket.
LEMMA AllowPreserves == BucketInv /\ Allow => BucketInv'
<1> SUFFICES ASSUME BucketInv, Allow PROVE BucketInv' OBVIOUS
<1> DEFINE allowed == Refilled >= cost
           left == IF allowed THEN Refilled - cost ELSE Refilled
<1>1. Refilled \in 0..capacity BY RefilledType DEF BucketInv
<1>2. left \in 0..capacity /\ (~allowed => left < cost) BY <1>1, PolicyFacts
<1>3. /\ present' = TRUE /\ tokens' = left /\ updated' = now /\ expires' = now + ttl_ms
      /\ granted' = (IF allowed THEN granted + 1 ELSE granted)
      /\ last' = [kind |-> IF allowed THEN "allowed" ELSE "denied", at |-> now,
                  retry |-> IF allowed THEN 0 ELSE retry_ms(left),
                  full |-> full_ms(left)]
      /\ now' = now /\ elapsed' = elapsed
  BY DEF Allow
<1>4. full_ms(left) \in Nat /\ (~allowed => retry_ms(left) \in Nat) BY <1>2, WaitType
<1>5. allowed \in BOOLEAN OBVIOUS
<1>6. left = IF allowed THEN Refilled - cost ELSE Refilled OBVIOUS
<1>7. Refilled' = left
  <2>1. Live' BY <1>3, PolicyFacts DEF Live, BucketInv, TypeOK
  <2>2. Greatest(0, now' - updated') = 0 BY <1>3 DEF Greatest, BucketInv, TypeOK
  <2> HIDE DEF left
  <2>3. Refilled' = Least(capacity, left + 0 * refill_per_ms)
    BY <1>3, <2>1, <2>2 DEF Refilled, Available
  <2> QED BY <1>2, <2>3, PolicyFacts DEF Least
<1> HIDE DEF left
<1>8. TypeOK'
  <2>1. last' \in [kind : {"none", "allowed", "denied"}, at : Nat, retry : Nat, full : Nat]
    <3>1. CASE allowed BY <1>3, <1>4, <3>1 DEF BucketInv, TypeOK
    <3>2. CASE ~allowed BY <1>3, <1>4, <3>2 DEF BucketInv, TypeOK
    <3> QED BY <3>1, <3>2
  <2>2. expires' \in Nat BY <1>3, PolicyFacts DEF BucketInv, TypeOK
  <2>3. granted' \in Nat BY <1>3 DEF BucketInv, TypeOK
  <2> QED BY <1>2, <1>3, <2>1, <2>2, <2>3 DEF BucketInv, TypeOK
<1>9. ExpiryInv' BY <1>3 DEF ExpiryInv, Owned
<1>10. QuotaInv'
  <2>1. (granted + 1) * MicroToken = granted * MicroToken + MicroToken
    BY PolicyAssumption, MultSuccessor DEF BucketInv, TypeOK
  <2>2. granted * MicroToken \in Int /\ refill_per_ms * elapsed \in Int
    BY PolicyAssumption, PolicyFacts DEF BucketInv, TypeOK
  <2>3. granted' * MicroToken + left = granted * MicroToken + Refilled
    <3>1. CASE allowed BY <1>1, <1>3, <1>6, <2>1, <2>2, <3>1, PolicyAssumption DEF cost
    <3>2. CASE ~allowed BY <1>3, <1>6, <3>2
    <3> QED BY <3>1, <3>2
  <2> QED BY <1>3, <1>7, <2>3 DEF QuotaInv, BucketInv
<1>11. ReplyInv'
  <2>1. updated' = last'.at /\ last'.at <= now' /\ last'.full = full_ms(tokens')
    BY <1>3 DEF BucketInv, TypeOK
  <2>2. last'.kind = "denied" => tokens' < cost /\ last'.retry = retry_ms(tokens')
    BY <1>2, <1>3
  <2> QED BY <1>3, <2>1, <2>2 DEF ReplyInv, full_ms, retry_ms, cost, capacity, refill_per_ms, CeilDiv, CapacityOf, RefillOf
<1> QED BY <1>8, <1>9, <1>10, <1>11 DEF BucketInv

\* What a script under another policy leaves is a bucket that the observed policy
\* caps: a new window starts with at most a full bucket.
LEMMA AllowUnderPreserves ==
    ASSUME NEW p \in OtherPolicies, BucketInv, AllowUnder(p)
    PROVE  BucketInv'
<1> DEFINE full == CapacityOf(p.burst)
           rate == RefillOf(p.rate)
           ttl == TtlOf(p.rate, p.burst)
           found == Available(full, rate)
           left == IF found >= cost THEN found - cost ELSE found
<1>1. p.rate \in Nat \ {0} /\ p.burst \in Nat \ {0} BY OtherPoliciesAssumption
<1>2. full \in Nat BY <1>1, PolicyAssumption DEF CapacityOf
<1>3. rate \in Nat BY <1>1, UnitFacts DEF RefillOf
<1>4. ttl \in Nat
  <2>1. p.burst * Second \in Nat BY <1>1, PolicyAssumption
  <2>2. (p.burst * Second) \div p.rate \in Nat BY <1>1, <2>1, DivIsNat
  <2> QED BY <2>2, PolicyAssumption DEF TtlOf
<1>5. /\ present' = TRUE /\ tokens' = left /\ updated' = now /\ expires' = now + ttl
      /\ last' = None /\ granted' = 0 /\ elapsed' = 0 /\ now' = now
  BY DEF AllowUnder
<1>6. left \in Nat
  <2> DEFINE g == Greatest(0, now - updated)
  <2>1. g \in Nat BY DEF BucketInv, TypeOK, Greatest
  <2>2. found = IF ~Live THEN full ELSE Least(full, tokens + g * rate) BY DEF Available
  <2> HIDE DEF g, full, rate
  <2>3. g * rate \in Nat BY <2>1, <1>3
  <2>4. tokens + g * rate \in Nat BY <2>3 DEF BucketInv, TypeOK
  <2>5. found \in Nat BY <1>2, <2>2, <2>4 DEF Least
  <2> HIDE DEF found
  <2> QED BY <2>5, PolicyFacts
<1> HIDE DEF left, ttl
<1>7. TypeOK'
  <2>1. None \in [kind : {"none", "allowed", "denied"}, at : Nat, retry : Nat, full : Nat]
        /\ None.kind = "none"
    BY DEF None
  <2>2. expires' \in Nat /\ now' \in Nat BY <1>4, <1>5 DEF BucketInv, TypeOK
  <2>3. present' \in BOOLEAN BY <1>5
  <2> QED BY <1>5, <1>6, <2>1, <2>2, <2>3 DEF BucketInv, TypeOK
<1>8. QuotaInv'
  <2>1. (Refilled \in 0..capacity)' BY <1>7, RefilledType, PTL
  <2>2. Refilled' \in 0..capacity BY <2>1 DEF capacity, CapacityOf
  <2>3. \A x \in 0..capacity : 0 * MicroToken + x <= capacity + refill_per_ms * 0
    BY PolicyFacts, PolicyAssumption
  <2>4. 0 * MicroToken + Refilled' <= capacity + refill_per_ms * 0 BY ONLY <2>2, <2>3
  <2> QED BY <1>5, <2>4 DEF QuotaInv
<1>9. ExpiryInv' /\ ReplyInv' BY <1>5 DEF ExpiryInv, Owned, ReplyInv, None
<1> QED BY <1>7, <1>8, <1>9 DEF BucketInv

\* A millisecond adds at most its refill, also when the key expires in it: by
\* then the bucket is full.
LEMMA TickRefills ==
    ASSUME BucketInv, Tick, granted > 0
    PROVE  Refilled' <= Refilled + refill_per_ms
<1> DEFINE g == Greatest(0, now - updated)
           h == Greatest(0, (now + 1) - updated)
           R == refill_per_ms
<1>0. now' = now + 1 /\ present' = present /\ tokens' = tokens /\ updated' = updated
      /\ expires' = expires
  BY DEF Tick, bucket
<1>1. now \in Nat /\ updated \in Nat /\ expires \in Nat /\ tokens \in Nat
  BY DEF BucketInv, TypeOK
<1>2. g \in Nat /\ h \in Nat /\ h <= g + 1 BY <1>1 DEF Greatest
<1>3. R \in Nat \ {0} /\ capacity \in Nat /\ ttl_ms \in Nat \ {0} BY PolicyFacts
<1>4. g * R \in Nat /\ h * R \in Nat BY <1>2, <1>3
<1>5. h * R <= (g + 1) * R BY <1>2, <1>3, MultMonotonic
<1>6. (g + 1) * R = g * R + R BY <1>2, <1>3, MultSuccessor
<1>7. Refilled = IF ~Live THEN capacity ELSE Least(capacity, tokens + g * R)
  BY DEF Refilled, Available
<1>8. Refilled' = IF ~(Live') THEN capacity ELSE Least(capacity, tokens + h * R)
  BY <1>0 DEF Refilled, Available
<1>9. CASE Live /\ Live'
  <2> HIDE DEF g, h, R
  <2> QED BY <1>1, <1>2, <1>3, <1>4, <1>5, <1>6, <1>7, <1>8, <1>9 DEF Least, R
<1>10. CASE ~Live
  <2>1. ~Live' BY <1>0, <1>1, <1>10 DEF Live
  <2> QED BY <1>3, <1>7, <1>8, <1>10, <2>1
<1>11. CASE Live /\ ~Live'
  <2>1. now + 1 = updated + ttl_ms
    BY <1>0, <1>1, <1>3, <1>11 DEF Live, BucketInv, ExpiryInv, Owned
  <2>2. g + 1 = ttl_ms BY <1>1, <1>3, <2>1 DEF Greatest
  <2>3. g * R + R >= capacity BY <1>6, <2>2, TtlFillsBucket
  <2> HIDE DEF g, h, R
  <2> QED BY <1>1, <1>2, <1>3, <1>4, <1>7, <1>8, <1>11, <2>3 DEF Least, R
<1> QED BY <1>9, <1>10, <1>11

\* The Redis clock moving forward by a millisecond keeps the bucket's invariant.
LEMMA TickPreserves == BucketInv /\ Tick => BucketInv'
<1> SUFFICES ASSUME BucketInv, Tick PROVE BucketInv' OBVIOUS
<1>0. /\ now' = now + 1 /\ elapsed' = elapsed + 1 /\ granted' = granted /\ last' = last
      /\ present' = present /\ tokens' = tokens /\ updated' = updated /\ expires' = expires
  BY DEF Tick, bucket
<1>1. TypeOK' BY <1>0 DEF BucketInv, TypeOK
<1>2. ExpiryInv' BY <1>0 DEF BucketInv, ExpiryInv, Owned
<1>3. QuotaInv'
  <2>2. (elapsed + 1) * refill_per_ms = elapsed * refill_per_ms + refill_per_ms
    BY PolicyFacts, MultSuccessor DEF BucketInv, TypeOK
  <2>3. refill_per_ms * (elapsed + 1) = refill_per_ms * elapsed + refill_per_ms
    BY <2>2, PolicyFacts DEF BucketInv, TypeOK
  <2>4. Refilled \in Int /\ Refilled' \in Int /\ Refilled' <= capacity
    <3>1. Refilled \in 0..capacity BY RefilledType DEF BucketInv
    <3>2. (Refilled \in 0..capacity)' BY <1>1, RefilledType, PTL
    <3>3. Refilled' \in 0..capacity BY <3>2 DEF capacity, CapacityOf
    <3> QED BY <3>1, <3>3, PolicyFacts
  <2>5. granted * MicroToken \in Int /\ refill_per_ms * elapsed \in Int
    BY PolicyAssumption, PolicyFacts DEF BucketInv, TypeOK
  <2>6. granted * MicroToken + Refilled <= capacity + refill_per_ms * elapsed
    BY DEF BucketInv, QuotaInv
  <2>7. granted * MicroToken + Refilled' <= capacity + refill_per_ms * (elapsed + 1)
    <3>1. CASE granted > 0
      <4>1. Refilled' <= Refilled + refill_per_ms BY <3>1, TickRefills
      <4> QED BY <4>1, <2>3, <2>4, <2>5, <2>6, PolicyFacts
    <3>2. CASE granted = 0
      <4>1. refill_per_ms * (elapsed + 1) \in Nat BY PolicyFacts DEF BucketInv, TypeOK
      <4>2. granted * MicroToken = 0 BY <3>2, PolicyAssumption
      <4> QED BY <2>4, <4>1, <4>2, PolicyFacts
    <3> QED BY <3>1, <3>2 DEF BucketInv, TypeOK
  <2> QED BY <1>0, <2>7 DEF QuotaInv
<1>4. ReplyInv'
  <2>1. last.kind # "none" => last.at <= now + 1 /\ (now >= last.at + ttl_ms => now + 1 >= last.at + ttl_ms)
    BY PolicyFacts DEF BucketInv, TypeOK, ReplyInv
  <2> QED BY <1>0, <2>1 DEF BucketInv, ReplyInv, full_ms, retry_ms, cost, capacity, refill_per_ms, CeilDiv, CapacityOf, RefillOf
<1> QED BY <1>1, <1>2, <1>3, <1>4 DEF BucketInv

\* A clock that is set back takes tokens away for a while, and never adds any.
LEMMA StepBackPreserves == BucketInv /\ StepBack => BucketInv'
<1> SUFFICES ASSUME BucketInv, StepBack PROVE BucketInv' OBVIOUS
<1>0. /\ now' \in 0..(now - 1) /\ elapsed' = elapsed /\ granted' = granted /\ last' = None
      /\ present' = present /\ tokens' = tokens /\ updated' = updated /\ expires' = expires
  BY DEF StepBack, bucket
<1>1. now \in Nat /\ updated \in Nat /\ expires \in Nat /\ tokens \in Nat
  BY DEF BucketInv, TypeOK
<1>2. now' \in Nat /\ now' < now BY <1>0, <1>1
<1>3. TypeOK'
  <2>1. None \in [kind : {"none", "allowed", "denied"}, at : Nat, retry : Nat, full : Nat]
    BY DEF None
  <2>2. None.kind = "none" BY DEF None
  <2> QED BY <1>0, <1>2, <2>1, <2>2 DEF BucketInv, TypeOK
<1>4. ExpiryInv' BY <1>0 DEF BucketInv, ExpiryInv, Owned, None
<1>5. Refilled' <= Refilled /\ Refilled \in Int /\ Refilled' \in Int
  <2> DEFINE g == Greatest(0, now - updated)
             h == Greatest(0, now' - updated)
             R == refill_per_ms
  <2>0. now - updated \in Int /\ now' - updated \in Int /\ now' - updated <= now - updated
    <3>1. \A a, b, c \in Nat : a < b => a - c \in Int /\ b - c \in Int /\ a - c <= b - c
      OBVIOUS
    <3> QED BY ONLY <1>1, <1>2, <3>1, Zenon
  <2>1. g \in Nat /\ h \in Nat /\ h <= g BY <2>0, ElapsedMonotonic
  <2>2. R \in Nat /\ capacity \in Nat BY PolicyFacts
  <2>3. h * R <= g * R BY <2>1, <2>2, MultMonotonic
  <2>4. g * R \in Nat /\ h * R \in Nat BY <2>1, <2>2
  <2>5. Refilled = IF ~Live THEN capacity ELSE Least(capacity, tokens + g * R)
    BY DEF Refilled, Available
  <2>6. Refilled' = IF ~(Live') THEN capacity ELSE Least(capacity, tokens + h * R)
    BY <1>0 DEF Refilled, Available
  <2>7. Live => Live' BY <1>0, <1>1, <1>2 DEF Live
  <2> HIDE DEF g, h, R
  <2> QED BY <1>1, <2>2, <2>3, <2>4, <2>5, <2>6, <2>7 DEF Least
<1>6. QuotaInv'
  <2>1. granted * MicroToken \in Int /\ refill_per_ms * elapsed \in Int
    BY PolicyAssumption, PolicyFacts DEF BucketInv, TypeOK
  <2>2. granted * MicroToken + Refilled <= capacity + refill_per_ms * elapsed
    BY DEF BucketInv, QuotaInv
  <2>3. granted * MicroToken + Refilled' <= capacity + refill_per_ms * elapsed
    BY <1>5, <2>1, <2>2, PolicyFacts
  <2> QED BY <1>0, <2>3 DEF QuotaInv
<1>7. ReplyInv' BY <1>0 DEF ReplyInv, None
<1> QED BY <1>3, <1>4, <1>6, <1>7 DEF BucketInv

\* Deleting an expired key changes nothing that a script could see.
LEMMA ExpirePreserves == BucketInv /\ Expire => BucketInv'
<1> SUFFICES ASSUME BucketInv, Expire PROVE BucketInv' OBVIOUS
<1>0. /\ present /\ now >= expires /\ present' = FALSE
      /\ now' = now /\ elapsed' = elapsed /\ granted' = granted /\ last' = last
      /\ tokens' = tokens /\ updated' = updated /\ expires' = expires
  BY DEF Expire
<1>1. TypeOK' BY <1>0, Zenon DEF BucketInv, TypeOK
<1>2. Refilled' = Refilled
  <2>1. ~Live BY <1>0 DEF Live, BucketInv, TypeOK
  <2>2. ~Live' BY <1>0 DEF Live
  <2> QED BY <2>1, <2>2 DEF Refilled, Available
<1>3. QuotaInv' BY <1>0, <1>2 DEF BucketInv, QuotaInv
<1>4. ReplyInv'
  <2>1. last.kind # "none" => now >= last.at + ttl_ms
    BY <1>0 DEF BucketInv, ReplyInv, ExpiryInv, Owned
  <2> QED BY <1>0, <2>1 DEF BucketInv, ReplyInv, full_ms, retry_ms
<1> QED BY <1>0, <1>1, <1>3, <1>4 DEF BucketInv, ExpiryInv, Owned

\* A window may open at any moment.
LEMMA OpenWindowPreserves == BucketInv /\ OpenWindow => BucketInv'
<1> SUFFICES ASSUME BucketInv, OpenWindow PROVE BucketInv' OBVIOUS
<1>0. /\ granted' = 0 /\ elapsed' = 0 /\ now' = now /\ last' = last
      /\ present' = present /\ tokens' = tokens /\ updated' = updated /\ expires' = expires
  BY DEF OpenWindow, bucket
<1>1. TypeOK' BY <1>0 DEF BucketInv, TypeOK
<1>2. QuotaInv'
  <2>1. Refilled' = Refilled BY <1>0 DEF Refilled, Available, Live
  <2>2. Refilled \in 0..capacity BY RefilledType DEF BucketInv
  <2>3. 0 * MicroToken + Refilled <= capacity + refill_per_ms * 0
    BY <2>2, PolicyFacts, PolicyAssumption
  <2> QED BY <1>0, <2>1, <2>3 DEF QuotaInv
<1>3. ReplyInv' BY <1>0 DEF BucketInv, ReplyInv, full_ms, retry_ms
<1> QED BY <1>0, <1>1, <1>2, <1>3 DEF BucketInv, ExpiryInv, Owned

\* Nothing happens.
LEMMA StutterPreserves == BucketInv /\ UNCHANGED vars => BucketInv'
<1> SUFFICES ASSUME BucketInv, UNCHANGED vars PROVE BucketInv' OBVIOUS
<1>0. /\ granted' = granted /\ elapsed' = elapsed /\ now' = now /\ last' = last
      /\ present' = present /\ tokens' = tokens /\ updated' = updated /\ expires' = expires
  BY DEF vars
<1>1. TypeOK' BY <1>0 DEF BucketInv, TypeOK
<1>2. QuotaInv' BY <1>0 DEF BucketInv, QuotaInv, Refilled, Available, Live
<1>3. ReplyInv' BY <1>0 DEF BucketInv, ReplyInv, full_ms, retry_ms
<1> QED BY <1>0, <1>1, <1>2, <1>3 DEF BucketInv, ExpiryInv, Owned

-----------------------------------------------------------------------------
(* Theorems *)

\* The inductive invariant holds in every reachable state of the bucket.
THEOREM BucketInvariance == Spec => []BucketInv
<1>1. Init => BucketInv BY BucketInit
<1>2. BucketInv /\ [Next]_vars => BucketInv'
  BY AllowPreserves, ExpirePreserves, TickPreserves, StepBackPreserves,
     AllowUnderPreserves, OpenWindowPreserves, StutterPreserves DEF Next
<1> QED BY <1>1, <1>2, PTL DEF Spec

\* The stored token count is never negative, and never above the capacity once a
\* script has run under the policy, whatever the clock does.
THEOREM TypeCorrect == Spec => []TypeOK
<1>1. BucketInv => TypeOK BY DEF BucketInv
<1> QED BY <1>1, BucketInvariance, PTL

\* No window of time under one policy sees more requests allowed than burst plus
\* rate times its length, for every policy, every bucket that an earlier policy
\* left, any number of gateways and any clock steps.
THEOREM WithinQuotaHolds == Spec => []WithinQuota
<1>1. BucketInv => WithinQuota
  <2> SUFFICES ASSUME BucketInv PROVE WithinQuota OBVIOUS
  <2>1. Refilled \in 0..capacity BY RefilledType DEF BucketInv
  <2>2. granted * MicroToken \in Int /\ refill_per_ms * elapsed \in Int
    BY PolicyAssumption, PolicyFacts DEF BucketInv, TypeOK
  <2> QED BY <2>1, <2>2, PolicyFacts DEF BucketInv, QuotaInv, WithinQuota
<1> QED BY <1>1, BucketInvariance, PTL

\* While nobody else calls the script, the bucket grows linearly from what the
\* latest reply left, and an expired key counts as full.
LEMMA LinearRefill ==
    ASSUME BucketInv, last.kind # "none"
    PROVE  /\ now - last.at \in Nat
           /\ Refilled = Least(capacity, tokens + (now - last.at) * refill_per_ms)
<1> DEFINE g == now - last.at
<1>1. /\ now \in Nat /\ updated \in Nat /\ expires \in Nat /\ tokens \in 0..capacity
      /\ last.at = updated /\ updated <= now /\ present \in BOOLEAN
      /\ present \/ now >= updated + ttl_ms
      /\ present => expires = updated + ttl_ms
  BY DEF BucketInv, TypeOK, ReplyInv, ExpiryInv, Owned
<1>2. g \in Nat /\ g = now - updated BY <1>1
<1>3. CASE Live
  <2>1. Greatest(0, now - updated) = g BY <1>1, <1>2 DEF Greatest
  <2> QED BY <1>2, <1>3, <2>1 DEF Refilled, Available
<1>4. CASE ~Live
  <2>1. g >= ttl_ms BY <1>1, <1>2, <1>4, PolicyFacts DEF Live
  <2> HIDE DEF g
  <2>2. ttl_ms * refill_per_ms <= g * refill_per_ms
    BY <1>2, <2>1, PolicyFacts, MultMonotonic
  <2>3. g * refill_per_ms >= capacity /\ g * refill_per_ms \in Int
    BY <1>2, <2>2, TtlFillsBucket, PolicyFacts
  <2>4. Least(capacity, tokens + g * refill_per_ms) = capacity
    BY <1>1, <2>3, PolicyFacts DEF Least
  <2> QED BY <1>2, <1>4, <2>4 DEF Refilled, Available, g
<1> QED BY <1>3, <1>4, <1>2

\* retry_ms is the exact delay after which the denied client is served.
THEOREM RetryIsExactHolds == Spec => []RetryIsExact
<1>1. BucketInv => RetryIsExact
  <2> SUFFICES ASSUME BucketInv, last.kind = "denied"
               PROVE  Refilled >= cost <=> now >= last.at + last.retry
    BY DEF RetryIsExact
  <2> DEFINE d == now - last.at
             need == cost - tokens
  <2>1. d \in Nat /\ Refilled = Least(capacity, tokens + d * refill_per_ms) BY LinearRefill
  <2>2. /\ tokens \in 0..capacity /\ tokens < cost /\ last.retry = CeilDiv(need, refill_per_ms)
        /\ now \in Nat /\ last.at \in Nat
    BY DEF BucketInv, TypeOK, ReplyInv, retry_ms
  <2>3. need \in Nat BY <2>2, PolicyFacts
  <2>4. refill_per_ms \in Nat \ {0} BY PolicyFacts
  <2> HIDE DEF d
  <2>5. CeilDiv(need, refill_per_ms) \in Nat
        /\ (d * refill_per_ms >= need <=> d >= CeilDiv(need, refill_per_ms))
    <3> HIDE DEF need
    <3> QED BY <2>1, <2>3, <2>4, CeilDivIsExact
  <2>6. d * refill_per_ms \in Nat BY <2>1, <2>4
  <2>7. Refilled >= cost <=> d * refill_per_ms >= need
    BY <2>1, <2>2, <2>6, PolicyFacts DEF Least
  <2>8. d >= last.retry <=> now >= last.at + last.retry
    BY <2>2, <2>5 DEF d
  <2> QED BY <2>2, <2>5, <2>7, <2>8
<1> QED BY <1>1, BucketInvariance, PTL

\* full_ms is the exact delay after which the bucket is full.
THEOREM ResetIsExactHolds == Spec => []ResetIsExact
<1>1. BucketInv => ResetIsExact
  <2> SUFFICES ASSUME BucketInv, last.kind # "none"
               PROVE  Refilled = capacity <=> now >= last.at + last.full
    BY DEF ResetIsExact
  <2> DEFINE d == now - last.at
             need == capacity - tokens
  <2>1. d \in Nat /\ Refilled = Least(capacity, tokens + d * refill_per_ms) BY LinearRefill
  <2>2. /\ tokens \in 0..capacity /\ last.full = CeilDiv(need, refill_per_ms)
        /\ now \in Nat /\ last.at \in Nat
    BY DEF BucketInv, TypeOK, ReplyInv, full_ms
  <2>3. need \in Nat BY <2>2, PolicyFacts
  <2>4. refill_per_ms \in Nat \ {0} BY PolicyFacts
  <2> HIDE DEF d
  <2>5. CeilDiv(need, refill_per_ms) \in Nat
        /\ (d * refill_per_ms >= need <=> d >= CeilDiv(need, refill_per_ms))
    <3> HIDE DEF need
    <3> QED BY <2>1, <2>3, <2>4, CeilDivIsExact
  <2>6. d * refill_per_ms \in Nat BY <2>1, <2>4
  <2>7. Refilled = capacity <=> d * refill_per_ms >= need
    BY <2>1, <2>2, <2>6, PolicyFacts DEF Least
  <2>8. d >= last.full <=> now >= last.at + last.full
    BY <2>2, <2>5 DEF d
  <2> QED BY <2>2, <2>5, <2>7, <2>8
<1> QED BY <1>1, BucketInvariance, PTL

\* A client that waits for the seconds of the Retry-After header is served if
\* nobody else takes its token.
THEOREM RetryAfterIsEnoughHolds == Spec => []RetryAfterIsEnough
<1>1. BucketInv /\ RetryIsExact => RetryAfterIsEnough
  <2> SUFFICES ASSUME BucketInv, RetryIsExact, last.kind = "denied"
               PROVE  /\ RetryAfterSeconds(last.retry) >= 1
                      /\ now >= last.at + RetryAfterSeconds(last.retry) * Second => Refilled >= cost
    BY DEF RetryAfterIsEnough
  <2> DEFINE w == last.retry
             q == CeilDiv(w, Second)
             s == RetryAfterSeconds(w)
  <2>1. w \in Nat /\ now \in Nat /\ last.at \in Nat /\ Second \in Nat \ {0}
    BY PolicyAssumption DEF BucketInv, TypeOK
  <2>2. s = Greatest(1, q) BY DEF RetryAfterSeconds, CeilDiv
  <2>3. Refilled >= cost <=> now >= last.at + w BY DEF RetryIsExact
  <2> HIDE DEF w
  <2>4. 0 \in Nat OBVIOUS
  <2>5. q \in Nat BY <2>1, <2>4, CeilDivIsExact
  <2>6. q * Second >= w BY <2>1, <2>5, CeilDivIsExact
  <2> HIDE DEF q, s
  <2>7. s \in Nat /\ s >= 1 /\ q <= s BY <2>2, <2>5 DEF Greatest
  <2>8. q * Second <= s * Second BY <2>1, <2>5, <2>7, MultMonotonic
  <2>9. now >= last.at + s * Second => Refilled >= cost
    BY <2>1, <2>3, <2>5, <2>6, <2>7, <2>8
  <2> QED BY <2>7, <2>9 DEF s, w
<1> QED BY <1>1, BucketInvariance, RetryIsExactHolds, PTL
=============================================================================
