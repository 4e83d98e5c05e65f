---------------------------- MODULE RateLimiter ----------------------------
(***************************************************************************)
(* The token bucket of internal/ratelimit/redis.go: one Redis hash, for    *)
(* one API key and route, on which any number of gateway processes run     *)
(* the Lua script.  Redis executes a script atomically, so a call of Allow *)
(* from any gateway is one step here; a call whose reply is lost, or that  *)
(* the client library sends again, is one more step.                       *)
(*                                                                         *)
(* MicroToken and Second are 1000000 and 1000 in the code; the model only  *)
(* needs Second to divide MicroToken.  All quantities the script computes  *)
(* are then integers, so its math.floor calls do nothing, and with 32-bit  *)
(* policies (migrations/001_api_keys.sql) they stay below 2^53, the        *)
(* integers a Lua number represents exactly.                               *)
(*                                                                         *)
(* Definitions whose name ends in _Bug are deliberately wrong variants.    *)
(***************************************************************************)
EXTENDS Integers

CONSTANTS
    RatePerSecond, BurstCapacity,   \* the policy whose quota is observed
    OtherPolicies,                  \* policies the key had before, or gets meanwhile
    MicroToken,                     \* cost of a request
    Second,                         \* milliseconds in a second
    MaxTime                         \* bound on the clock and on a window

ASSUME PolicyAssumption ==
    /\ RatePerSecond \in Nat \ {0} /\ BurstCapacity \in Nat \ {0}
    /\ MicroToken \in Nat \ {0} /\ Second \in Nat \ {0}
    /\ MicroToken % Second = 0

ASSUME OtherPoliciesAssumption ==
    OtherPolicies \subseteq [rate : Nat \ {0}, burst : Nat \ {0}]

ASSUME MaxTimeAssumption == MaxTime \in Nat

VARIABLES
    now,        \* Redis TIME, in milliseconds
    present,    \* whether the key is in the keyspace
    tokens, updated, expires,   \* its two fields and its expiry time
    last,       \* the latest reply, as long as the clock has not gone back
    granted,    \* requests allowed since the current window of time opened
    elapsed     \* milliseconds that have passed in it

\* A window ends with the first script that runs under another policy.

bucket == <<present, tokens, updated, expires>>
vars == <<now, present, tokens, updated, expires, last, granted, elapsed>>

\* The arguments that Allow derives from a policy.
CapacityOf(burst) == burst * MicroToken
RefillOf(rate) == rate * (MicroToken \div Second)
TtlOf_Bug(rate, burst) == (burst * Second) \div (rate * 2)

TtlOf(rate, burst) == ((burst * Second) \div rate) * 2 + Second

capacity == CapacityOf(BurstCapacity)
refill_per_ms == RefillOf(RatePerSecond)
ttl_ms == TtlOf(RatePerSecond, BurstCapacity)
cost == MicroToken

Least(a, b) == IF a <= b THEN a ELSE b
Greatest(a, b) == IF a >= b THEN a ELSE b
CeilDiv(a, b) == (a + b - 1) \div b

\* The key as HMGET sees it: an expired key is gone before it has been deleted.
Live == present /\ now < expires

\* The tokens a script finds now, for its capacity and its refill per millisecond.
Available(full, rate) ==
    IF ~Live THEN full ELSE Least(full, tokens + Greatest(0, now - updated) * rate)

Refilled == Available(capacity, refill_per_ms)

None == [kind |-> "none", at |-> 0, retry |-> 0, full |-> 0]

Init ==
    /\ now = 0 /\ present = FALSE /\ tokens = 0 /\ updated = 0 /\ expires = 0
    /\ last = None /\ granted = 0 /\ elapsed = 0

retry_ms_Bug(left) == (cost - left) \div refill_per_ms

retry_ms(left) == CeilDiv(cost - left, refill_per_ms)

full_ms_Bug(left) == CeilDiv(capacity - left, cost)

full_ms(left) == CeilDiv(capacity - left, refill_per_ms)

\* The whole script: refill, take a token if there is one, save, set the expiry.
Allow ==
    LET allowed == Refilled >= cost
        left == IF allowed THEN Refilled - cost ELSE Refilled
    IN  /\ present' = TRUE
        /\ tokens' = left
        /\ updated' = now
        /\ expires' = now + ttl_ms
        /\ granted' = IF allowed THEN granted + 1 ELSE granted
        /\ last' = [kind |-> IF allowed THEN "allowed" ELSE "denied", at |-> now,
                    retry |-> IF allowed THEN 0 ELSE retry_ms(left),
                    full |-> full_ms(left)]
        /\ UNCHANGED <<now, elapsed>>

\* The same script for a request whose Principal was loaded under another policy:
\* before set-route-quota, or a plan change, took effect, or after the next one.
AllowUnder(p) ==
    LET found == Available(CapacityOf(p.burst), RefillOf(p.rate))
    IN  /\ present' = TRUE
        /\ tokens' = IF found >= cost THEN found - cost ELSE found
        /\ updated' = now
        /\ expires' = now + TtlOf(p.rate, p.burst)
        /\ last' = None /\ granted' = 0 /\ elapsed' = 0
        /\ UNCHANGED now

\* Redis deletes an expired key at some later moment.
Expire ==
    /\ present /\ now >= expires
    /\ present' = FALSE
    /\ UNCHANGED <<now, tokens, updated, expires, last, granted, elapsed>>

Tick ==
    /\ now < MaxTime /\ elapsed < MaxTime
    /\ now' = now + 1
    /\ elapsed' = elapsed + 1
    /\ UNCHANGED <<bucket, last, granted>>

\* The server's wall clock is set back.
StepBack ==
    /\ now' \in 0..(now - 1)
    /\ last' = None
    /\ UNCHANGED <<bucket, granted, elapsed>>

\* An observer starts to count, at any moment, so that the properties about a
\* window hold of every window.
OpenWindow ==
    /\ granted' = 0 /\ elapsed' = 0
    /\ UNCHANGED <<now, bucket, last>>

Next == Allow \/ (\E p \in OtherPolicies : AllowUnder(p)) \/ Expire \/ Tick \/ StepBack \/ OpenWindow

Spec == Init /\ [][Next]_vars

-----------------------------------------------------------------------------
(* The Retry-After header of the gateway's 429 (handler.go) *)

RetryAfterSeconds_Bug(retryAfter) == retryAfter \div Second

RetryAfterSeconds(retryAfter) == Greatest(1, (retryAfter + Second - 1) \div Second)

-----------------------------------------------------------------------------
(* Properties *)

\* Types: the script never stores a negative number of tokens, also when the clock
\* is set back, nor more than the capacity once it has run under this policy.
TypeOK ==
    /\ now \in Nat /\ present \in BOOLEAN
    /\ tokens \in Nat /\ (last.kind # "none" => tokens <= capacity) /\ updated \in Nat /\ expires \in Nat
    /\ last \in [kind : {"none", "allowed", "denied"}, at : Nat, retry : Nat, full : Nat]
    /\ granted \in Nat /\ elapsed \in Nat

\* In every window of time in which the scripts run under one policy, all gateways
\* together allow at most burst plus rate times the length of the window requests:
\* no bucket, time to live or clock that an earlier policy has left, no expiry of
\* the key and no Redis clock that is set back gives a client extra requests.
WithinQuota == granted * MicroToken <= capacity + refill_per_ms * elapsed

\* retry_ms is exact: with no other request in between, a denied client succeeds
\* from that moment on, and not a millisecond earlier.
RetryIsExact ==
    last.kind = "denied" => (Refilled >= cost <=> now >= last.at + last.retry)

\* Waiting for the whole seconds of the Retry-After header is enough, and the
\* header never says zero.
RetryAfterIsEnough ==
    last.kind = "denied" =>
        /\ RetryAfterSeconds(last.retry) >= 1
        /\ now >= last.at + RetryAfterSeconds(last.retry) * Second => Refilled >= cost

\* full_ms is exact: the bucket is full from that moment on and not before, also
\* if the key expires meanwhile.
ResetIsExact ==
    last.kind # "none" => (Refilled = capacity <=> now >= last.at + last.full)
=============================================================================
