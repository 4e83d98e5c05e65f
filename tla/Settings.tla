------------------------------ MODULE Settings ------------------------------
(***************************************************************************)
(* How the gateway and gateway-admin read their environment, and which     *)
(* settings each constructor accepts (internal/config/config.go, the env   *)
(* helpers of cmd/gateway-admin/main.go, auth.NewService,                  *)
(* usage.NewPipeline, gateway.NewHandler).                                 *)
(*                                                                         *)
(* A text variable is the name of its trimmed text and the number of blanks *)
(* around it; a numeric one is Unset, Malformed or its value.  Durations   *)
(* are in milliseconds.  Variables that no constructor checks are left out. *)
(*                                                                         *)
(* Definitions whose name ends in _Bug are deliberately wrong variants.    *)
(***************************************************************************)
EXTENDS Integers

CONSTANTS Unset, Malformed

-----------------------------------------------------------------------------
(* Text variables *)

TextLength == [none |-> 0, short |-> 8, secret |-> 32, development |-> 25]
Text(name, blanks) == [text |-> name, blanks |-> blanks]
Length(raw) == TextLength[raw.text] + raw.blanks
TrimSpace(raw) == [raw EXCEPT !.blanks = 0]

\* env of the gateway trims the value, env of gateway-admin takes it as it is.
env(raw, fallback) == IF Length(TrimSpace(raw)) = 0 THEN fallback ELSE TrimSpace(raw)
adminEnv(raw, fallback) == IF Length(raw) = 0 THEN fallback ELSE raw

DevelopmentPepper == Text("development", 0)
LongEnough(pepper) == Length(pepper) >= 16

\* The pepper of the gateway and that of gateway-admin, from one API_KEY_PEPPER.
APIKeyPepper(raw) == env(raw, DevelopmentPepper)
apiKeyPepper(raw) == adminEnv(raw, DevelopmentPepper)

-----------------------------------------------------------------------------
(* The gateway's configuration *)

Fallback == [RedisDB |-> 0, QueueCapacity |-> 1024, BatchSize |-> 100, MaxAttempts |-> 3,
             FlushInterval |-> 1000, RetryBaseDelay |-> 100, UsageShutdownTimeout |-> 5000]
Numbers == DOMAIN Fallback

\* envInt and envDuration, which fail on what they cannot parse.
Parsed(e) == \A f \in Numbers : e.numbers[f] # Malformed
Number(e, f) == IF e.numbers[f] = Unset THEN Fallback[f] ELSE e.numbers[f]

\* The Config that Load returns; absolute tells which upstream URLs are absolute.
Config(e) ==
    [pepper |-> APIKeyPepper(e.pepper), absolute |-> e.absolute,
     numbers |-> [f \in Numbers |-> Number(e, f)]]

LoadAccepts_Bug(e) ==
    /\ Parsed(e)
    /\ LET cfg == Config(e) n == cfg.numbers
       IN  /\ LongEnough(cfg.pepper)
           /\ \A f \in Numbers \ {"RedisDB"} : n[f] > 0

\* The checks of Load.
LoadAccepts(e) ==
    /\ Parsed(e)
    /\ LET cfg == Config(e) n == cfg.numbers
       IN  /\ LongEnough(cfg.pepper)
           /\ n.QueueCapacity > 0 /\ n.BatchSize > 0 /\ n.BatchSize <= n.QueueCapacity
           /\ n.MaxAttempts > 0 /\ n.FlushInterval > 0 /\ n.RetryBaseDelay > 0
           /\ n.UsageShutdownTimeout > 0

NewServiceAccepts(cfg) == LongEnough(cfg.pepper)

NewPipelineAccepts(cfg) ==
    LET n == cfg.numbers
    IN  /\ n.QueueCapacity > 0 /\ n.BatchSize > 0 /\ n.BatchSize <= n.QueueCapacity
        /\ n.FlushInterval > 0 /\ n.MaxAttempts > 0 /\ n.RetryBaseDelay > 0

NewHandlerAccepts(cfg) == cfg.absolute = {"USER_SERVICE_URL", "ORDER_SERVICE_URL"}

-----------------------------------------------------------------------------
(* The delay before a retry *)

MaximumDelay == 30000

\* One round of the loop.
Doubled(delay) ==
    IF delay >= MaximumDelay THEN delay
    ELSE IF delay > MaximumDelay \div 2 THEN MaximumDelay
    ELSE 2 * delay

retryDelay_Bug(base, failedAttempt) ==
    LET delay[i \in 1..failedAttempt] == IF i = 1 THEN base ELSE Doubled(delay[i - 1])
    IN  delay[failedAttempt]

\* delay[i] is the value of delay after i - 1 rounds.
retryDelay(base, failedAttempt) ==
    LET delay[i \in 1..failedAttempt] == IF i = 1 THEN base ELSE Doubled(delay[i - 1])
    IN  IF delay[failedAttempt] > MaximumDelay THEN MaximumDelay ELSE delay[failedAttempt]
=============================================================================
