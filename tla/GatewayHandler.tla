--------------------------- MODULE GatewayHandler ---------------------------
(***************************************************************************)
(* The protected half of internal/gateway/handler.go: requests that run    *)
(* concurrently through requestID, instrument, recoverPanic, authenticate, *)
(* rateLimit and route, while an operator revokes and restores API keys    *)
(* and Prometheus scrapes the metrics registry.                            *)
(*                                                                         *)
(* PostgreSQL, Redis and the upstream services answer as they like; what   *)
(* the limiter decides is RateLimiter's subject, what becomes of a usage   *)
(* event after Enqueue is UsagePipeline's.  The nil checks for the         *)
(* authenticator, the limiter and the principal are left out: main.go      *)
(* always sets the first two, and authenticate the third.  So are the byte *)
(* count and the duration, which only travel along.                        *)
(*                                                                         *)
(* trail is a history variable: what happened to a request on its way.     *)
(* Definitions whose name ends in _Bug are deliberately wrong variants.    *)
(***************************************************************************)
EXTENDS Integers, Sequences, FiniteSets, Functions

CONSTANTS
    Requests,           \* requests, each handled by a goroutine of its own
    Keys,               \* API keys in PostgreSQL
    NoKey,              \* a header that names no key of PostgreSQL
    Blank,              \* the header is absent or blank
    Paths,              \* paths below /api/ that clients ask for
    UpstreamStatuses    \* final statuses that upstream services answer

ASSUME KeysAssumption == NoKey \notin Keys /\ Blank \notin Keys
ASSUME RequestsAssumption == IsFiniteSet(Requests)
ASSUME PathsAssumption == Paths \subseteq {"/api/users", "/api/users/7", "/api/orders", "/api/other"}
ASSUME StatusAssumption == UpstreamStatuses \subseteq 200..599

VARIABLES
    failOpen,                       \* RATE_LIMIT_FAIL_OPEN
    active,                         \* keys whose revoked_at is NULL
    pc, input, w, capture,          \* per request: position, request, writer, usageCapture
    requests, inFlight, responses,  \* metrics.Registry
    scrape,                         \* a scrape under way: what it has read so far
    events,                         \* usage events handed to the pipeline
    trail, barred                   \* history; requests whose key is revoked throughout

request == <<pc, input, w, capture, trail>>
metrics == <<requests, inFlight, responses>>
vars == <<failOpen, active, pc, input, w, capture, requests, inFlight, responses,
          scrape, events, trail, barred>>

None == [key |-> NoKey, path |-> "none"]
NoPrincipal == NoKey

Statuses == {103, 401, 404, 429, 500, 502, 503} \cup UpstreamStatuses \cup {200}

-----------------------------------------------------------------------------
(* Response writers *)

\* net/http: an interim response commits nothing, the first final status counts
\* and takes the header map with it.
NetWriteHeader(x, status) ==
    IF status < 200 \/ x.sent # 0 THEN x
    ELSE [x EXCEPT !.sent = status, !.sentHeader = x.header]

WriteHeader_Bug(x, status) ==
    NetWriteHeader([x EXCEPT !.wroteHeader = TRUE, !.status = status], status)

\* statusRecorder.WriteHeader
WriteHeader(x, status) ==
    IF x.wroteHeader THEN x
    ELSE NetWriteHeader([x EXCEPT !.wroteHeader = TRUE, !.status = status], status)

\* statusRecorder.Write
Write(x) == NetWriteHeader(IF x.wroteHeader THEN x ELSE WriteHeader(x, 200), 200)

SetHeader(x, names) == [x EXCEPT !.header = @ \cup names]

writeJSON(x, status) == Write(WriteHeader(SetHeader(x, {"Content-Type"}), status))

RateLimitHeaders == {"X-RateLimit-Limit", "X-RateLimit-Remaining", "X-RateLimit-Reset",
                     "X-RateLimit-Policy"}

routeKey_Bug(path) == path

routeKey(path) ==
    CASE path \in {"/api/users", "/api/users/7"} -> "/api/users"
      [] path = "/api/orders"                    -> "/api/orders"
      [] OTHER                                   -> "/api/unknown"

-----------------------------------------------------------------------------
(* The handler chain *)

Init ==
    /\ failOpen \in BOOLEAN
    /\ active \in SUBSET Keys
    /\ pc = [r \in Requests |-> "new"]
    /\ input = [r \in Requests |-> None]
    /\ w = [r \in Requests |-> [status |-> 200, wroteHeader |-> FALSE, header |-> {},
                                sent |-> 0, sentHeader |-> {}]]
    /\ capture = [r \in Requests |-> NoPrincipal]
    /\ requests = 0 /\ inFlight = 0
    /\ responses = [s \in Statuses |-> 0]
    /\ scrape = <<>>
    /\ events = {}
    /\ trail = [r \in Requests |-> {}]
    /\ barred = {}

\* The rest of a handler step: r moves on, the response becomes x, what is noted.
Continue(r, at, x, note) ==
    /\ pc' = [pc EXCEPT ![r] = at]
    /\ w' = [w EXCEPT ![r] = x]
    /\ trail' = [trail EXCEPT ![r] = @ \cup note]
    /\ UNCHANGED <<failOpen, active, input, scrape, events, barred>>

\* requestID, and instrument up to the call of the next handler.
Begin(r) ==
    /\ pc[r] = "new"
    /\ \E key \in Keys \cup {NoKey, Blank}, path \in Paths :
          /\ input' = [input EXCEPT ![r] = [key |-> key, path |-> path]]
          /\ barred' = IF key \in active THEN barred ELSE barred \cup {r}
    /\ requests' = requests + 1 /\ inFlight' = inFlight + 1
    /\ pc' = [pc EXCEPT ![r] = "authenticate"]
    /\ w' = [w EXCEPT ![r] = SetHeader(@, {"X-Request-ID"})]
    /\ UNCHANGED <<failOpen, active, capture, responses, scrape, events, trail>>

LookupActiveKey_Bug(key) == key \in Keys

LookupActiveKey(key) == key \in active

\* What auth.Service.Authenticate may answer: a blank key is invalid without a lookup,
\* any other one is what PostgreSQL says, if it answers.
ServiceAuthenticate(key) ==
    IF key = Blank THEN {"invalid"}
    ELSE {IF LookupActiveKey(key) THEN "ok" ELSE "invalid", "failed"}

AuthenticateOk(r) ==
    /\ pc[r] = "authenticate" /\ "ok" \in ServiceAuthenticate(input[r].key)
    /\ capture' = [capture EXCEPT ![r] = input[r].key]
    /\ Continue(r, "rateLimit", w[r], {"authenticated"})
    /\ UNCHANGED metrics

AuthenticateRejects(r) ==
    /\ pc[r] = "authenticate" /\ "invalid" \in ServiceAuthenticate(input[r].key)
    /\ Continue(r, "finish", writeJSON(SetHeader(w[r], {"WWW-Authenticate"}), 401), {"rejected"})
    /\ UNCHANGED <<capture, metrics>>

AuthenticateFails_Bug(r) ==
    /\ pc[r] = "authenticate" /\ "failed" \in ServiceAuthenticate(input[r].key)
    /\ Continue(r, "finish", writeJSON(SetHeader(w[r], {"WWW-Authenticate"}), 401), {"lookupFailed"})
    /\ UNCHANGED <<capture, metrics>>

AuthenticateFails(r) ==
    /\ pc[r] = "authenticate" /\ "failed" \in ServiceAuthenticate(input[r].key)
    /\ Continue(r, "finish", writeJSON(w[r], 503), {"lookupFailed"})
    /\ UNCHANGED <<capture, metrics>>

Authenticate(r) == AuthenticateOk(r) \/ AuthenticateRejects(r) \/ AuthenticateFails(r)

LimiterAllows(r) ==
    /\ pc[r] = "rateLimit"
    /\ Continue(r, "route", SetHeader(w[r], RateLimitHeaders), {"granted"})

LimiterDenies_Bug(r) ==
    /\ pc[r] = "rateLimit"
    /\ Continue(r, "finish", SetHeader(writeJSON(w[r], 429), RateLimitHeaders \cup {"Retry-After"}),
                {"denied"})

LimiterDenies(r) ==
    /\ pc[r] = "rateLimit"
    /\ Continue(r, "finish", writeJSON(SetHeader(w[r], RateLimitHeaders \cup {"Retry-After"}), 429),
                {"denied"})

LimiterFails_Bug(r) ==
    /\ pc[r] = "rateLimit"
    /\ Continue(r, "route", w[r], {"limiterFailed"})

LimiterFails(r) ==
    /\ pc[r] = "rateLimit"
    /\ IF failOpen THEN Continue(r, "route", w[r], {"limiterFailed"})
                   ELSE Continue(r, "finish", writeJSON(w[r], 503), {"limiterFailed"})

RateLimit(r) ==
    /\ LimiterAllows(r) \/ LimiterDenies(r) \/ LimiterFails(r)
    /\ UNCHANGED <<capture, metrics>>

Route(r) ==
    /\ pc[r] = "route"
    /\ IF routeKey(input[r].path) = "/api/unknown"
       THEN Continue(r, "finish", writeJSON(w[r], 404), {"noRoute"})
       ELSE Continue(r, "proxy", w[r], {"proxied"})
    /\ UNCHANGED <<capture, metrics>>

\* httputil.ReverseProxy forwards an interim response and clears the header map.
ProxyInterim(r) ==
    /\ pc[r] = "proxy" /\ "interim" \notin trail[r]
    /\ Continue(r, "proxy", [WriteHeader(w[r], 103) EXCEPT !.header = {}], {"interim"})

\* The upstream cannot be reached, or fails before its response header: ErrorHandler.
ProxyFails(r) ==
    /\ pc[r] = "proxy"
    /\ Continue(r, "finish", writeJSON(w[r], 502), {"upstreamFailed"})

ProxyResponds(r) ==
    /\ pc[r] = "proxy"
    /\ \E status \in UpstreamStatuses :
          Continue(r, "body", WriteHeader(SetHeader(w[r], {"X-Upstream-Service"}), status),
                   {"responded"})

\* The whole body is copied; an empty one writes nothing.
ProxyCopies(r) ==
    /\ pc[r] = "body"
    /\ \E x \in {w[r], Write(w[r])} : Continue(r, "finish", x, {})

recoverPanic_Bug(r) ==
    /\ pc[r] = "body"
    /\ Continue(r, "done", writeJSON(w[r], 500), {"aborted"})

\* Copying fails, ReverseProxy panics with ErrAbortHandler and recoverPanic writes
\* its 500 through the recorder.
recoverPanic(r) ==
    /\ pc[r] = "body"
    /\ Continue(r, "finish", writeJSON(w[r], 500), {"aborted"})

Proxy(r) ==
    /\ \/ ProxyInterim(r) \/ ProxyFails(r) \/ ProxyResponds(r) \/ ProxyCopies(r)
       \/ recoverPanic(r)
    /\ UNCHANGED <<capture, metrics>>

\* The deferred function of instrument: finish, then enqueueUsage.  The handler
\* returns after it, and net/http sends 200 if nobody has sent a status.
FinishInFlight(r) ==
    /\ pc[r] = "finish"
    /\ inFlight' = inFlight - 1
    /\ Continue(r, "count", w[r], {})
    /\ UNCHANGED <<capture, requests, responses>>

FinishCount(r) ==
    /\ pc[r] = "count"
    /\ responses' = [responses EXCEPT ![w[r].status] = @ + 1]
    /\ Continue(r, "usage", w[r], {})
    /\ UNCHANGED <<capture, requests, inFlight>>

\* Event.Validate, which Enqueue calls.  A drawn event ID is not blank, every route
\* begins with a slash, and net/http and the clock see to the other fields.
Validate(e) == e.key # NoPrincipal /\ e.status \in 100..599

enqueueUsage(r) ==
    /\ pc[r] = "usage"
    /\ pc' = [pc EXCEPT ![r] = "done"]
    /\ w' = [w EXCEPT ![r] = NetWriteHeader(@, 200)]
    /\ \/ /\ capture[r] # NoPrincipal
          /\ events' = events \cup {[request |-> r, key |-> capture[r],
                                     route |-> routeKey(input[r].path), status |-> w[r].status]}
          /\ trail' = trail
       \/ capture[r] = NoPrincipal /\ UNCHANGED <<events, trail>>
       \/ /\ capture[r] # NoPrincipal     \* NewEventID fails
          /\ trail' = [trail EXCEPT ![r] = @ \cup {"noEventID"}]
          /\ events' = events
    /\ UNCHANGED <<failOpen, active, input, capture, metrics, scrape, barred>>

Handle(r) ==
    \/ Begin(r) \/ Authenticate(r) \/ RateLimit(r) \/ Route(r) \/ Proxy(r)
    \/ FinishInFlight(r) \/ FinishCount(r) \/ enqueueUsage(r)

-----------------------------------------------------------------------------
(* The operator and Prometheus *)

RevokeKey(key) ==
    /\ active' = active \ {key}
    /\ UNCHANGED <<failOpen, request, metrics, scrape, events, barred>>

\* bootstrap clears revoked_at; a request that is under way may find either state.
RestoreKey(key) ==
    /\ active' = active \cup {key}
    /\ barred' = {r \in barred : input[r].key # key}
    /\ UNCHANGED <<failOpen, request, metrics, scrape, events>>

ScrapeOrder_Bug == <<"requests", "responses">>

\* ServeHTTP copies the response map under the lock first, and loads the request
\* counter later.
ScrapeOrder == <<"responses", "requests">>

Total(f) == FoldFunction(LAMBDA a, b : a + b, 0, f)

Scrape ==
    /\ scrape' = IF Len(scrape) = Len(ScrapeOrder) THEN <<>>
                 ELSE Append(scrape, IF ScrapeOrder[Len(scrape) + 1] = "requests"
                                     THEN requests ELSE Total(responses))
    /\ UNCHANGED <<failOpen, active, request, metrics, events, barred>>

Next ==
    \/ \E r \in Requests : Handle(r)
    \/ \E key \in Keys : RevokeKey(key) \/ RestoreKey(key)
    \/ Scrape

Spec == Init /\ [][Next]_vars

-----------------------------------------------------------------------------
(* Properties *)

Interim(r) == "interim" \in trail[r]
Done(r) == pc[r] = "done"

\* Types: the in-flight gauge never goes below zero, and the client gets one final
\* status (0 while none is sent).
TypeOK ==
    /\ failOpen \in BOOLEAN /\ active \subseteq Keys
    /\ pc \in [Requests -> {"new", "authenticate", "rateLimit", "route", "proxy", "body",
                            "finish", "count", "usage", "done"}]
    /\ \A r \in Requests :
          /\ w[r].status \in Statuses /\ w[r].sent \in (Statuses \ {103}) \cup {0}
          /\ capture[r] \in Keys \cup {NoPrincipal}
    /\ requests \in Nat /\ inFlight \in Nat /\ responses \in [Statuses -> Nat]

\* authenticate and rateLimit guard the proxies: a request reaches an upstream only
\* if its key was found and the limiter granted it, or could not be asked while
\* RATE_LIMIT_FAIL_OPEN is set.
ProxiedOnlyIfGranted ==
    \A r \in Requests : "proxied" \in trail[r] =>
        /\ "authenticated" \in trail[r]
        /\ "granted" \in trail[r] \/ ("limiterFailed" \in trail[r] /\ failOpen)

\* LookupActiveKey runs for every request: one that began after its key was revoked,
\* with no restore since, is neither limited nor proxied nor recorded as usage,
\* however it interleaves with other requests and with the operator.
RevocationIsImmediate ==
    \A r \in barred :
        /\ trail[r] \cap {"authenticated", "granted", "denied", "proxied"} = {}
        /\ \A e \in events : e.request # r

\* Every authenticated request leaves exactly one usage event, whether it was denied,
\* unroutable, failed or aborted, unless no event ID could be drawn; no other request
\* leaves any.  The event carries the key of the request, a normalized route and the
\* status that was counted, and Enqueue does not refuse it as invalid.
UsageIsExact ==
    \A r \in Requests :
        LET mine == {e \in events : e.request = r}
        IN  /\ Done(r) => Cardinality(mine) =
                  IF "authenticated" \in trail[r] /\ "noEventID" \notin trail[r] THEN 1 ELSE 0
            /\ \A e \in mine : /\ e.key = input[r].key /\ e.status = w[r].status /\ Validate(e)
                               /\ e.route \in {"/api/users", "/api/orders", "/api/unknown"}

\* The registry accounts for every request once: the gauge returns to the number of
\* requests in the chain and every finished one is counted under its recorded status,
\* also when the handler panicked.
CountersAgree ==
    /\ requests = Cardinality({r \in Requests : pc[r] # "new"})
    /\ inFlight = Cardinality({r \in Requests : pc[r] \notin {"new", "count", "usage", "done"}})
    /\ \A s \in Statuses :
          responses[s] = Cardinality({r \in Requests : pc[r] \in {"usage", "done"} /\ w[r].status = s})

\* ServeHTTP reads the registry while requests go on: a scrape never reports more
\* responses than requests.
ScrapeIsConsistent ==
    Len(scrape) = 2 =>
        \A i, j \in 1..2 : ScrapeOrder[i] = "responses" /\ ScrapeOrder[j] = "requests"
                              => scrape[i] <= scrape[j]

\* The responses of the failure table: each refusal and failure reaches the client
\* under its own status, unless the upstream had sent an interim response before, and
\* a request without a key gets its 401 also while PostgreSQL fails.
FailureStatuses ==
    \A r \in Requests : Done(r) /\ ~Interim(r) =>
        /\ input[r].key = Blank => w[r].sent = 401
        /\ "rejected" \in trail[r] <=> w[r].sent = 401 /\ "responded" \notin trail[r]
        /\ "denied" \in trail[r] => w[r].sent = 429
        /\ "lookupFailed" \in trail[r] => w[r].sent = 503
        /\ "limiterFailed" \in trail[r] /\ ~failOpen => w[r].sent = 503
        /\ "noRoute" \in trail[r] => w[r].sent = 404
        /\ "upstreamFailed" \in trail[r] => w[r].sent = 502

\* A response carries the rate-limit headers if and only if the limiter decided, and
\* Retry-After if and only if it denied; every response carries its request ID.
HeadersMatchDecision ==
    \A r \in Requests : Done(r) /\ ~Interim(r) =>
        /\ trail[r] \cap {"granted", "denied"} # {} <=> RateLimitHeaders \subseteq w[r].sentHeader
        /\ "denied" \in trail[r] <=> "Retry-After" \in w[r].sentHeader
        /\ "X-Request-ID" \in w[r].sentHeader

\* statusRecorder records the status that the client receives, also after a panic
\* whose 500 comes too late, unless the upstream had sent an interim response.
RecordedStatusIsSent ==
    \A r \in Requests : Done(r) /\ ~Interim(r) => w[r].status = w[r].sent

\* What the process around the chain sees of a request (RequestLife): until it is
\* counted it is being handled, and one without a principal has no event to offer.
Seen(r) ==
    CASE pc[r] = "new"                                 -> "new"
      [] pc[r] = "usage" /\ capture[r] # NoPrincipal   -> "usage"
      [] pc[r] = "done"                                -> "done"
      [] pc[r] = "usage" /\ capture[r] = NoPrincipal   -> "done"
      [] OTHER                                         -> "handling"

Life == INSTANCE RequestLife WITH
    conn <- [r \in Requests |-> Seen(r)], offered <- {e.request : e \in events}

\* The chain implements RequestLife: a request offers at most one usage event, and none
\* once its handler has returned, whatever it met on its way.
ImplementsLife == Life!Spec

\* statusRecorder records the status of every response, as the help text of
\* gateway_http_responses_total says.
EveryStatusIsSent ==
    \A r \in Requests : Done(r) => w[r].status = w[r].sent
=============================================================================
