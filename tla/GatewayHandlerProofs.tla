------------------------ MODULE GatewayHandlerProofs ------------------------
(***************************************************************************)
(* Proofs about GatewayHandler, for any number of requests, keys, paths    *)
(* and upstream statuses.  What the chain does to one request is a fact    *)
(* about that request alone, so the invariant is a predicate Good on the   *)
(* values of one request; a step of another one cannot disturb it.         *)
(***************************************************************************)
EXTENDS GatewayHandler, FiniteSetTheorems, WellFoundedInduction, TLAPS

Positions == {"new", "authenticate", "rateLimit", "route", "proxy", "body",
              "finish", "count", "usage", "done"}
Closing == {"finish", "count", "usage", "done"}
Final == (Statuses \ {103})

Headers == {"X-Request-ID", "Content-Type", "WWW-Authenticate", "Retry-After",
            "X-Upstream-Service"} \cup RateLimitHeaders

Refusals == {"rejected", "denied", "lookupFailed", "noRoute", "upstreamFailed"}
Notes == {"authenticated", "granted", "limiterFailed", "proxied", "interim", "responded",
          "aborted", "noEventID"} \cup Refusals

Writers == [status : Statuses, wroteHeader : BOOLEAN, header : SUBSET Headers,
            sent : Final \cup {0}, sentHeader : SUBSET Headers]

\* Nothing was written to the response, or what was recorded is what was sent.
Fresh(x) == x.wroteHeader = FALSE /\ x.sent = 0 /\ x.status = 200
Written(x) == x.wroteHeader = TRUE /\ x.sent = x.status

\* The header map that the client gets, or will get with the next status.
Shown(x) == IF x.wroteHeader = TRUE THEN x.sentHeader ELSE x.header

\* RATE_LIMIT_FAIL_OPEN is set.
Open(f) == f = TRUE

Admitted(t, f) == "granted" \in t \/ ("limiterFailed" \in t /\ Open(f))

\* How far a request has come, what it met, and under which principal.
Path(p, i, c, t, f) ==
    /\ p \in {"new", "authenticate"} => t = {}
    /\ p = "rateLimit" => t = {"authenticated"}
    /\ p \in {"route", "proxy", "body"} => Admitted(t, f) /\ "authenticated" \in t
    /\ "proxied" \in t => Admitted(t, f)
    /\ "authenticated" \notin t =>
          c = NoPrincipal /\ t \cap {"granted", "denied", "proxied"} = {}
    /\ "authenticated" \in t => c = i.key /\ c \in Keys
    /\ p # "done" => "noEventID" \notin t

\* What the response looks like, as long as no interim response went out.
Response(p, x, t) ==
    /\ p \in {"new", "authenticate", "rateLimit", "route"} => "interim" \notin t
    /\ "interim" \notin t =>
          /\ p \notin Closing \cup {"body"} => Fresh(x)
          /\ p \in Closing \cup {"body"} => Written(x)
          /\ p = "new" => x.header = {}
          /\ p # "new" =>
                /\ t \cap {"granted", "denied"} # {} <=> RateLimitHeaders \subseteq Shown(x)
                /\ "denied" \in t <=> "Retry-After" \in Shown(x)
                /\ "X-Request-ID" \in Shown(x)

Refused(i, x, t, f) ==
    /\ i.key = Blank => x.sent = 401
    /\ "rejected" \in t <=> x.sent = 401 /\ "responded" \notin t
    /\ "denied" \in t => x.sent = 429
    /\ "lookupFailed" \in t => x.sent = 503
    /\ "limiterFailed" \in t /\ ~Open(f) => x.sent = 503
    /\ "noRoute" \in t => x.sent = 404
    /\ "upstreamFailed" \in t => x.sent = 502

\* Under which status a request was refused.
Verdict(p, i, x, t, f) ==
    /\ p \notin Closing => t \cap Refusals = {} /\ ("limiterFailed" \in t => Open(f))
    /\ p \notin Closing \cup {"body"} => "responded" \notin t
    /\ p = "body" => "responded" \in t
    /\ p \in Closing /\ "interim" \notin t => Refused(i, x, t, f)

Good(p, i, x, c, t, f) == Path(p, i, c, t, f) /\ Response(p, x, t) /\ Verdict(p, i, x, t, f)

AllGood == \A r \in Requests : Good(pc[r], input[r], w[r], capture[r], trail[r], failOpen)

Types ==
    /\ failOpen \in BOOLEAN /\ active \subseteq Keys /\ barred \subseteq Requests
    /\ pc \in [Requests -> Positions]
    /\ input \in [Requests -> [key : Keys \cup {NoKey, Blank}, path : Paths \cup {"none"}]]
    /\ w \in [Requests -> Writers]
    /\ capture \in [Requests -> Keys \cup {NoPrincipal}]
    /\ trail \in [Requests -> SUBSET Notes]

-----------------------------------------------------------------------------
(* Response writers *)

\* The statuses that the gateway answers itself are final statuses.
LEMMA StatusFacts ==
    /\ Statuses \subseteq Nat /\ 103 \notin Final /\ 0 \notin Statuses
    /\ \A s \in Final : s >= 200
    /\ 200 \in Final /\ 401 \in Final /\ 404 \in Final /\ 429 \in Final
    /\ 500 \in Final /\ 502 \in Final /\ 503 \in Final /\ UpstreamStatuses \subseteq Final
    /\ 103 \in Statuses /\ Final \subseteq Statuses
BY StatusAssumption DEF Statuses, Final

\* The header names and the notes of single steps.
LEMMA NameFacts ==
    /\ {"Content-Type"} \in SUBSET Headers /\ {"X-Request-ID"} \in SUBSET Headers
    /\ {"WWW-Authenticate"} \in SUBSET Headers /\ {"X-Upstream-Service"} \in SUBSET Headers
    /\ RateLimitHeaders \in SUBSET Headers
    /\ RateLimitHeaders \cup {"Retry-After"} \in SUBSET Headers
    /\ \A note \in Notes : {note} \in SUBSET Notes
    /\ {} \in SUBSET Notes
BY DEF Headers, Notes

\* statusRecorder and net/http keep the writer's type.
LEMMA WriterTypes ==
    ASSUME NEW x \in Writers
    PROVE  /\ \A n \in SUBSET Headers : SetHeader(x, n) \in Writers
           /\ \A s \in Statuses : WriteHeader(x, s) \in Writers
           /\ NetWriteHeader(x, 200) \in Writers /\ Write(x) \in Writers
<1>1. ASSUME NEW n \in SUBSET Headers PROVE SetHeader(x, n) \in Writers
  BY <1>1 DEF Writers, SetHeader
<1>2. ASSUME NEW y \in Writers, NEW s \in Statuses PROVE NetWriteHeader(y, s) \in Writers
  <2>1. s < 200 \/ s \in Final BY StatusFacts DEF Final
  <2>2. ASSUME s \in Final
        PROVE  [y EXCEPT !.sent = s, !.sentHeader = y.header] \in Writers
    BY <2>2, Zenon DEF Writers
  <2> QED BY <2>1, <2>2 DEF NetWriteHeader
<1>3. ASSUME NEW s \in Statuses PROVE WriteHeader(x, s) \in Writers
  <2>1. [x EXCEPT !.wroteHeader = TRUE, !.status = s] \in Writers BY <1>3, Zenon DEF Writers
  <2> QED BY <1>2, <1>3, <2>1 DEF WriteHeader
<1>4. NetWriteHeader(x, 200) \in Writers /\ Write(x) \in Writers
  <2>1. 200 \in Statuses BY StatusFacts
  <2> QED BY <1>2, <1>3, <2>1 DEF Write
<1> QED BY <1>1, <1>3, <1>4

\* The first status of a fresh response is recorded, sent and takes the headers along.
LEMMA FreshWrite ==
    ASSUME NEW x \in Writers, NEW s \in Final, Fresh(x)
    PROVE  LET y == WriteHeader(x, s)
           IN  Written(y) /\ y.sent = s /\ y.sentHeader = x.header
<1>1. s >= 200 /\ s \in Nat BY StatusFacts
<1> QED BY <1>1 DEF WriteHeader, NetWriteHeader, Fresh, Written, Writers

\* A second status changes nothing, however it comes about.
LEMMA LateWrite ==
    ASSUME NEW x \in Writers, Written(x), NEW s
    PROVE  WriteHeader(x, s) = x /\ Write(x) = x /\ NetWriteHeader(x, 200) = x
<1>1. x.sent # 0 BY StatusFacts DEF Written, Writers
<1> QED BY <1>1 DEF WriteHeader, Write, NetWriteHeader, Written

\* writeJSON on a fresh response.
LEMMA FreshJSON ==
    ASSUME NEW x \in Writers, NEW s \in Final, Fresh(x)
    PROVE  LET y == writeJSON(x, s)
           IN  Written(y) /\ y.sent = s /\ y.sentHeader = x.header \cup {"Content-Type"}
<1> DEFINE z == SetHeader(x, {"Content-Type"})
           y == WriteHeader(z, s)
<1>1. z \in Writers BY WriterTypes, NameFacts
<1>2. Fresh(z) /\ z.header = x.header \cup {"Content-Type"} BY DEF SetHeader, Writers, Fresh
<1>3. y \in Writers /\ Written(y) /\ y.sent = s /\ y.sentHeader = z.header
  <2> HIDE DEF z
  <2>1. s \in Statuses BY StatusFacts
  <2> QED BY <1>1, <1>2, <2>1, FreshWrite, WriterTypes, Zenon
<1>4. Write(y) = y
  <2> HIDE DEF y
  <2> QED BY <1>3, LateWrite
<1> QED BY <1>2, <1>3, <1>4 DEF writeJSON

\* writeJSON on a response that has gone out.
LEMMA LateJSON ==
    ASSUME NEW x \in Writers, Written(x), NEW s
    PROVE  writeJSON(x, s) = SetHeader(x, {"Content-Type"})
<1> DEFINE z == SetHeader(x, {"Content-Type"})
<1>1. z \in Writers BY WriterTypes, NameFacts
<1>2. Written(z) BY DEF SetHeader, Writers, Written
<1>3. WriteHeader(z, s) = z /\ Write(z) = z
  <2> HIDE DEF z
  <2> QED BY <1>1, <1>2, LateWrite
<1> QED BY <1>3 DEF writeJSON

\* writeJSON keeps the writer's type.
LEMMA JSONType ==
    ASSUME NEW x \in Writers, NEW s \in Statuses
    PROVE  writeJSON(x, s) \in Writers
<1>1. SetHeader(x, {"Content-Type"}) \in Writers BY WriterTypes, NameFacts
<1>2. WriteHeader(SetHeader(x, {"Content-Type"}), s) \in Writers BY <1>1, WriterTypes
<1> QED BY <1>2, WriterTypes DEF writeJSON

-----------------------------------------------------------------------------
(* The handler chain keeps every request good *)

\* A step of r replaces what belongs to r; if that is good, everything stays good.
LEMMA OneRequest ==
    ASSUME Types, AllGood, NEW r \in Requests,
           NEW p \in Positions, NEW i \in [key : Keys \cup {NoKey, Blank}, path : Paths \cup {"none"}],
           NEW x \in Writers, NEW c \in Keys \cup {NoPrincipal}, NEW t \in SUBSET Notes,
           pc' = [pc EXCEPT ![r] = p], input' = [input EXCEPT ![r] = i],
           w' = [w EXCEPT ![r] = x], capture' = [capture EXCEPT ![r] = c],
           trail' = [trail EXCEPT ![r] = t],
           failOpen' = failOpen, active' = active, barred' \subseteq Requests,
           Good(p, i, x, c, t, failOpen)
    PROVE  Types' /\ AllGood'
<1>1. Types' BY DEF Types
<1>2. ASSUME NEW q \in Requests
      PROVE  Good(pc'[q], input'[q], w'[q], capture'[q], trail'[q], failOpen)
  <2>1. CASE q = r BY <2>1 DEF Types
  <2>2. CASE q # r
    <3>1. /\ pc'[q] = pc[q] /\ input'[q] = input[q] /\ w'[q] = w[q]
          /\ capture'[q] = capture[q] /\ trail'[q] = trail[q]
      BY <2>2 DEF Types
    <3> QED BY <3>1 DEF AllGood
  <2> QED BY <2>1, <2>2
<1> QED BY <1>1, <1>2 DEF AllGood

\* The same for the steps that go through Continue.
LEMMA ContinueGood ==
    ASSUME Types, AllGood, NEW r \in Requests, NEW p \in Positions, NEW x \in Writers,
           NEW note \in SUBSET Notes, NEW c \in Keys \cup {NoPrincipal},
           Continue(r, p, x, note), capture' = [capture EXCEPT ![r] = c],
           Good(p, input[r], x, c, trail[r] \cup note, failOpen)
    PROVE  Types' /\ AllGood'
<1>1. trail[r] \cup note \in SUBSET Notes /\ trail' = [trail EXCEPT ![r] = trail[r] \cup note]
  BY DEF Types, Continue
<1>2. input[r] \in [key : Keys \cup {NoKey, Blank}, path : Paths \cup {"none"}]
  BY DEF Types
<1>3. input' = [input EXCEPT ![r] = input[r]] BY DEF Types, Continue
<1>4. /\ pc' = [pc EXCEPT ![r] = p] /\ w' = [w EXCEPT ![r] = x]
      /\ failOpen' = failOpen /\ active' = active /\ barred' \subseteq Requests
  BY DEF Continue, Types
<1> HIDE DEF Types, AllGood, Good, Writers, Positions, Continue
<1> QED BY <1>1, <1>2, <1>3, <1>4, OneRequest, Zenon

\* requestID and instrument.
LEMMA BeginGood ==
    ASSUME Types, AllGood, NEW r \in Requests, Begin(r)
    PROVE  Types' /\ AllGood'
<1> DEFINE x == SetHeader(w[r], {"X-Request-ID"})
<1>1. PICK key \in Keys \cup {NoKey, Blank}, path \in Paths :
         /\ input' = [input EXCEPT ![r] = [key |-> key, path |-> path]]
         /\ barred' = IF key \in active THEN barred ELSE barred \cup {r}
  BY Zenon DEF Begin
<1> DEFINE i == [key |-> key, path |-> path]
<1>2. i \in [key : Keys \cup {NoKey, Blank}, path : Paths \cup {"none"}] /\ barred' \subseteq Requests
  BY <1>1, PathsAssumption DEF Types
<1>3. x \in Writers
  <2>1. w[r] \in Writers BY DEF Types
  <2> QED BY <2>1, WriterTypes, NameFacts
<1>4. pc[r] = "new" /\ Good("new", input[r], w[r], capture[r], trail[r], failOpen)
  BY DEF AllGood, Begin
<1>5. trail[r] = {} /\ capture[r] = NoPrincipal /\ Fresh(w[r]) /\ w[r].header = {}
  BY <1>4 DEF Good, Path, Response, Closing
<1>6. Fresh(x) /\ x.header = {"X-Request-ID"} BY <1>5 DEF SetHeader, Fresh, Types, Writers
<1>7. Good("authenticate", i, x, NoPrincipal, {}, failOpen)
  <2>1. Path("authenticate", i, NoPrincipal, {}, failOpen) BY DEF Path
  <2>2. Response("authenticate", x, {})
    BY <1>6 DEF Response, Closing, Shown, Fresh, RateLimitHeaders
  <2>3. Verdict("authenticate", i, x, {}, failOpen) BY DEF Verdict, Closing
  <2> QED BY <2>1, <2>2, <2>3 DEF Good
<1>8. /\ pc' = [pc EXCEPT ![r] = "authenticate"] /\ w' = [w EXCEPT ![r] = x]
      /\ capture' = [capture EXCEPT ![r] = NoPrincipal] /\ trail' = [trail EXCEPT ![r] = {}]
      /\ failOpen' = failOpen /\ active' = active
  BY <1>5 DEF Begin, Types
<1>9. "authenticate" \in Positions /\ {} \in SUBSET Notes BY DEF Positions, Notes, Refusals
<1> HIDE DEF x, i
<1> QED BY <1>1, <1>2, <1>3, <1>7, <1>8, <1>9, OneRequest, Zenon DEF i

\* What a request is when it comes to a step, and that an unchanged capture is fine.
LEMMA Before ==
    ASSUME Types, AllGood, NEW r \in Requests
    PROVE  /\ w[r] \in Writers /\ trail[r] \in SUBSET Notes
           /\ input[r].key \in Keys \cup {NoKey, Blank}
           /\ capture[r] \in Keys \cup {NoPrincipal}
           /\ Path(pc[r], input[r], capture[r], trail[r], failOpen)
           /\ Response(pc[r], w[r], trail[r])
           /\ Verdict(pc[r], input[r], w[r], trail[r], failOpen)
           /\ UNCHANGED capture => capture' = [capture EXCEPT ![r] = capture[r]]
BY DEF Types, AllGood, Good

\* authenticate: whatever auth.Service answers.
LEMMA AuthenticateGood ==
    ASSUME Types, AllGood, NEW r \in Requests, Authenticate(r)
    PROVE  Types' /\ AllGood'
<1> DEFINE x == w[r]
           f == failOpen
<1>1. pc[r] = "authenticate"
  BY DEF Authenticate, AuthenticateOk, AuthenticateRejects, AuthenticateFails
<1>2. /\ trail[r] = {} /\ capture[r] = NoPrincipal /\ x \in Writers /\ Fresh(x)
      /\ ~(RateLimitHeaders \subseteq x.header)
      /\ "Retry-After" \notin x.header /\ "X-Request-ID" \in x.header
  <2>1. /\ Path("authenticate", input[r], capture[r], trail[r], f)
        /\ Response("authenticate", x, trail[r]) /\ x \in Writers
    BY <1>1, Before
  <2>2. trail[r] = {} /\ capture[r] = NoPrincipal BY <2>1 DEF Path
  <2>3. Fresh(x) BY <2>1, <2>2 DEF Response, Closing
  <2> QED BY <2>1, <2>2, <2>3 DEF Response, Shown, Fresh
<1>3. CASE AuthenticateOk(r)
  <2>1. input[r].key \in Keys /\ input[r].key # Blank
    BY <1>3, KeysAssumption DEF AuthenticateOk, ServiceAuthenticate, LookupActiveKey, Types
  <2>2. Good("rateLimit", input[r], x, input[r].key, {"authenticated"}, f)
    <3>1. Path("rateLimit", input[r], input[r].key, {"authenticated"}, f) BY <2>1 DEF Path
    <3>2. Response("rateLimit", x, {"authenticated"})
      BY <1>2 DEF Response, Closing, Shown, Fresh
    <3>3. Verdict("rateLimit", input[r], x, {"authenticated"}, f)
      BY DEF Verdict, Closing, Refusals
    <3> QED BY <3>1, <3>2, <3>3 DEF Good
  <2>3. Continue(r, "rateLimit", x, {"authenticated"})
        /\ capture' = [capture EXCEPT ![r] = input[r].key]
    BY <1>3 DEF AuthenticateOk
  <2>4. "rateLimit" \in Positions /\ {"authenticated"} \in SUBSET Notes
        /\ trail[r] \cup {"authenticated"} = {"authenticated"}
    BY <1>2 DEF Positions, Notes, Refusals
  <2> HIDE DEF x
  <2> QED BY <1>2, <2>1, <2>2, <2>3, <2>4, ContinueGood, Zenon
<1>4. ASSUME NEW note \in {"rejected", "lookupFailed"}, NEW s \in {401, 503},
             NEW z \in Writers, Fresh(z),
             s = IF note = "rejected" THEN 401 ELSE 503,
             input[r].key = Blank => note = "rejected",
             ~(RateLimitHeaders \subseteq (z.header \cup {"Content-Type"})),
             "Retry-After" \notin z.header, "X-Request-ID" \in z.header,
             Continue(r, "finish", writeJSON(z, s), {note}), UNCHANGED capture
      PROVE  Types' /\ AllGood'
  <2> DEFINE y == writeJSON(z, s)
  <2>1. s \in Final /\ s \in Statuses BY StatusFacts
  <2>2. y \in Writers BY <1>4, <2>1, JSONType
  <2>3. Written(y) /\ y.sent = s /\ y.sentHeader = z.header \cup {"Content-Type"}
    BY <1>4, <2>1, FreshJSON
  <2>4. Good("finish", input[r], y, NoPrincipal, {note}, f)
    <3> HIDE DEF y
    <3>1. Path("finish", input[r], NoPrincipal, {note}, f) BY <1>4 DEF Path
    <3>2. Response("finish", y, {note}) BY <1>4, <2>3 DEF Response, Closing, Shown, Written
    <3>3. Verdict("finish", input[r], y, {note}, f)
      <4>1. CASE note = "rejected" BY <1>4, <2>3, <4>1 DEF Verdict, Refused, Closing
      <4>2. CASE note = "lookupFailed" BY <1>4, <2>3, <4>2 DEF Verdict, Refused, Closing
      <4> QED BY <4>1, <4>2
    <3> QED BY <3>1, <3>2, <3>3 DEF Good
  <2>5. "finish" \in Positions /\ {note} \in SUBSET Notes /\ trail[r] \cup {note} = {note}
    BY <1>2, <1>4 DEF Positions, Notes, Refusals
  <2>6. capture' = [capture EXCEPT ![r] = NoPrincipal] BY <1>2, <1>4, Before
  <2>7. NoPrincipal \in Keys \cup {NoPrincipal} /\ Continue(r, "finish", y, {note}) BY <1>4
  <2>8. Good("finish", input[r], y, NoPrincipal, trail[r] \cup {note}, failOpen) BY <2>4, <2>5
  <2> HIDE DEF y
  <2> QED BY <2>2, <2>5, <2>6, <2>7, <2>8, ContinueGood, Zenon
<1>5. CASE AuthenticateRejects(r)
  <2> DEFINE z == SetHeader(x, {"WWW-Authenticate"})
  <2>1. z \in Writers BY <1>2, WriterTypes, NameFacts
  <2>2. Fresh(z) /\ z.header = x.header \cup {"WWW-Authenticate"}
    BY <1>2 DEF SetHeader, Fresh, Writers
  <2>3. ~(RateLimitHeaders \subseteq (z.header \cup {"Content-Type"}))
    BY <1>2, <2>2 DEF RateLimitHeaders
  <2>4. Continue(r, "finish", writeJSON(z, 401), {"rejected"}) /\ UNCHANGED capture
    BY <1>5 DEF AuthenticateRejects
  <2>5. "Retry-After" \notin z.header /\ "X-Request-ID" \in z.header BY <1>2, <2>2
  <2> HIDE DEF z
  <2> QED BY <2>1, <2>2, <2>3, <2>4, <2>5, <1>4
<1>6. CASE AuthenticateFails(r)
  <2>1. input[r].key # Blank BY <1>6 DEF AuthenticateFails, ServiceAuthenticate
  <2>2. ~(RateLimitHeaders \subseteq (x.header \cup {"Content-Type"}))
    BY <1>2 DEF RateLimitHeaders
  <2>3. Continue(r, "finish", writeJSON(x, 503), {"lookupFailed"}) /\ UNCHANGED capture
    BY <1>6 DEF AuthenticateFails
  <2> HIDE DEF x
  <2> QED BY <1>2, <2>1, <2>2, <2>3, <1>4
<1> QED BY <1>3, <1>5, <1>6 DEF Authenticate

\* rateLimit: whatever the limiter decides, and when it fails.
LEMMA RateLimitGood ==
    ASSUME Types, AllGood, NEW r \in Requests, RateLimit(r)
    PROVE  Types' /\ AllGood'
<1> DEFINE x == w[r]
           i == input[r]
           c == capture[r]
           f == failOpen
<1>1. pc[r] = "rateLimit" /\ UNCHANGED capture
  BY DEF RateLimit, LimiterAllows, LimiterDenies, LimiterFails
<1>2. /\ trail[r] = {"authenticated"} /\ c = i.key /\ c \in Keys
      /\ x \in Writers /\ Fresh(x) /\ x.header \in SUBSET Headers
      /\ ~(RateLimitHeaders \subseteq x.header)
      /\ "Retry-After" \notin x.header /\ "X-Request-ID" \in x.header
  <2>1. /\ Path("rateLimit", i, c, trail[r], f)
        /\ Response("rateLimit", x, trail[r]) /\ x \in Writers
    BY <1>1, Before
  <2>2. trail[r] = {"authenticated"} /\ c = i.key /\ c \in Keys BY <2>1 DEF Path
  <2>3. Fresh(x) BY <2>1, <2>2 DEF Response, Closing
  <2>4. x.header \in SUBSET Headers BY <2>1 DEF Writers
  <2> QED BY <2>1, <2>2, <2>3, <2>4 DEF Response, Shown, Fresh
<1>3. c # Blank /\ capture' = [capture EXCEPT ![r] = c] /\ c \in Keys \cup {NoPrincipal}
  BY <1>1, <1>2, KeysAssumption, Before
<1>4. CASE LimiterAllows(r)
  <2> DEFINE y == SetHeader(x, RateLimitHeaders)
             t == {"authenticated", "granted"}
  <2>1. y \in Writers BY <1>2, WriterTypes, NameFacts
  <2>2. Fresh(y) /\ y.header = x.header \cup RateLimitHeaders
    BY <1>2 DEF SetHeader, Fresh, Writers
  <2>3. Good("route", i, y, c, t, f)
    <3> HIDE DEF y
    <3>1. Path("route", i, c, t, f) BY <1>2 DEF Path, Admitted
    <3>2. Response("route", y, t)
      BY <1>2, <2>2 DEF Response, Closing, Shown, Fresh, RateLimitHeaders
    <3>3. Verdict("route", i, y, t, f) BY DEF Verdict, Closing, Refusals
    <3> QED BY <3>1, <3>2, <3>3 DEF Good
  <2>4. "route" \in Positions /\ {"granted"} \in SUBSET Notes /\ trail[r] \cup {"granted"} = t
    BY <1>2 DEF Positions, Notes, Refusals
  <2>5. Continue(r, "route", y, {"granted"}) BY <1>4 DEF LimiterAllows
  <2> HIDE DEF y, t
  <2> QED BY <1>3, <2>1, <2>3, <2>4, <2>5, ContinueGood, Zenon
<1>5. CASE LimiterDenies(r)
  <2> DEFINE z == SetHeader(x, RateLimitHeaders \cup {"Retry-After"})
             y == writeJSON(z, 429)
             t == {"authenticated", "denied"}
  <2>1. z \in Writers BY <1>2, WriterTypes, NameFacts
  <2>2. Fresh(z) /\ z.header = x.header \cup RateLimitHeaders \cup {"Retry-After"}
    BY <1>2 DEF SetHeader, Fresh, Writers
  <2>3. 429 \in Final /\ 429 \in Statuses BY StatusFacts
  <2>4. y \in Writers /\ Written(y) /\ y.sent = 429
        /\ y.sentHeader = z.header \cup {"Content-Type"}
    <3> HIDE DEF z
    <3> QED BY <2>1, <2>2, <2>3, FreshJSON, JSONType
  <2>5. Good("finish", i, y, c, t, f)
    <3> HIDE DEF y, z
    <3>1. Path("finish", i, c, t, f) BY <1>2 DEF Path
    <3>2. Response("finish", y, t)
      BY <1>2, <2>2, <2>4 DEF Response, Closing, Shown, Written, RateLimitHeaders
    <3>3. Verdict("finish", i, y, t, f) BY <1>2, <1>3, <2>4 DEF Verdict, Refused, Closing, Refusals
    <3> QED BY <3>1, <3>2, <3>3 DEF Good
  <2>6. "finish" \in Positions /\ {"denied"} \in SUBSET Notes /\ trail[r] \cup {"denied"} = t
    BY <1>2 DEF Positions, Notes, Refusals
  <2>7. Continue(r, "finish", y, {"denied"}) BY <1>5 DEF LimiterDenies
  <2>8. y \in Writers BY <2>4
  <2> HIDE DEF y, t
  <2> QED BY <1>3, <2>5, <2>6, <2>7, <2>8, ContinueGood, Zenon
<1>6. CASE LimiterFails(r)
  <2> DEFINE t == {"authenticated", "limiterFailed"}
             y == writeJSON(x, 503)
  <2>1. {"limiterFailed"} \in SUBSET Notes /\ trail[r] \cup {"limiterFailed"} = t
    BY <1>2 DEF Notes
  <2>2. ASSUME failOpen PROVE Types' /\ AllGood'
    <3>1. Open(f) BY <2>2 DEF Types, Open
    <3>2. Path("route", i, c, t, f) BY <1>2, <3>1 DEF Path, Admitted
    <3>3. Response("route", x, t) BY <1>2 DEF Response, Closing, Shown, Fresh
    <3>4. Verdict("route", i, x, t, f) BY <3>1 DEF Verdict, Closing, Refusals
    <3>5. Good("route", i, x, c, t, f) BY <3>2, <3>3, <3>4 DEF Good
    <3>6. Continue(r, "route", x, {"limiterFailed"}) BY <1>6, <2>2 DEF LimiterFails
    <3>7. "route" \in Positions BY DEF Positions
    <3> HIDE DEF t
    <3> QED BY <1>2, <1>3, <2>1, <3>5, <3>6, <3>7, ContinueGood, Zenon
  <2>3. ASSUME ~failOpen PROVE Types' /\ AllGood'
    <3>1. 503 \in Final /\ 503 \in Statuses BY StatusFacts
    <3>2. y \in Writers /\ Written(y) /\ y.sent = 503
          /\ y.sentHeader = x.header \cup {"Content-Type"}
      BY <1>2, <3>1, FreshJSON, JSONType
    <3>3. Good("finish", i, y, c, t, f)
      <4> HIDE DEF y
      <4>1. Path("finish", i, c, t, f) BY <1>2 DEF Path
      <4>2. Response("finish", y, t)
        BY <1>2, <3>2 DEF Response, Closing, Shown, Written, RateLimitHeaders
      <4>3. Verdict("finish", i, y, t, f) BY <1>2, <1>3, <3>2 DEF Verdict, Refused, Closing, Refusals
      <4> QED BY <4>1, <4>2, <4>3 DEF Good
    <3>4. Continue(r, "finish", y, {"limiterFailed"}) BY <1>6, <2>3 DEF LimiterFails
    <3>5. "finish" \in Positions BY DEF Positions
    <3>6. y \in Writers BY <3>2
    <3> HIDE DEF y, t
    <3> QED BY <1>3, <2>1, <3>3, <3>4, <3>5, <3>6, ContinueGood, Zenon
  <2> QED BY <2>2, <2>3
<1> QED BY <1>4, <1>5, <1>6 DEF RateLimit

\* A refusal after authentication: a JSON answer under a status of its own, noted as such.
LEMMA RefusalGood ==
    ASSUME Types, AllGood, NEW r \in Requests, UNCHANGED capture,
           NEW note \in {"noRoute", "upstreamFailed"}, NEW s \in {404, 502},
           s = IF note = "noRoute" THEN 404 ELSE 502,
           pc[r] \in {"route", "proxy"}, Continue(r, "finish", writeJSON(w[r], s), {note})
    PROVE  Types' /\ AllGood'
<1> DEFINE x == w[r]
           y == writeJSON(x, s)
           i == input[r]
           c == capture[r]
           f == failOpen
           t == trail[r] \cup {note}
<1>1. s \in Final /\ s \in Statuses BY ONLY s \in {404, 502}, StatusFacts
<1>2. x \in Writers /\ y \in Writers BY <1>1, JSONType, Before
<1>3. /\ Path(pc[r], i, c, trail[r], f) /\ Response(pc[r], x, trail[r])
      /\ Verdict(pc[r], i, x, trail[r], f) /\ c \in Keys \cup {NoPrincipal}
      /\ capture' = [capture EXCEPT ![r] = c]
  BY Before
<1>4. "interim" \notin trail[r] => Fresh(x) BY <1>3 DEF Response, Closing
<1>5. "interim" \notin trail[r] => /\ Written(y) /\ y.sent = s
                                  /\ y.sentHeader = x.header \cup {"Content-Type"}
  BY <1>1, <1>2, <1>4, FreshJSON
<1>6. c \in Keys /\ c = i.key /\ c # Blank BY <1>3, KeysAssumption DEF Path
<1>7. Good("finish", i, y, c, t, f)
  <2> HIDE DEF y
  <2>1. Path("finish", i, c, t, f) BY <1>3, <1>6 DEF Path, Admitted
  <2>2. Response("finish", y, t)
    BY <1>3, <1>4, <1>5 DEF Response, Closing, Shown, Written, Fresh, RateLimitHeaders
  <2>3. Verdict("finish", i, y, t, f)
    <3>1. /\ trail[r] \cap Refusals = {} /\ "responded" \notin trail[r]
          /\ "limiterFailed" \in trail[r] => Open(f)
      BY <1>3 DEF Verdict, Closing
    <3>2. /\ t \cap Refusals = {note} /\ "responded" \notin t
          /\ "limiterFailed" \in t => Open(f)
      BY <3>1 DEF Refusals
    <3>3. ASSUME "interim" \notin t PROVE Refused(i, y, t, f)
      <4>1. y.sent = s /\ i.key # Blank BY <1>5, <1>6, <3>3
      <4>2. /\ "rejected" \notin t /\ "denied" \notin t /\ "lookupFailed" \notin t
            /\ "noRoute" \in t => s = 404
            /\ "upstreamFailed" \in t => s = 502
        BY <3>2 DEF Refusals
      <4> HIDE DEF t
      <4> QED BY <3>2, <4>1, <4>2 DEF Refused
    <3> QED BY <3>3 DEF Verdict, Closing
  <2> QED BY <2>1, <2>2, <2>3 DEF Good
<1>8. "finish" \in Positions /\ {note} \in SUBSET Notes BY DEF Positions, Notes, Refusals
<1>9. Continue(r, "finish", y, {note}) OBVIOUS
<1> HIDE DEF y
<1> QED BY <1>2, <1>3, <1>7, <1>8, <1>9, ContinueGood, ZenonT(30)

\* route: a proxy, or 404.
LEMMA RouteGood ==
    ASSUME Types, AllGood, NEW r \in Requests, Route(r)
    PROVE  Types' /\ AllGood'
<1>1. pc[r] = "route" /\ UNCHANGED capture BY DEF Route
<1>2. CASE Continue(r, "finish", writeJSON(w[r], 404), {"noRoute"})
  BY <1>1, <1>2, RefusalGood
<1>3. CASE Continue(r, "proxy", w[r], {"proxied"})
  <2> DEFINE t == trail[r] \cup {"proxied"}
  <2>1. Path("proxy", input[r], capture[r], t, failOpen) BY <1>1, Before DEF Path, Admitted
  <2>2. Response("proxy", w[r], t)
    <3>1. Response("route", w[r], trail[r]) BY <1>1, Before
    <3> QED BY <3>1 DEF Response, Closing
  <2>3. Verdict("proxy", input[r], w[r], t, failOpen)
    <3>1. Verdict("route", input[r], w[r], trail[r], failOpen) BY <1>1, Before
    <3> QED BY <3>1 DEF Verdict, Closing, Refusals
  <2>4. Good("proxy", input[r], w[r], capture[r], t, failOpen) BY <2>1, <2>2, <2>3 DEF Good
  <2>5. "proxy" \in Positions /\ {"proxied"} \in SUBSET Notes BY DEF Positions, Notes, Refusals
  <2>6. /\ w[r] \in Writers /\ capture[r] \in Keys \cup {NoPrincipal}
        /\ capture' = [capture EXCEPT ![r] = capture[r]]
    BY <1>1, Before
  <2> QED BY <1>3, <2>4, <2>5, <2>6, ContinueGood, Zenon
<1> QED BY <1>2, <1>3 DEF Route

\* The reverse proxies: interim responses, the response and its failures, and a panic
\* while the body is copied.
LEMMA ProxyGood ==
    ASSUME Types, AllGood, NEW r \in Requests, Proxy(r)
    PROVE  Types' /\ AllGood'
<1> DEFINE x == w[r]
           i == input[r]
           c == capture[r]
           f == failOpen
<1>1. UNCHANGED capture BY DEF Proxy
<1>2. /\ Path(pc[r], i, c, trail[r], f) /\ Response(pc[r], x, trail[r])
      /\ Verdict(pc[r], i, x, trail[r], f) /\ c \in Keys \cup {NoPrincipal}
      /\ capture' = [capture EXCEPT ![r] = c] /\ x \in Writers
  BY <1>1, Before
<1>3. CASE ProxyInterim(r)
  <2> DEFINE y == [WriteHeader(x, 103) EXCEPT !.header = {}]
             t == trail[r] \cup {"interim"}
  <2>1. WriteHeader(x, 103) \in Writers
    <3>1. 103 \in Statuses BY StatusFacts
    <3> QED BY <1>2, <3>1, WriterTypes
  <2>2. y \in Writers BY <2>1 DEF Writers
  <2>3. pc[r] = "proxy" /\ Continue(r, "proxy", y, {"interim"}) BY <1>3 DEF ProxyInterim
  <2> HIDE DEF y
  <2>4. Path("proxy", i, c, t, f) BY <1>2, <2>3 DEF Path, Admitted
  <2>5. Response("proxy", y, t) BY DEF Response
  <2>6. Verdict("proxy", i, y, t, f) BY <1>2, <2>3 DEF Verdict, Closing, Refusals
  <2>7. Good("proxy", i, y, c, t, f) BY <2>4, <2>5, <2>6 DEF Good
  <2>8. "proxy" \in Positions /\ {"interim"} \in SUBSET Notes BY DEF Positions, Notes, Refusals
  <2> QED BY <1>2, <2>2, <2>3, <2>7, <2>8, ContinueGood, Zenon
<1>4. CASE ProxyFails(r)
  <2>1. pc[r] = "proxy" /\ Continue(r, "finish", writeJSON(w[r], 502), {"upstreamFailed"})
    BY <1>4 DEF ProxyFails
  <2> QED BY <1>1, <2>1, RefusalGood
<1>5. CASE ProxyResponds(r)
  <2> DEFINE z == SetHeader(x, {"X-Upstream-Service"})
             t == trail[r] \cup {"responded"}
  <2>1. PICK status \in UpstreamStatuses :
           Continue(r, "body", WriteHeader(z, status), {"responded"})
    BY <1>5 DEF ProxyResponds
  <2> DEFINE y == WriteHeader(z, status)
  <2>2. pc[r] = "proxy" BY <1>5 DEF ProxyResponds
  <2>3. status \in Final /\ status \in Statuses BY <2>1, StatusFacts
  <2>4. z \in Writers BY <1>2, WriterTypes, NameFacts, Zenon
  <2>5. y \in Writers BY <2>3, <2>4, WriterTypes
  <2>6. "interim" \notin trail[r] => Fresh(x) BY <1>2, <2>2 DEF Response, Closing
  <2>7. "interim" \notin trail[r] => Fresh(z) /\ z.header = x.header \cup {"X-Upstream-Service"}
    BY <1>2, <2>6 DEF SetHeader, Fresh, Writers
  <2>8. "interim" \notin trail[r] => Written(y) /\ y.sentHeader = z.header
    <3> HIDE DEF z
    <3> QED BY <2>3, <2>4, <2>7, FreshWrite
  <2>9. Continue(r, "body", y, {"responded"}) BY <2>1
  <2> HIDE DEF y, z
  <2>10. Path("body", i, c, t, f) BY <1>2, <2>2 DEF Path, Admitted
  <2>11. Response("body", y, t)
    BY <1>2, <2>2, <2>6, <2>7, <2>8 DEF Response, Closing, Shown, Fresh, Written, RateLimitHeaders
  <2>12. Verdict("body", i, y, t, f) BY <1>2, <2>2 DEF Verdict, Closing, Refusals
  <2>13. Good("body", i, y, c, t, f) BY <2>10, <2>11, <2>12 DEF Good
  <2>14. "body" \in Positions /\ {"responded"} \in SUBSET Notes BY DEF Positions, Notes, Refusals
  <2> QED BY <1>2, <2>5, <2>9, <2>13, <2>14, ContinueGood, Zenon
<1>6. ASSUME pc[r] = "body", NEW y \in Writers, NEW note \in SUBSET {"aborted"},
             Written(x) => Written(y) /\ y.sent = x.sent /\ y.sentHeader = x.sentHeader,
             Continue(r, "finish", y, note)
      PROVE  Types' /\ AllGood'
  <2> DEFINE t == trail[r] \cup note
  <2>1. c \in Keys /\ c = i.key /\ c # Blank BY <1>2, <1>6, KeysAssumption DEF Path
  <2>2. Path("finish", i, c, t, f) BY <1>2, <1>6 DEF Path, Admitted
  <2>3. Response("finish", y, t) BY <1>2, <1>6 DEF Response, Closing, Shown, Written
  <2>4. Verdict("finish", i, y, t, f)
    <3>1. /\ trail[r] \cap Refusals = {} /\ "responded" \in trail[r]
          /\ "limiterFailed" \in trail[r] => Open(f)
      BY <1>2, <1>6 DEF Verdict, Closing
    <3>2. /\ t \cap Refusals = {} /\ "responded" \in t
          /\ "limiterFailed" \in t => Open(f)
      BY <1>6, <3>1 DEF Refusals
    <3>3. Refused(i, y, t, f)
      <4> HIDE DEF t
      <4> QED BY <2>1, <3>2 DEF Refused, Refusals
    <3> QED BY <3>3 DEF Verdict, Closing
  <2>5. Good("finish", i, y, c, t, f) BY <2>2, <2>3, <2>4 DEF Good
  <2>6. "finish" \in Positions /\ note \in SUBSET Notes BY DEF Positions, Notes, Refusals
  <2> QED BY <1>2, <1>6, <2>5, <2>6, ContinueGood, Zenon
<1>7. CASE ProxyCopies(r)
  <2>1. PICK y \in {x, Write(x)} : Continue(r, "finish", y, {}) BY <1>7 DEF ProxyCopies
  <2>2. y \in Writers /\ (Written(x) => y = x) BY <1>2, <2>1, WriterTypes, LateWrite
  <2>3. pc[r] = "body" BY <1>7 DEF ProxyCopies
  <2> QED BY <1>6, <2>1, <2>2, <2>3
<1>8. CASE recoverPanic(r)
  <2> DEFINE y == writeJSON(x, 500)
  <2>1. y \in Writers BY <1>2, JSONType, StatusFacts
  <2>2. Written(x) => y = SetHeader(x, {"Content-Type"}) BY <1>2, LateJSON
  <2>3. Written(x) => Written(y) /\ y.sent = x.sent /\ y.sentHeader = x.sentHeader
    <3> HIDE DEF y
    <3> QED BY <1>2, <2>2 DEF SetHeader, Written, Writers
  <2>4. pc[r] = "body" /\ Continue(r, "finish", y, {"aborted"}) BY <1>8 DEF recoverPanic
  <2> HIDE DEF y
  <2> QED BY <1>6, <2>1, <2>3, <2>4
<1> QED BY <1>3, <1>4, <1>5, <1>7, <1>8 DEF Proxy

\* The deferred function of instrument, and the return of the handler.
LEMMA FinishGood ==
    ASSUME Types, AllGood, NEW r \in Requests,
           FinishInFlight(r) \/ FinishCount(r) \/ enqueueUsage(r)
    PROVE  Types' /\ AllGood'
<1> DEFINE x == w[r]
           i == input[r]
           c == capture[r]
           f == failOpen
<1>1. pc[r] \in {"finish", "count", "usage"} /\ UNCHANGED capture
  BY DEF FinishInFlight, FinishCount, enqueueUsage
<1>2. /\ Path(pc[r], i, c, trail[r], f) /\ Response(pc[r], x, trail[r])
      /\ Verdict(pc[r], i, x, trail[r], f) /\ c \in Keys \cup {NoPrincipal}
      /\ capture' = [capture EXCEPT ![r] = c] /\ x \in Writers
      /\ trail[r] \in SUBSET Notes
  BY <1>1, Before
<1>3. ASSUME NEW p \in {"count", "usage"}, Continue(r, p, x, {})
      PROVE  Types' /\ AllGood'
  <2>1. Path(p, i, c, trail[r], f) BY <1>1, <1>2, <1>3 DEF Path
  <2>2. Response(p, x, trail[r]) BY <1>1, <1>2, <1>3 DEF Response, Closing
  <2>3. Verdict(p, i, x, trail[r], f) BY <1>1, <1>2, <1>3 DEF Verdict, Closing
  <2>4. Good(p, i, x, c, trail[r], f) /\ trail[r] \cup {} = trail[r] BY <2>1, <2>2, <2>3 DEF Good
  <2>5. p \in Positions /\ {} \in SUBSET Notes BY <1>3 DEF Positions, Notes, Refusals
  <2> QED BY <1>2, <1>3, <2>4, <2>5, ContinueGood, Zenon
<1>4. CASE enqueueUsage(r)
  <2> DEFINE y == NetWriteHeader(x, 200)
  <2>1. PICK t \in {trail[r], trail[r] \cup {"noEventID"}} :
           trail' = [trail EXCEPT ![r] = t]
    BY <1>2, <1>4 DEF enqueueUsage, Types
  <2>2. y \in Writers /\ (Written(x) => y = x) BY <1>2, WriterTypes, LateWrite
  <2>3. /\ pc' = [pc EXCEPT ![r] = "done"] /\ w' = [w EXCEPT ![r] = y]
        /\ input' = [input EXCEPT ![r] = i] /\ i \in [key : Keys \cup {NoKey, Blank}, path : Paths \cup {"none"}]
        /\ failOpen' = failOpen /\ active' = active /\ barred' \subseteq Requests
    BY <1>4 DEF enqueueUsage, Types
  <2> HIDE DEF y
  <2>4. Path("done", i, c, t, f) BY <1>1, <1>2, <2>1 DEF Path, Admitted
  <2>5. Response("done", y, t) BY <1>1, <1>2, <2>1, <2>2 DEF Response, Closing
  <2>6. Verdict("done", i, y, t, f)
    <3>1. pc[r] \in Closing BY <1>1 DEF Closing
    <3>2. "interim" \notin trail[r] => y = x BY <1>2, <2>2, <3>1 DEF Response
    <3>3. ASSUME "interim" \notin t PROVE Refused(i, y, t, f)
      <4>1. "interim" \notin trail[r] /\ y = x BY <2>1, <3>2, <3>3
      <4>2. Refused(i, y, trail[r], f) BY <1>2, <3>1, <4>1 DEF Verdict
      <4> QED BY <2>1, <4>2 DEF Refused
    <3> QED BY <3>3 DEF Verdict, Closing
  <2>7. Good("done", i, y, c, t, f) BY <2>4, <2>5, <2>6 DEF Good
  <2>8. "done" \in Positions /\ t \in SUBSET Notes BY <1>2, <2>1 DEF Positions, Notes, Refusals
  <2> QED BY <1>2, <2>1, <2>2, <2>3, <2>7, <2>8, OneRequest, Zenon
<1>5. CASE FinishInFlight(r) BY <1>3, <1>5 DEF FinishInFlight
<1>6. CASE FinishCount(r) BY <1>3, <1>6 DEF FinishCount
<1> QED BY <1>4, <1>5, <1>6

\* The operator and Prometheus touch no request.
LEMMA OutsideGood ==
    ASSUME Types, AllGood,
           (\E key \in Keys : RevokeKey(key) \/ RestoreKey(key)) \/ Scrape \/ UNCHANGED vars
    PROVE  Types' /\ AllGood'
<1>1. UNCHANGED <<failOpen, pc, input, w, capture, trail>>
  BY DEF RevokeKey, RestoreKey, Scrape, request, vars
<1>2. active' \subseteq Keys /\ barred' \subseteq Requests
  BY DEF RevokeKey, RestoreKey, Scrape, vars, Types
<1> QED BY <1>1, <1>2 DEF Types, AllGood

\* Every step keeps every request good.
LEMMA StepGood ==
    ASSUME Types, AllGood, [Next]_vars
    PROVE  Types' /\ AllGood'
<1>1. ASSUME NEW r \in Requests, Handle(r) PROVE Types' /\ AllGood'
  BY <1>1, BeginGood, AuthenticateGood, RateLimitGood, RouteGood, ProxyGood, FinishGood, SMTT(30)
     DEF Handle
<1> QED BY <1>1, OutsideGood DEF Next

-----------------------------------------------------------------------------
(* Usage events, revoked keys and the registry *)

EventOf(r) == [request |-> r, key |-> capture[r], route |-> routeKey(input[r].path),
               status |-> w[r].status]

Recorded(r) == pc[r] = "done" /\ "authenticated" \in trail[r] /\ "noEventID" \notin trail[r]

\* The events are those of the authenticated requests that are done.
UsageInv == events = {EventOf(r) : r \in {q \in Requests : Recorded(q)}}

\* A barred request has an inactive key and was not let in.
BarredInv ==
    \A r \in barred : /\ pc[r] # "new" /\ input[r].key \notin active
                      /\ "authenticated" \notin trail[r]

CounterInv ==
    requests \in Nat /\ inFlight \in Nat /\ responses \in [Statuses -> Nat] /\ CountersAgree

\* A handler step changes its own request only, which is not done.
LEMMA Untouched ==
    ASSUME Types, NEW r \in Requests, Handle(r)
    PROVE  /\ pc[r] # "done"
           /\ \A q \in Requests \ {r} :
                 /\ pc'[q] = pc[q] /\ input'[q] = input[q] /\ w'[q] = w[q]
                 /\ capture'[q] = capture[q] /\ trail'[q] = trail[q]
<1>1. CASE Begin(r) BY <1>1 DEF Types, Begin
<1>2. CASE Authenticate(r)
  BY <1>2 DEF Types, Authenticate, AuthenticateOk, AuthenticateRejects, AuthenticateFails, Continue
<1>3. CASE RateLimit(r)
  BY <1>3 DEF Types, RateLimit, LimiterAllows, LimiterDenies, LimiterFails, Continue
<1>4. CASE Route(r) BY <1>4 DEF Types, Route, Continue
<1>5. CASE Proxy(r)
  BY <1>5 DEF Types, Proxy, ProxyInterim, ProxyFails, ProxyResponds, ProxyCopies, recoverPanic,
              Continue
<1>6. CASE FinishInFlight(r) \/ FinishCount(r)
  BY <1>6 DEF Types, FinishInFlight, FinishCount, Continue
<1>7. CASE enqueueUsage(r) BY <1>7 DEF Types, enqueueUsage
<1> QED BY <1>1, <1>2, <1>3, <1>4, <1>5, <1>6, <1>7, Zenon DEF Handle

\* Where the steps inside the chain lead, and what they leave alone.
LEMMA Inside ==
    ASSUME Types, NEW r \in Requests,
           Authenticate(r) \/ RateLimit(r) \/ Route(r) \/ Proxy(r)
    PROVE  /\ pc[r] \in Positions \ {"new", "count", "usage", "done"}
           /\ pc'[r] \in Positions \ {"new", "count", "usage", "done"}
           /\ UNCHANGED <<active, input, metrics, events, barred>>
           /\ "authenticated" \in trail'[r] \ trail[r] => input[r].key \in active
<1>1. CASE Authenticate(r)
  BY <1>1 DEF Types, Positions, Authenticate, AuthenticateOk, AuthenticateRejects,
              AuthenticateFails, Continue, ServiceAuthenticate, LookupActiveKey
<1>2. CASE RateLimit(r)
  BY <1>2 DEF Types, Positions, RateLimit, LimiterAllows, LimiterDenies, LimiterFails, Continue
<1>3. CASE Route(r) BY <1>3 DEF Types, Positions, Route, Continue
<1>4. CASE Proxy(r)
  BY <1>4 DEF Types, Positions, Proxy, ProxyInterim, ProxyFails, ProxyResponds, ProxyCopies,
              recoverPanic, Continue
<1> QED BY <1>1, <1>2, <1>3, <1>4

\* The last step of a request keeps the recorded status.
LEMMA UsageStep ==
    ASSUME Types, NEW r \in Requests, enqueueUsage(r)
    PROVE  /\ pc[r] = "usage" /\ pc'[r] = "done" /\ w'[r].status = w[r].status
           /\ UNCHANGED <<active, input, capture, metrics, barred>>
           /\ "authenticated" \in trail'[r] <=> "authenticated" \in trail[r]
<1>1. w[r] \in Writers /\ w'[r] = NetWriteHeader(w[r], 200) BY DEF Types, enqueueUsage
<1>2. w'[r].status = w[r].status BY <1>1 DEF NetWriteHeader, Writers
<1> QED BY <1>2 DEF Types, enqueueUsage

\* Usage events: only enqueueUsage adds one, for a request that is done then.
LEMMA UsageStays ==
    ASSUME Types, AllGood, UsageInv, [Next]_vars
    PROVE  UsageInv'
<1> DEFINE Set == {EventOf(r) : r \in {q \in Requests : Recorded(q)}}
<1>1. ASSUME UNCHANGED <<pc, input, w, capture, trail, events>> PROVE UsageInv'
  BY <1>1 DEF UsageInv, EventOf, Recorded
<1>2. CASE UNCHANGED vars \/ Scrape \/ (\E key \in Keys : RevokeKey(key) \/ RestoreKey(key))
  BY <1>1, <1>2 DEF RevokeKey, RestoreKey, Scrape, request, vars
<1>3. ASSUME NEW r \in Requests, Handle(r) PROVE UsageInv'
  <2>1. \A q \in Requests \ {r} : EventOf(q)' = EventOf(q) /\ (Recorded(q)' <=> Recorded(q))
    BY <1>3, Untouched DEF EventOf, Recorded
  <2>2. ~Recorded(r) BY <1>3, Untouched DEF Recorded
  <2>3. ASSUME events' = events, ~Recorded(r)' PROVE UsageInv'
    <3> HIDE DEF EventOf, Recorded
    <3> QED BY <2>1, <2>2, <2>3 DEF UsageInv
  <2>4. ASSUME pc'[r] # "done", events' = events PROVE UsageInv' BY <2>3, <2>4 DEF Recorded
  <2>5. CASE Begin(r) BY <2>4, <2>5 DEF Begin, Types
  <2>6. CASE Authenticate(r) \/ RateLimit(r) \/ Route(r) \/ Proxy(r) BY <2>4, <2>6, Inside
  <2>7. CASE FinishInFlight(r) \/ FinishCount(r)
    BY <2>4, <2>7 DEF FinishInFlight, FinishCount, Continue, Types
  <2>8. CASE enqueueUsage(r)
    <3>1. Path(pc[r], input[r], capture[r], trail[r], failOpen) /\ pc[r] = "usage"
      BY <2>8, Before, UsageStep
    <3>2. /\ "authenticated" \in trail[r] <=> capture[r] # NoPrincipal
          /\ "noEventID" \notin trail[r]
      BY <3>1, KeysAssumption DEF Path, NoPrincipal
    <3>3. EventOf(r)' = EventOf(r) BY <2>8, UsageStep, SMTT(30) DEF EventOf
    <3>4. \/ events' = events /\ ~Recorded(r)'
          \/ events' = events \cup {EventOf(r)} /\ Recorded(r)'
      BY <2>8, <3>2, UsageStep DEF enqueueUsage, Recorded, EventOf, Types
    <3>5. CASE events' = events \cup {EventOf(r)} /\ Recorded(r)'
      <4> HIDE DEF EventOf, Recorded
      <4> QED BY <2>1, <2>2, <3>3, <3>5 DEF UsageInv
    <3> QED BY <2>3, <3>4, <3>5
  <2> QED BY <1>3, <2>5, <2>6, <2>7, <2>8, SMTT(30) DEF Handle
<1> QED BY <1>2, <1>3 DEF Next

\* Barred requests: only RestoreKey activates a key, and it lifts the bar.
LEMMA BarredStays ==
    ASSUME Types, AllGood, BarredInv, [Next]_vars
    PROVE  BarredInv'
<1>1. CASE UNCHANGED vars \/ Scrape BY <1>1 DEF Scrape, request, vars, BarredInv
<1>2. ASSUME NEW key \in Keys, RevokeKey(key) \/ RestoreKey(key) PROVE BarredInv'
  BY <1>2 DEF RevokeKey, RestoreKey, request, BarredInv
<1>3. ASSUME NEW r \in Requests, Handle(r) PROVE BarredInv'
  <2>1. active' = active
    BY <1>3, Inside, UsageStep DEF Handle, Begin, FinishInFlight, FinishCount, Continue
  <2>2. ASSUME NEW q \in barred', q # r PROVE (/\ pc[q] # "new" /\ input[q].key \notin active
                                               /\ "authenticated" \notin trail[q])'
    <3>1. q \in barred BY <1>3, <2>2, Inside, UsageStep DEF Handle, Begin, FinishInFlight, FinishCount, Continue
    <3>2. q \in Requests \ {r} BY <2>2, <3>1 DEF Types
    <3> QED BY <1>3, <2>1, <3>1, <3>2, Untouched DEF BarredInv
  <2>3. ASSUME r \in barred' PROVE (/\ pc[r] # "new" /\ input[r].key \notin active
                                    /\ "authenticated" \notin trail[r])'
    <3>1. CASE Begin(r)
      <4>1. r \notin barred /\ pc[r] = "new" BY <3>1 DEF Begin, BarredInv
      <4>2. pc'[r] = "authenticate" /\ trail' = trail BY <3>1 DEF Begin, Types
      <4>3. input'[r].key \notin active BY <2>3, <3>1, <4>1 DEF Begin, Types
      <4>4. trail[r] = {} BY <4>1, Before DEF Path
      <4> QED BY <2>1, <4>2, <4>3, <4>4, SMTT(30)
    <3>2. CASE Authenticate(r) \/ RateLimit(r) \/ Route(r) \/ Proxy(r)
      BY <2>1, <2>3, <3>2, Inside DEF BarredInv
    <3>3. CASE FinishInFlight(r) \/ FinishCount(r)
      BY <2>1, <2>3, <3>3 DEF FinishInFlight, FinishCount, Continue, BarredInv, Types
    <3>4. CASE enqueueUsage(r) BY <2>1, <2>3, <3>4, UsageStep DEF BarredInv
    <3> QED BY <1>3, <3>1, <3>2, <3>3, <3>4 DEF Handle
  <2> QED BY <2>2, <2>3 DEF BarredInv
<1> QED BY <1>1, <1>2, <1>3, SMTT(30) DEF Next

Begun == {r \in Requests : pc[r] # "new"}
Within == {r \in Requests : pc[r] \notin {"new", "count", "usage", "done"}}
Counted(s) == {r \in Requests : pc[r] \in {"usage", "done"} /\ w[r].status = s}

\* A set of requests grows or shrinks by one.
LEMMA OneMore ==
    ASSUME NEW S \in SUBSET Requests, NEW r \in Requests
    PROVE  /\ Cardinality(S) \in Nat
           /\ r \notin S => Cardinality(S \cup {r}) = Cardinality(S) + 1
           /\ r \in S => Cardinality(S \ {r}) = Cardinality(S) - 1
<1>1. IsFiniteSet(S) BY RequestsAssumption, FS_Subset
<1> QED BY <1>1, FS_CardinalityType, FS_AddElement, FS_RemoveElement

\* The registry counts the requests at its three places.
LEMMA CounterStays ==
    ASSUME Types, CounterInv, [Next]_vars
    PROVE  CounterInv'
<1>1. /\ requests = Cardinality(Begun) /\ inFlight = Cardinality(Within)
      /\ \A s \in Statuses : responses[s] = Cardinality(Counted(s))
      /\ requests \in Nat /\ inFlight \in Nat /\ responses \in [Statuses -> Nat]
  BY DEF CounterInv, CountersAgree, Begun, Within, Counted
<1>2. ASSUME requests' = Cardinality(Begun'), inFlight' = Cardinality(Within'),
             \A s \in Statuses : responses'[s] = Cardinality(Counted(s)'),
             requests' \in Nat, inFlight' \in Nat, responses' \in [Statuses -> Nat]
      PROVE  CounterInv'
  BY <1>2 DEF CounterInv, CountersAgree, Begun, Within, Counted
<1>3. ASSUME Begun' = Begun, Within' = Within, \A s \in Statuses : Counted(s)' = Counted(s),
             UNCHANGED metrics
      PROVE  CounterInv'
  <2>1. requests' = requests /\ inFlight' = inFlight /\ responses' = responses
    BY <1>3 DEF metrics
  <2> QED BY <1>1, <1>2, <1>3, <2>1
<1>4. CASE UNCHANGED vars \/ Scrape \/ (\E key \in Keys : RevokeKey(key) \/ RestoreKey(key))
  <2>1. pc' = pc /\ w' = w /\ UNCHANGED metrics
    BY <1>4 DEF vars, Scrape, RevokeKey, RestoreKey, request, metrics
  <2> QED BY <1>3, <2>1 DEF Begun, Within, Counted
<1>5. ASSUME NEW r \in Requests, Handle(r) PROVE CounterInv'
  <2>1. \A q \in Requests \ {r} : pc'[q] = pc[q] /\ w'[q] = w[q] BY <1>5, Untouched
  <2>2. CASE Authenticate(r) \/ RateLimit(r) \/ Route(r) \/ Proxy(r)
    <3>1. /\ pc[r] \notin {"new", "count", "usage", "done"}
          /\ pc'[r] \notin {"new", "count", "usage", "done"} /\ UNCHANGED metrics
      BY <2>2, Inside
    <3> QED BY <1>3, <2>1, <3>1 DEF Begun, Within, Counted
  <2>3. CASE enqueueUsage(r)
    <3>1. /\ pc[r] = "usage" /\ pc'[r] = "done" /\ w'[r].status = w[r].status
          /\ UNCHANGED metrics
      BY <2>3, UsageStep
    <3> QED BY <1>3, <2>1, <3>1 DEF Begun, Within, Counted
  <2>4. CASE Begin(r)
    <3>1. /\ pc[r] = "new" /\ pc'[r] = "authenticate" /\ responses' = responses
          /\ requests' = requests + 1 /\ inFlight' = inFlight + 1
      BY <2>4 DEF Begin, Types
    <3>2. /\ Begun' = Begun \cup {r} /\ r \notin Begun
          /\ Within' = Within \cup {r} /\ r \notin Within
      BY <2>1, <3>1 DEF Begun, Within
    <3>3. \A s \in Statuses : Counted(s)' = Counted(s) BY <2>1, <3>1 DEF Counted
    <3>4. Begun \in SUBSET Requests /\ Within \in SUBSET Requests BY DEF Begun, Within
    <3>5. /\ Cardinality(Begun \cup {r}) = Cardinality(Begun) + 1
          /\ Cardinality(Within \cup {r}) = Cardinality(Within) + 1
      BY <3>2, <3>4, OneMore
    <3> QED BY <1>1, <1>2, <3>1, <3>2, <3>3, <3>5
  <2>5. CASE FinishInFlight(r)
    <3>1. /\ pc[r] = "finish" /\ pc'[r] = "count" /\ responses' = responses
          /\ requests' = requests /\ inFlight' = inFlight - 1
      BY <2>5 DEF FinishInFlight, Continue, Types
    <3>2. Begun' = Begun /\ Within' = Within \ {r} /\ r \in Within
      BY <2>1, <3>1 DEF Begun, Within
    <3>3. \A s \in Statuses : Counted(s)' = Counted(s) BY <2>1, <3>1 DEF Counted
    <3>4. Within \in SUBSET Requests /\ Within \ {r} \in SUBSET Requests BY DEF Within
    <3>5. /\ Cardinality(Within \ {r}) = Cardinality(Within) - 1
          /\ Cardinality(Within \ {r}) \in Nat
      BY <3>2, <3>4, OneMore
    <3> QED BY <1>1, <1>2, <3>1, <3>2, <3>3, <3>5
  <2>6. CASE FinishCount(r)
    <3>0. PICK k \in Statuses : k = w[r].status
      <4>1. w[r] \in Writers BY DEF Types
      <4> QED BY <4>1 DEF Writers
    <3>1. /\ pc[r] = "count" /\ pc'[r] = "usage" /\ w'[r] = w[r]
          /\ requests' = requests /\ inFlight' = inFlight
          /\ responses' = [responses EXCEPT ![k] = @ + 1]
      BY <2>6, <3>0 DEF FinishCount, Continue, Types
    <3>3. Begun' = Begun /\ Within' = Within BY <2>1, <3>1 DEF Begun, Within
    <3>4. /\ Counted(k)' = Counted(k) \cup {r} /\ r \notin Counted(k)
          /\ \A s \in Statuses \ {k} : Counted(s)' = Counted(s)
      BY <2>1, <3>0, <3>1 DEF Counted
    <3>5. Cardinality(Counted(k) \cup {r}) = Cardinality(Counted(k)) + 1
      <4>1. Counted(k) \in SUBSET Requests BY DEF Counted
      <4> QED BY <3>4, <4>1, OneMore
    <3>6. /\ responses'[k] = responses[k] + 1 /\ responses' \in [Statuses -> Nat]
          /\ \A s \in Statuses \ {k} : responses'[s] = responses[s]
      BY <1>1, <3>1
    <3>7. ASSUME NEW s \in Statuses PROVE responses'[s] = Cardinality(Counted(s)')
      <4>1. CASE s = k BY <1>1, <3>4, <3>5, <3>6, <4>1, SMTT(30)
      <4>2. CASE s # k BY <1>1, <3>4, <3>6, <4>2
      <4> QED BY <4>1, <4>2
    <3> QED BY <1>1, <1>2, <3>1, <3>3, <3>6, <3>7
  <2> QED BY <1>5, <2>2, <2>3, <2>4, <2>5, <2>6 DEF Handle
<1> QED BY <1>4, <1>5 DEF Next

-----------------------------------------------------------------------------
(* Scrapes *)

\* Induction over the naturals, for a set instead of a predicate.
LEMMA SetInduction ==
    ASSUME NEW S, 0 \in S, \A n \in Nat : n \in S => n + 1 \in S
    PROVE  Nat \subseteq S
<1> DEFINE R == OpToRel(<, Nat)
           T == Nat \ S
<1> SUFFICES ASSUME T # {} PROVE FALSE OBVIOUS
<1>1. PICK x \in T : \A y \in T : ~(<<y, x>> \in R)
  <2>1. IsWellFoundedOn(R, Nat) BY NatLessThanWellFounded DEF R
  <2>2. T \subseteq Nat OBVIOUS
  <2> HIDE DEF R, T
  <2> QED BY <2>1, <2>2, WFMin, Zenon
<1>2. \A y \in Nat : y < x => <<y, x>> \in R BY DEF OpToRel
<1> HIDE DEF R
<1>3. x \in Nat /\ x # 0 OBVIOUS
<1>4. x - 1 \in Nat /\ x - 1 < x /\ (x - 1) + 1 = x BY <1>3
<1>5. x - 1 \in S BY <1>1, <1>2, <1>4
<1>6. x \in S BY <1>4, <1>5
<1> QED BY <1>6

\* The element that the fold over T takes next.
AnyOf(T) == CHOOSE x \in T : TRUE

\* The equation that defines the partial sums of Total(f).
IsSum(g, f) ==
    g = [T \in SUBSET DOMAIN f |-> IF T = {} THEN 0 ELSE f[AnyOf(T)] + g[T \ {AnyOf(T)}]]

\* If the equation has a solution, Total is the sum over the whole domain.
LEMMA TotalIsSum ==
    ASSUME NEW f, \E g : IsSum(g, f)
    PROVE  \E g : IsSum(g, f) /\ Total(f) = g[DOMAIN f]
<1> DEFINE g == CHOOSE h : IsSum(h, f)
<1>1. IsSum(g, f) BY Zenon
<1>2. Total(f) = g[DOMAIN f]
  BY DEF Total, FoldFunction, FoldFunctionOnSet, MapThenFoldSet, IsSum, AnyOf
<1> QED BY <1>1, <1>2

\* Counts by value add up to the number of things counted, in whatever order.
LEMMA TotalCounts ==
    ASSUME NEW S, NEW R, IsFiniteSet(R), IsFiniteSet(S), NEW v \in [R -> S], NEW f,
           f = [s \in S |-> Cardinality({r \in R : v[r] = s})]
    PROVE  Total(f) = Cardinality(R)
<1> DEFINE In(T) == {r \in R : v[r] \in T}
           c == [T \in SUBSET S |-> Cardinality(In(T))]
<1>0. DOMAIN f = S OBVIOUS
<1>1. ASSUME NEW T \in SUBSET S, T # {}
      PROVE  /\ AnyOf(T) \in T
             /\ Cardinality(In(T)) = f[AnyOf(T)] + Cardinality(In(T \ {AnyOf(T)}))
  <2> DEFINE x == AnyOf(T)
             A == {r \in R : v[r] = x}
             B == In(T \ {x})
  <2>1. x \in T BY <1>1 DEF AnyOf
  <2> HIDE DEF x
  <2>2. In(T) = A \cup B /\ A \cap B = {} BY <2>1
  <2>3. f[x] = Cardinality(A) BY <2>1
  <2>4. IsFiniteSet(A) /\ IsFiniteSet(B) BY FS_Subset
  <2>5. Cardinality(A) \in Nat /\ Cardinality(B) \in Nat BY <2>4, FS_CardinalityType
  <2>6. Cardinality(A \cup B) = Cardinality(A) + Cardinality(B) - Cardinality(A \cap B)
    <3> HIDE DEF A, B
    <3> QED BY <2>4, FS_Union
  <2>7. Cardinality(A \cap B) = 0 BY <2>2, FS_EmptySet
  <2>8. Cardinality(In(T)) = Cardinality(A) + Cardinality(B)
    <3> HIDE DEF A, B, In
    <3> QED BY <2>2, <2>5, <2>6, <2>7
  <2> QED BY <2>1, <2>3, <2>8 DEF x
<1>2. In({}) = {} /\ Cardinality(In({})) = 0
  <2>1. In({}) = {} OBVIOUS
  <2> QED BY <2>1, FS_EmptySet
<1>3. In(S) = R OBVIOUS
<1> HIDE DEF In
<1>4. ASSUME NEW T \in SUBSET S
      PROVE  c[T] = IF T = {} THEN 0 ELSE f[AnyOf(T)] + c[T \ {AnyOf(T)}]
  <2>1. CASE T = {} BY <1>2, <2>1
  <2>2. CASE T # {}
    <3>1. T \ {AnyOf(T)} \in SUBSET S OBVIOUS
    <3> QED BY <1>1, <2>2, <3>1
  <2> QED BY <2>1, <2>2
<1>5. IsSum(c, f)
  <2>1. c = [T \in SUBSET S |-> c[T]] OBVIOUS
  <2> HIDE DEF c
  <2> QED BY <1>0, <1>4, <2>1 DEF IsSum
<1>6. PICK g : IsSum(g, f) /\ Total(f) = g[DOMAIN f] BY <1>5, TotalIsSum
<1> DEFINE N == {n \in Nat : \A T \in SUBSET S : Cardinality(T) = n => g[T] = c[T]}
<1>7. 0 \in N
  <2> SUFFICES ASSUME NEW T \in SUBSET S, Cardinality(T) = 0 PROVE g[T] = c[T] OBVIOUS
  <2>1. T = {} BY FS_Subset, FS_EmptySet
  <2>2. g[T] = 0 BY <1>0, <1>6, <2>1 DEF IsSum
  <2> QED BY <1>2, <2>1, <2>2
<1>8. ASSUME NEW n \in Nat, n \in N PROVE n + 1 \in N
  <2>0. n + 1 \in Nat OBVIOUS
  <2> HIDE DEF c
  <2> SUFFICES ASSUME NEW T \in SUBSET S, Cardinality(T) = n + 1 PROVE g[T] = c[T]
    BY <2>0, Zenon
  <2>1. IsFiniteSet(T) /\ T # {}
    <3>1. IsFiniteSet(T) BY FS_Subset
    <3>2. Cardinality({}) = 0 BY FS_EmptySet
    <3> QED BY <3>1, <3>2
  <2> DEFINE x == AnyOf(T)
  <2>2. x \in T BY <1>1, <2>1
  <2> HIDE DEF x
  <2>3. T \ {x} \in SUBSET S /\ Cardinality(T \ {x}) = n
    <3>1. Cardinality(T \ {x}) = Cardinality(T) - 1 BY <2>1, <2>2, FS_RemoveElement
    <3> QED BY <3>1
  <2>4. g[T \ {x}] = c[T \ {x}] BY <1>8, <2>3
  <2>5. g[T] = f[x] + g[T \ {x}] BY <1>0, <1>6, <2>1 DEF IsSum, x
  <2>6. c[T] = f[x] + c[T \ {x}] BY <1>4, <2>1 DEF x
  <2> QED BY <2>4, <2>5, <2>6
<1>9. g[S] = c[S]
  <2>1. Cardinality(S) \in Nat BY FS_CardinalityType
  <2> HIDE DEF N
  <2>2. Cardinality(S) \in N BY <1>7, <1>8, <2>1, SetInduction
  <2> QED BY <2>2 DEF N
<1> QED BY <1>0, <1>3, <1>6, <1>9

\* What a scrape has read: no more responses than there are requests by now, nor than
\* the requests it has read.
ScrapeInv ==
    /\ scrape \in Seq(Nat) /\ Len(scrape) <= 2
    /\ Len(scrape) >= 1 => scrape[1] <= requests
    /\ Len(scrape) = 2 => scrape[1] <= scrape[2]

\* The registry never holds more responses than requests.
LEMMA FewerResponses ==
    ASSUME Types, CounterInv
    PROVE  Total(responses) \in Nat /\ Total(responses) <= requests
<1> DEFINE R == {r \in Requests : pc[r] \in {"usage", "done"}}
           v == [r \in R |-> w[r].status]
<1>1. IsFiniteSet(Statuses)
  <2> DEFINE bounds == 0..599
  <2>1. Statuses \in SUBSET bounds BY StatusAssumption DEF Statuses
  <2>2. IsFiniteSet(bounds)
    <3>1. \A a, b \in Int : IsFiniteSet(a..b) BY FS_Interval
    <3>2. 0 \in Int /\ 599 \in Int OBVIOUS
    <3> QED BY <3>1, <3>2
  <2> HIDE DEF bounds
  <2> QED BY <2>1, <2>2, FS_Subset
<1>2. R \subseteq Begun /\ Begun \subseteq Requests BY DEF Begun
<1>3. /\ IsFiniteSet(Begun) /\ IsFiniteSet(R) /\ Cardinality(R) <= Cardinality(Begun)
      /\ Cardinality(R) \in Nat
  <2>1. IsFiniteSet(Begun) BY <1>2, RequestsAssumption, FS_Subset
  <2> HIDE DEF R
  <2>2. IsFiniteSet(R) /\ Cardinality(R) <= Cardinality(Begun) BY <1>2, <2>1, FS_Subset
  <2> QED BY <2>1, <2>2, FS_CardinalityType
<1>4. v \in [R -> Statuses]
  <2>1. \A r \in R : w[r] \in Writers BY DEF Types
  <2> QED BY <2>1 DEF Writers
<1>5. responses = [s \in Statuses |-> Cardinality({r \in R : v[r] = s})]
  <2>1. ASSUME NEW s \in Statuses PROVE {r \in R : v[r] = s} = Counted(s) BY DEF Counted
  <2>2. ASSUME NEW s \in Statuses PROVE responses[s] = Cardinality({r \in R : v[r] = s})
    BY <2>1 DEF CounterInv, CountersAgree, Counted
  <2>3. responses = [s \in Statuses |-> responses[s]] BY DEF CounterInv
  <2> HIDE DEF R, v
  <2> QED BY <2>2, <2>3, Zenon
<1>6. Total(responses) = Cardinality(R)
  <2> HIDE DEF R, v
  <2> QED BY <1>1, <1>3, <1>4, <1>5, TotalCounts
<1>7. requests = Cardinality(Begun) BY DEF CounterInv, CountersAgree, Begun
<1> HIDE DEF R
<1> QED BY <1>3, <1>6, <1>7

\* Requests begin, and a scrape is not disturbed.
LEMMA RequestsGrow ==
    ASSUME CounterInv, NEW r \in Requests, Handle(r)
    PROVE  scrape' = scrape /\ requests' \in Nat /\ requests' >= requests
<1>0. requests \in Nat BY DEF CounterInv
<1>1. CASE Begin(r) BY <1>0, <1>1 DEF Begin
<1>2. CASE Authenticate(r)
  BY <1>0, <1>2 DEF Authenticate, AuthenticateOk, AuthenticateRejects, AuthenticateFails, Continue,
               metrics
<1>3. CASE RateLimit(r)
  BY <1>0, <1>3 DEF RateLimit, LimiterAllows, LimiterDenies, LimiterFails, Continue, metrics
<1>4. CASE Route(r) BY <1>0, <1>4 DEF Route, Continue, metrics
<1>5. CASE Proxy(r)
  BY <1>0, <1>5 DEF Proxy, ProxyInterim, ProxyFails, ProxyResponds, ProxyCopies, recoverPanic,
               Continue, metrics
<1>6. CASE FinishInFlight(r) \/ FinishCount(r)
  BY <1>0, <1>6 DEF FinishInFlight, FinishCount, Continue
<1>7. CASE enqueueUsage(r) BY <1>0, <1>7 DEF enqueueUsage, metrics
<1> QED BY <1>1, <1>2, <1>3, <1>4, <1>5, <1>6, <1>7, Zenon DEF Handle

\* What a scrape reads next comes after what it has read.
LEMMA Appended ==
    ASSUME NEW s \in Seq(Nat), NEW x \in Nat, NEW n \in Nat, Len(s) = n
    PROVE  /\ Append(s, x) \in Seq(Nat) /\ Len(Append(s, x)) = n + 1
           /\ Append(s, x)[n + 1] = x /\ \A i \in 1..n : Append(s, x)[i] = s[i]
OBVIOUS

\* Every step keeps what a scrape has read in order.
LEMMA ScrapeStays ==
    ASSUME Types, CounterInv, ScrapeInv, [Next]_vars
    PROVE  ScrapeInv'
<1>0. requests \in Nat /\ Len(scrape) \in Nat BY DEF CounterInv, ScrapeInv
<1>1. ASSUME scrape' = scrape, requests' \in Nat, requests' >= requests PROVE ScrapeInv'
  <2>1. Len(scrape) >= 1 => scrape[1] \in Nat BY <1>0 DEF ScrapeInv
  <2> QED BY <1>0, <1>1, <2>1 DEF ScrapeInv
<1>2. CASE UNCHANGED vars \/ \E key \in Keys : RevokeKey(key) \/ RestoreKey(key)
  BY <1>0, <1>1, <1>2 DEF vars, RevokeKey, RestoreKey, metrics
<1>3. ASSUME NEW r \in Requests, Handle(r) PROVE ScrapeInv' BY <1>1, <1>3, RequestsGrow
<1>4. CASE Scrape
  <2>0. Len(ScrapeOrder) = 2 /\ ScrapeOrder[1] = "responses" /\ ScrapeOrder[2] = "requests"
    BY DEF ScrapeOrder
  <2>1. requests' = requests BY <1>4 DEF Scrape, metrics
  <2>2. CASE Len(scrape) = 2
    <3>1. scrape' = <<>> BY <1>4, <2>0, <2>2 DEF Scrape
    <3> QED BY <3>1 DEF ScrapeInv
  <2>3. CASE Len(scrape) = 0
    <3>1. scrape' = Append(scrape, Total(responses)) BY <1>4, <2>0, <2>3 DEF Scrape
    <3>2. Total(responses) \in Nat /\ Total(responses) <= requests BY FewerResponses
    <3>3. scrape' \in Seq(Nat) /\ Len(scrape') = 1 /\ scrape'[1] = Total(responses)
      BY <2>3, <3>1, <3>2 DEF ScrapeInv
    <3> QED BY <2>1, <3>2, <3>3 DEF ScrapeInv
  <2>4. CASE Len(scrape) = 1
    <3>1. scrape' = Append(scrape, requests) BY <1>4, <2>0, <2>4 DEF Scrape
    <3>2. scrape \in Seq(Nat) /\ requests \in Nat BY <1>0 DEF ScrapeInv
    <3>3. /\ scrape' \in Seq(Nat) /\ Len(scrape') = 1 + 1
          /\ scrape'[1 + 1] = requests /\ \A i \in 1..1 : scrape'[i] = scrape[i]
      BY <2>4, <3>1, <3>2, Appended
    <3>4. Len(scrape') = 2 /\ scrape'[1] = scrape[1] /\ scrape'[2] = requests BY ONLY <3>3
    <3> QED BY <2>1, <2>4, <3>3, <3>4 DEF ScrapeInv
  <2>5. Len(scrape) = 0 \/ Len(scrape) = 1 \/ Len(scrape) = 2
    <3>1. PICK n \in Nat : n = Len(scrape) /\ n <= 2 BY <1>0 DEF ScrapeInv
    <3>2. n = 0 \/ n = 1 \/ n = 2 BY ONLY <3>1, n \in Nat
    <3> QED BY <3>1, <3>2
  <2> QED BY <2>2, <2>3, <2>4, <2>5
<1> QED BY <1>2, <1>3, <1>4 DEF Next

-----------------------------------------------------------------------------
(* The theorems *)

HandlerInv == Types /\ AllGood /\ UsageInv /\ BarredInv /\ CounterInv /\ ScrapeInv

\* Before the first request the invariant holds.
LEMMA HandlerInit == Init => HandlerInv
<1> SUFFICES ASSUME Init PROVE HandlerInv OBVIOUS
<1>1. \A r \in Requests :
         /\ pc[r] = "new" /\ trail[r] = {} /\ capture[r] = NoPrincipal
         /\ w[r] \in Writers /\ Fresh(w[r]) /\ w[r].header = {}
  <2>1. [status |-> 200, wroteHeader |-> FALSE, header |-> {}, sent |-> 0,
         sentHeader |-> {}] \in Writers
    BY StatusFacts DEF Writers
  <2> QED BY <2>1 DEF Init, Fresh
<1>2. Types
  <2>1. w \in [Requests -> Writers] BY <1>1 DEF Init
  <2>2. /\ failOpen \in BOOLEAN /\ active \subseteq Keys /\ barred \subseteq Requests
        /\ pc \in [Requests -> Positions]
        /\ capture \in [Requests -> Keys \cup {NoPrincipal}]
    BY DEF Init, Positions
  <2>3. trail \in [Requests -> SUBSET Notes] BY DEF Init
  <2>4. input \in [Requests -> [key : Keys \cup {NoKey, Blank}, path : Paths \cup {"none"}]]
    BY SMTT(30) DEF Init, None
  <2> QED BY <2>1, <2>2, <2>3, <2>4 DEF Types
<1>3. ASSUME NEW r \in Requests
      PROVE  Good(pc[r], input[r], w[r], capture[r], trail[r], failOpen)
  <2>1. Path("new", input[r], NoPrincipal, {}, failOpen) BY DEF Path
  <2>2. Response("new", w[r], {}) BY <1>1 DEF Response, Closing
  <2>3. Verdict("new", input[r], w[r], {}, failOpen) BY DEF Verdict, Closing
  <2> QED BY <1>1, <2>1, <2>2, <2>3, Zenon DEF Good
<1>4. UsageInv
  <2>1. \A r \in Requests : ~Recorded(r) BY <1>1 DEF Recorded
  <2> HIDE DEF Recorded, EventOf
  <2> QED BY <2>1 DEF UsageInv, Init
<1>5. BarredInv BY DEF BarredInv, Init
<1>6. CounterInv
  <2>1. Begun = {} /\ Within = {} /\ \A s \in Statuses : Counted(s) = {}
    BY <1>1 DEF Begun, Within, Counted
  <2>2. requests = 0 /\ inFlight = 0 /\ responses = [s \in Statuses |-> 0] BY DEF Init
  <2> QED BY <2>1, <2>2, FS_EmptySet, Zenon DEF CounterInv, CountersAgree, Begun, Within, Counted
<1>7. ScrapeInv BY DEF ScrapeInv, Init
<1> QED BY <1>2, <1>3, <1>4, <1>5, <1>6, <1>7 DEF HandlerInv, AllGood

\* Every reachable state satisfies the invariant.
THEOREM HandlerInvariance == Spec => []HandlerInv
<1>1. HandlerInv /\ [Next]_vars => HandlerInv'
  BY StepGood, UsageStays, BarredStays, CounterStays, ScrapeStays DEF HandlerInv
<1> QED BY <1>1, HandlerInit, PTL DEF Spec

\* Types, and with them: the in-flight gauge never goes below zero and the client gets
\* one final status.
THEOREM HandlerTypeCorrect == Spec => []TypeOK
<1>1. HandlerInv => TypeOK
  <2> SUFFICES ASSUME HandlerInv PROVE TypeOK OBVIOUS
  <2>1. Types /\ CounterInv BY DEF HandlerInv
  <2>2. ASSUME NEW r \in Requests
        PROVE  /\ w[r].status \in Statuses /\ w[r].sent \in (Statuses \ {103}) \cup {0}
               /\ capture[r] \in Keys \cup {NoPrincipal}
    <3>1. w[r] \in Writers /\ capture[r] \in Keys \cup {NoPrincipal} BY <2>1 DEF Types
    <3> QED BY <3>1 DEF Writers, Final
  <2> QED BY <2>1, <2>2 DEF TypeOK, Types, CounterInv, Positions
<1> QED BY <1>1, HandlerInvariance, PTL

\* authenticate and rateLimit guard the proxies, whatever the store and Redis answer.
THEOREM ProxiedOnlyIfGrantedHolds == Spec => []ProxiedOnlyIfGranted
<1>1. HandlerInv => ProxiedOnlyIfGranted
  <2> SUFFICES ASSUME HandlerInv, NEW r \in Requests, "proxied" \in trail[r]
               PROVE  /\ "authenticated" \in trail[r]
                      /\ "granted" \in trail[r] \/ ("limiterFailed" \in trail[r] /\ failOpen)
    BY DEF ProxiedOnlyIfGranted
  <2>1. Path(pc[r], input[r], capture[r], trail[r], failOpen) BY DEF HandlerInv, AllGood, Good
  <2>2. "authenticated" \in trail[r] BY <2>1 DEF Path
  <2>3. Admitted(trail[r], failOpen) BY <2>1 DEF Path
  <2> QED BY <2>2, <2>3 DEF Admitted, Open
<1> QED BY <1>1, HandlerInvariance, PTL

\* A revocation holds for every request that begins after it.
THEOREM RevocationIsImmediateHolds == Spec => []RevocationIsImmediate
<1>1. HandlerInv => RevocationIsImmediate
  <2> SUFFICES ASSUME HandlerInv, NEW r \in barred
               PROVE  /\ trail[r] \cap {"authenticated", "granted", "denied", "proxied"} = {}
                      /\ \A e \in events : e.request # r
    BY DEF RevocationIsImmediate
  <2>1. r \in Requests /\ "authenticated" \notin trail[r]
    BY DEF HandlerInv, Types, BarredInv
  <2>2. Path(pc[r], input[r], capture[r], trail[r], failOpen)
    BY <2>1 DEF HandlerInv, AllGood, Good
  <2>3. trail[r] \cap {"granted", "denied", "proxied"} = {} BY <2>1, <2>2 DEF Path
  <2>4. \A e \in events : e.request # r
    BY <2>1 DEF HandlerInv, UsageInv, EventOf, Recorded
  <2> QED BY <2>1, <2>3, <2>4
<1> QED BY <1>1, HandlerInvariance, PTL

\* One usage event per authenticated request that is done, and none besides.
THEOREM UsageIsExactHolds == Spec => []UsageIsExact
<1>1. HandlerInv => UsageIsExact
  <2> SUFFICES ASSUME HandlerInv, NEW r \in Requests
               PROVE  LET mine == {e \in events : e.request = r}
                      IN  /\ Done(r) => Cardinality(mine) =
                                IF "authenticated" \in trail[r] /\ "noEventID" \notin trail[r]
                                THEN 1 ELSE 0
                          /\ \A e \in mine :
                                /\ e.key = input[r].key /\ e.status = w[r].status /\ Validate(e)
                                /\ e.route \in {"/api/users", "/api/orders", "/api/unknown"}
    BY DEF UsageIsExact
  <2> DEFINE mine == {e \in events : e.request = r}
  <2>1. mine = IF Recorded(r) THEN {EventOf(r)} ELSE {} BY DEF HandlerInv, UsageInv, EventOf
  <2>2. Cardinality(mine) = IF Recorded(r) THEN 1 ELSE 0
    <3> HIDE DEF Recorded, EventOf, mine
    <3> QED BY <2>1, FS_EmptySet, FS_Singleton, Zenon
  <2>3. ASSUME NEW e \in mine
        PROVE  /\ e.key = input[r].key /\ e.status = w[r].status /\ Validate(e)
               /\ e.route \in {"/api/users", "/api/orders", "/api/unknown"}
    <3>1. e = EventOf(r) /\ Recorded(r)
      <4> HIDE DEF Recorded, EventOf
      <4> QED BY <2>1
    <3>2. Path(pc[r], input[r], capture[r], trail[r], failOpen) BY DEF HandlerInv, AllGood, Good
    <3>3. capture[r] = input[r].key BY <3>1, <3>2 DEF Path, Recorded
    <3>4. routeKey(input[r].path) \in {"/api/users", "/api/orders", "/api/unknown"}
      BY DEF routeKey
    <3>5. capture[r] # NoPrincipal
      BY <3>1, <3>2, KeysAssumption DEF Path, Recorded, NoPrincipal
    <3>6. w[r].status \in Statuses BY DEF HandlerInv, Types, Writers
    <3>7. Statuses \subseteq 100..599 BY StatusAssumption, SMTT(30) DEF Statuses
    <3> QED BY <3>1, <3>3, <3>4, <3>5, <3>6, <3>7, ZenonT(30) DEF EventOf, Validate
  <2>4. Done(r) => (Recorded(r) <=> "authenticated" \in trail[r] /\ "noEventID" \notin trail[r])
    BY DEF Done, Recorded
  <2> HIDE DEF mine
  <2>5. Done(r) => Cardinality(mine) =
           IF "authenticated" \in trail[r] /\ "noEventID" \notin trail[r] THEN 1 ELSE 0
    BY <2>2, <2>4
  <2> QED BY <2>3, <2>5 DEF mine
<1> QED BY <1>1, HandlerInvariance, PTL

\* The registry accounts for every request once, also when the handler panicked.
THEOREM CountersAgreeHolds == Spec => []CountersAgree
<1>1. HandlerInv => CountersAgree BY DEF HandlerInv, CounterInv
<1> QED BY <1>1, HandlerInvariance, PTL

\* A scrape that overlaps any number of requests reports no more responses than requests.
THEOREM ScrapeIsConsistentHolds == Spec => []ScrapeIsConsistent
<1>1. ScrapeInv => ScrapeIsConsistent
  <2> SUFFICES ASSUME ScrapeInv, Len(scrape) = 2, NEW i \in 1..2, NEW j \in 1..2,
                      ScrapeOrder[i] = "responses", ScrapeOrder[j] = "requests"
               PROVE  scrape[i] <= scrape[j]
    BY DEF ScrapeIsConsistent
  <2>1. i = 1 /\ j = 2 BY DEF ScrapeOrder
  <2> QED BY <2>1 DEF ScrapeInv
<1>2. HandlerInv => ScrapeInv BY DEF HandlerInv
<1> QED BY <1>1, <1>2, HandlerInvariance, PTL

\* Every refusal and failure reaches the client under its own status.
THEOREM FailureStatusesHolds == Spec => []FailureStatuses
<1>1. HandlerInv => FailureStatuses
  <2> SUFFICES ASSUME HandlerInv, NEW r \in Requests, Done(r), ~Interim(r)
               PROVE  /\ input[r].key = Blank => w[r].sent = 401
                      /\ "rejected" \in trail[r] <=> w[r].sent = 401 /\ "responded" \notin trail[r]
                      /\ "denied" \in trail[r] => w[r].sent = 429
                      /\ "lookupFailed" \in trail[r] => w[r].sent = 503
                      /\ "limiterFailed" \in trail[r] /\ ~failOpen => w[r].sent = 503
                      /\ "noRoute" \in trail[r] => w[r].sent = 404
                      /\ "upstreamFailed" \in trail[r] => w[r].sent = 502
    BY DEF FailureStatuses
  <2>1. Verdict("done", input[r], w[r], trail[r], failOpen)
    BY DEF HandlerInv, AllGood, Good, Done
  <2>2. Refused(input[r], w[r], trail[r], failOpen) BY <2>1 DEF Verdict, Closing, Interim
  <2>3. ~failOpen => ~Open(failOpen) BY DEF Open
  <2> QED BY <2>2, <2>3 DEF Refused
<1> QED BY <1>1, HandlerInvariance, PTL

\* The client sees rate-limit headers if and only if the limiter decided.
THEOREM HeadersMatchDecisionHolds == Spec => []HeadersMatchDecision
<1>1. HandlerInv => HeadersMatchDecision
  <2> SUFFICES ASSUME HandlerInv, NEW r \in Requests, Done(r), ~Interim(r)
               PROVE  /\ trail[r] \cap {"granted", "denied"} # {}
                            <=> RateLimitHeaders \subseteq w[r].sentHeader
                      /\ "denied" \in trail[r] <=> "Retry-After" \in w[r].sentHeader
                      /\ "X-Request-ID" \in w[r].sentHeader
    BY DEF HeadersMatchDecision
  <2>1. Response("done", w[r], trail[r]) BY DEF HandlerInv, AllGood, Good, Done
  <2>2. Written(w[r]) BY <2>1 DEF Response, Closing, Interim
  <2> QED BY <2>1, <2>2 DEF Response, Interim, Shown, Written
<1> QED BY <1>1, HandlerInvariance, PTL

\* What statusRecorder records, metrics count and usage events carry is what the client got.
THEOREM RecordedStatusIsSentHolds == Spec => []RecordedStatusIsSent
<1>1. HandlerInv => RecordedStatusIsSent
  <2> SUFFICES ASSUME HandlerInv, NEW r \in Requests, Done(r), ~Interim(r)
               PROVE  w[r].status = w[r].sent
    BY DEF RecordedStatusIsSent
  <2>1. Response("done", w[r], trail[r]) BY DEF HandlerInv, AllGood, Good, Done
  <2> QED BY <2>1 DEF Response, Closing, Interim, Written
<1> QED BY <1>1, HandlerInvariance, PTL
-----------------------------------------------------------------------------
(* The chain implements RequestLife *)

SeenAll == [r \in Requests |-> Seen(r)]
OfferedBy == {e.request : e \in events}

\* A handler step changes what the process sees of its own request only.
LEMMA SeenMoves ==
    ASSUME Types, NEW r \in Requests, Handle(r), NEW s, Seen(r)' = s
    PROVE  SeenAll' = [SeenAll EXCEPT ![r] = s]
<1>1. \A q \in Requests \ {r} : Seen(q)' = Seen(q) BY Untouched DEF Seen
<1> HIDE DEF Seen
<1> QED BY <1>1 DEF SeenAll

\* Every step of the chain is a step of RequestLife or leaves it alone.
LEMMA LifeStep ==
    ASSUME Types, [Next]_vars
    PROVE  [Life!Next]_(Life!vars)
<1>0. ASSUME SeenAll' = SeenAll, OfferedBy' = OfferedBy PROVE UNCHANGED Life!vars
  BY <1>0 DEF Life!vars, SeenAll, OfferedBy
<1>1. ASSUME UNCHANGED <<pc, capture, events>> PROVE UNCHANGED Life!vars
  BY <1>0, <1>1 DEF SeenAll, OfferedBy, Seen
<1>2. CASE UNCHANGED vars \/ Scrape \/ (\E key \in Keys : RevokeKey(key) \/ RestoreKey(key))
  BY <1>1, <1>2 DEF RevokeKey, RestoreKey, Scrape, request, vars
<1>3. ASSUME NEW r \in Requests, Handle(r) PROVE [Life!Next]_(Life!vars)
  <2>1. SeenAll \in [Requests -> {"new", "handling", "usage", "done"}] /\ SeenAll[r] = Seen(r)
    BY DEF SeenAll, Seen
  <2>2. ASSUME Seen(r)' = Seen(r), events' = events PROVE UNCHANGED Life!vars
    <3>1. SeenAll' = [SeenAll EXCEPT ![r] = Seen(r)] BY <1>3, <2>2, SeenMoves
    <3> QED BY <1>0, <2>1, <2>2, <3>1 DEF OfferedBy
  <2>3. CASE Begin(r)
    <3>1. pc[r] = "new" /\ pc'[r] = "authenticate" /\ events' = events
      BY <2>3 DEF Begin, Types
    <3>2. Seen(r) = "new" /\ Seen(r)' = "handling" BY <3>1 DEF Seen
    <3>3. SeenAll' = [SeenAll EXCEPT ![r] = "handling"] BY <1>3, <3>2, SeenMoves
    <3>4. Life!Accept(r) BY <2>1, <3>1, <3>2, <3>3 DEF Life!Accept, SeenAll
    <3> QED BY <3>4 DEF Life!Next
  <2>4. CASE Authenticate(r) \/ RateLimit(r) \/ Route(r) \/ Proxy(r)
    <3>1. Seen(r)' = Seen(r) /\ events' = events BY <2>4, Inside DEF Seen, Positions
    <3> QED BY <2>2, <3>1
  <2>5. CASE FinishInFlight(r)
    <3>1. pc[r] = "finish" /\ pc'[r] = "count" /\ events' = events
      BY <2>5 DEF FinishInFlight, Continue, Types
    <3>2. Seen(r)' = Seen(r) BY <3>1 DEF Seen
    <3> QED BY <2>2, <3>1, <3>2
  <2>6. CASE FinishCount(r)
    <3>1. pc[r] = "count" /\ pc'[r] = "usage" /\ events' = events
      BY <2>6 DEF FinishCount, Continue, Types
    <3>2. Seen(r) = "handling" /\ Seen(r)' \in {"usage", "done"} BY <3>1 DEF Seen
    <3>3. SeenAll' = [SeenAll EXCEPT ![r] = Seen(r)'] BY <1>3, SeenMoves
    <3>4. Life!Respond(r) BY <2>1, <3>1, <3>2, <3>3 DEF Life!Respond, SeenAll
    <3> QED BY <3>4 DEF Life!Next
  <2>7. CASE enqueueUsage(r)
    <3>1. pc[r] = "usage" /\ pc'[r] = "done" /\ capture' = capture BY <2>7, UsageStep
    <3>2. Seen(r)' = "done" BY <3>1 DEF Seen
    <3>3. SeenAll' = [SeenAll EXCEPT ![r] = "done"] BY <1>3, <3>2, SeenMoves
    <3>4. CASE capture[r] = NoPrincipal
      <4>1. Seen(r) = "done" /\ events' = events BY <2>7, <3>1, <3>4 DEF Seen, enqueueUsage
      <4> QED BY <2>2, <3>2, <4>1
    <3>5. CASE capture[r] # NoPrincipal
      <4>1. Seen(r) = "usage" BY <3>1, <3>5 DEF Seen
      <4>2. events' = events \/ OfferedBy' = OfferedBy \cup {r}
        BY <2>7 DEF enqueueUsage, OfferedBy
      <4>3. CASE events' = events
        <5>1. Life!Skip(r) BY <2>1, <3>3, <4>1, <4>3 DEF Life!Skip, SeenAll
        <5> QED BY <5>1 DEF Life!Next
      <4>4. CASE OfferedBy' = OfferedBy \cup {r}
        <5>1. Life!Offer(r) BY <2>1, <3>3, <4>1, <4>4 DEF Life!Offer, SeenAll, OfferedBy
        <5> QED BY <5>1 DEF Life!Next
      <4> QED BY <4>2, <4>3, <4>4
    <3> QED BY <3>4, <3>5
  <2> QED BY <1>3, <2>3, <2>4, <2>5, <2>6, <2>7 DEF Handle
<1> QED BY <1>2, <1>3 DEF Next

\* The handler chain is what GatewayProcess takes it for: every request offers at most
\* one usage event, and none once its handler has returned.
THEOREM HandlerImplementsLife == Spec => ImplementsLife
<1>1. Init => Life!Init BY DEF Init, Life!Init, Seen
<1>2. HandlerInv /\ [Next]_vars => [Life!Next]_(Life!vars) BY LifeStep DEF HandlerInv
<1> QED BY <1>1, <1>2, HandlerInvariance, PTL DEF Spec, ImplementsLife, Life!Spec
=============================================================================
