------------------------------ MODULE KeyStore ------------------------------
(***************************************************************************)
(* The policy tables of internal/store/postgres.go and the gateway-admin   *)
(* commands that write them.  Every method is one SQL statement, which     *)
(* PostgreSQL runs atomically; EnsureClient is two, and bootstrap is a     *)
(* sequence of methods without a transaction around it, which may be run   *)
(* again after a crash and may run beside other commands.                  *)
(*                                                                         *)
(* There is one plan ("developer").  Clients are known by their position   *)
(* in the order of created_at, and differ in whether they bear bootstrap's *)
(* name for the development client.  A route or a request path is a        *)
(* sequence of fragments of its text, so that a route prefix is a prefix   *)
(* of that sequence; the wildcards of LIKE are not used.  A policy stands  *)
(* for its rate and burst.  The row of a key is found under its display    *)
(* prefix; its digest is the pepper it was computed with.  The operator    *)
(* may change API_KEY_PEPPER, and then restarts the gateway with it.       *)
(*                                                                         *)
(* Definitions whose name ends in _Bug are deliberately wrong variants.    *)
(***************************************************************************)
EXTENDS Settings, Sequences, FiniteSets, SequencesExt

CONSTANTS
    Admins,         \* processes that run bootstrap
    DevKey, Keys,   \* DEV_API_KEY, and the keys that create-key issues
    MaxClients,     \* bound on the rows of clients
    RawPeppers,     \* values of API_KEY_PEPPER
    RoutePrefixes,  \* route prefixes that operators override
    Requested       \* paths that clients ask for

Orders == <<"/api", "/orders">>
Users == <<"/api", "/users">>
Unknown == <<"/api", "/unknown">>

ASSUME RoutesAssumption ==
    /\ MaxClients \in Nat \ {0}
    /\ Orders \in RoutePrefixes
    /\ \A s \in RoutePrefixes \cup Requested : s \in Seq({"/api", "/orders", "/users", "/unknown", "/7"})

\* create-key draws its keys at random and never draws the development key.
ASSUME KeysAssumption == DevKey \notin Keys

ASSUME PeppersAssumption == RawPeppers \subseteq [text : DOMAIN TextLength, blanks : Nat]

Policies == {"default", "small", "custom"}
NoClient == 0

VARIABLES
    plan,       \* the plan row: NoPlan or its policy
    clients,    \* rows of clients, oldest first: "dev" or "other"
    environ,    \* API_KEY_PEPPER, of the gateway and of gateway-admin
    keys,       \* rows of api_keys: client (NoClient: no row), digest, and whether revoked
    quotas,     \* client_route_quotas: set of [client, prefix, policy]
    pc, mine,   \* per bootstrap: next statement, the clientID it holds
    completed   \* history: those that printed "bootstrap complete" under this pepper

vars == <<plan, clients, keys, quotas, environ, pc, mine, completed>>
tables == <<plan, clients, keys, quotas>>

NoPlan == "none"
NoDigest == Text("none", 0)

Init ==
    /\ plan = NoPlan /\ clients = <<>> /\ quotas = {}
    /\ environ \in RawPeppers
    /\ keys = [k \in Keys \cup {DevKey} |->
                  [client |-> NoClient, digest |-> NoDigest, revoked |-> FALSE]]
    /\ pc = [a \in Admins |-> "idle"]
    /\ mine = [a \in Admins |-> NoClient]
    /\ completed = {}

-----------------------------------------------------------------------------
(* Statements *)

UpsertPlan(policy) == plan' = policy /\ UNCHANGED <<clients, keys, quotas>>

\* INSERT INTO clients ... SELECT ... FROM plans WHERE slug: an error without the plan.
CreateClient(name) ==
    /\ plan # NoPlan /\ Len(clients) < MaxClients
    /\ clients' = Append(clients, name)
    /\ UNCHANGED <<plan, keys, quotas>>

\* The digest of a key as gateway-admin computes it; it refuses a short pepper.
digest == apiKeyPepper(environ)

CreateAPIKey_Bug(k, client) ==
    /\ LongEnough(digest)
    /\ keys' = [keys EXCEPT ![k] = [client |-> client, digest |-> digest, revoked |-> FALSE]]
    /\ UNCHANGED <<plan, clients, quotas>>

\* A digest or a prefix that is there already violates a unique constraint.
CreateAPIKey(k, client) ==
    /\ LongEnough(digest) /\ keys[k].client = NoClient
    /\ keys' = [keys EXCEPT ![k] = [client |-> client, digest |-> digest, revoked |-> FALSE]]
    /\ UNCHANGED <<plan, clients, quotas>>

EnsureAPIKey_Bug(k, client) ==
    /\ LongEnough(digest)
    /\ keys' = [keys EXCEPT ![k] = IF @.client = NoClient
                                   THEN [client |-> client, digest |-> digest, revoked |-> FALSE]
                                   ELSE [@ EXCEPT !.revoked = FALSE]]
    /\ UNCHANGED <<plan, clients, quotas>>

\* ON CONFLICT (key_hash) DO UPDATE SET revoked_at = NULL: the key keeps its client.
\* A row with the prefix but another digest violates the other unique constraint.
EnsureAPIKey(k, client) ==
    /\ LongEnough(digest)
    /\ keys[k].client # NoClient => keys[k].digest = digest
    /\ keys' = [keys EXCEPT ![k] = IF @.client = NoClient
                                   THEN [client |-> client, digest |-> digest, revoked |-> FALSE]
                                   ELSE [@ EXCEPT !.revoked = FALSE]]
    /\ UNCHANGED <<plan, clients, quotas>>

SetRouteQuota_Bug(client, prefix, policy) ==
    /\ quotas' = quotas \cup {[client |-> client, prefix |-> prefix, policy |-> policy]}
    /\ UNCHANGED <<plan, clients, keys>>

SetRouteQuota(client, prefix, policy) ==
    /\ quotas' = {q \in quotas : ~(q.client = client /\ q.prefix = prefix)}
                 \cup {[client |-> client, prefix |-> prefix, policy |-> policy]}
    /\ UNCHANGED <<plan, clients, keys>>

RevokeKey(k) ==
    /\ keys[k].client # NoClient /\ ~keys[k].revoked
    /\ keys' = [keys EXCEPT ![k].revoked = TRUE]
    /\ UNCHANGED <<plan, clients, quotas>>

Matching(client, route) ==
    {q \in quotas : q.client = client /\ IsPrefix(q.prefix, route)}

\* The override with the longest prefix of route, or the plan.
Policy(client, route) ==
    LET best == {q \in Matching(client, route) :
                    \A p \in Matching(client, route) : Len(p.prefix) <= Len(q.prefix)}
    IN  IF best = {} THEN plan ELSE (CHOOSE q \in best : TRUE).policy

\* The gateway looks for the digest under its own pepper.
LookupActiveKey(k, route) ==
    IF \/ keys[k].client = NoClient \/ keys[k].revoked
       \/ keys[k].digest # APIKeyPepper(environ)
    THEN "invalid" ELSE Policy(keys[k].client, route)

\* handler.go's routeKey, which the gateway applies to a path before the lookup.
routeKey(path) ==
    CASE IsPrefix(Users, path)  -> Users
      [] IsPrefix(Orders, path) -> Orders
      [] OTHER                  -> Unknown

-----------------------------------------------------------------------------
(* bootstrap *)

Goto(a, at) == pc' = [pc EXCEPT ![a] = at]

BootstrapPlan(a) ==
    /\ pc[a] = "idle"
    /\ UpsertPlan("default")
    /\ Goto(a, "find")
    /\ UNCHANGED <<mine, completed>>

Developers == {i \in 1..Len(clients) : clients[i] = "dev"}

\* The SELECT of EnsureClient: the oldest client of that name and plan.
FindClient(a) ==
    /\ pc[a] = "find"
    /\ IF Developers # {} THEN Goto(a, "key") /\ mine' = [mine EXCEPT ![a] = Min(Developers)]
                          ELSE Goto(a, "create") /\ UNCHANGED mine
    /\ UNCHANGED <<tables, completed>>

\* The INSERT of EnsureClient, if the SELECT found nothing.
BootstrapClient(a) ==
    /\ pc[a] = "create"
    /\ CreateClient("dev")
    /\ mine' = [mine EXCEPT ![a] = Len(clients) + 1]
    /\ Goto(a, "key")
    /\ UNCHANGED completed

BootstrapKey(a) ==
    /\ pc[a] = "key"
    /\ EnsureAPIKey(DevKey, mine[a])
    /\ Goto(a, "quota")
    /\ UNCHANGED <<mine, completed>>

BootstrapQuota_Bug(a) ==
    /\ pc[a] = "quota"
    /\ Goto(a, "idle")
    /\ completed' = completed \cup {a}
    /\ UNCHANGED <<tables, mine>>

BootstrapQuota(a) ==
    /\ pc[a] = "quota"
    /\ SetRouteQuota(mine[a], Orders, "small")
    /\ Goto(a, "idle")
    /\ completed' = completed \cup {a}
    /\ UNCHANGED mine

\* An error, the 30 second context or a crash; bootstrap can be run again.
BootstrapFails(a) ==
    /\ pc[a] # "idle"
    /\ Goto(a, "idle")
    /\ mine' = [mine EXCEPT ![a] = NoClient]
    /\ UNCHANGED <<tables, completed>>

Bootstrap(a) ==
    /\ \/ BootstrapPlan(a) \/ FindClient(a) \/ BootstrapClient(a) \/ BootstrapKey(a)
       \/ BootstrapQuota(a) \/ BootstrapFails(a)
    /\ UNCHANGED environ

-----------------------------------------------------------------------------
(* The other commands *)

createPlan == \E policy \in {"default", "custom"} : UpsertPlan(policy)

\* An operator does not reuse bootstrap's name.
createClient == CreateClient("other")

createKey == \E k \in Keys, client \in 1..Len(clients) : CreateAPIKey(k, client)

\* The operator changes the pepper between two commands.
Rotate ==
    /\ \A a \in Admins : pc[a] = "idle"
    /\ environ' \in RawPeppers \ {environ} /\ completed' = {}
    /\ UNCHANGED <<tables, pc, mine>>

revokeKey == \E k \in Keys \cup {DevKey} : RevokeKey(k)

setRouteQuota ==
    \E client \in 1..Len(clients), prefix \in RoutePrefixes :
        SetRouteQuota(client, prefix, "custom")

Command ==
    /\ createPlan \/ createClient \/ createKey \/ revokeKey \/ setRouteQuota
    /\ UNCHANGED <<environ, pc, mine, completed>>

Next == Command \/ Rotate \/ \E a \in Admins : Bootstrap(a)

Spec == Init /\ [][Next]_vars

-----------------------------------------------------------------------------
(* Properties *)

\* Types: keys, quotas and a running bootstrap refer to clients that exist, as the
\* foreign keys of 001_api_keys.sql demand.
TypeOK ==
    /\ plan \in Policies \cup {NoPlan}
    /\ clients \in Seq({"dev", "other"}) /\ Len(clients) <= MaxClients
    /\ keys \in [Keys \cup {DevKey} -> [client : 0..Len(clients), revoked : BOOLEAN,
                                     digest : {apiKeyPepper(raw) : raw \in RawPeppers} \cup {NoDigest}]]
    /\ environ \in RawPeppers
    /\ \A q \in quotas : /\ q.client \in 1..Len(clients)
                         /\ q.prefix \in RoutePrefixes /\ q.policy \in Policies
    /\ pc \in [Admins -> {"idle", "find", "create", "key", "quota"}]
    /\ mine \in [Admins -> 0..Len(clients)]
    /\ completed \subseteq Admins

\* A key that LookupActiveKey accepts always has a policy, for every path, and the
\* unique constraint leaves at most one override to win.
PolicyIsDefined ==
    \A k \in Keys \cup {DevKey}, path \in Requested :
        /\ LookupActiveKey(k, routeKey(path)) \in Policies \cup {"invalid"}
        /\ \A p, q \in Matching(keys[k].client, routeKey(path)) :
              Len(p.prefix) = Len(q.prefix) => p = q

\* A revoked key comes back only as the development key of a bootstrap, never
\* through another command.
RevocationLasts ==
    [][\A k \in Keys \cup {DevKey} :
          keys[k].revoked /\ ~keys'[k].revoked => k = DevKey /\ \E a \in Admins : BootstrapKey(a)
      ]_vars

\* Once a bootstrap has completed, the client of the development key has its override
\* for /api/orders, as docs/api-key-operations.md promises, also if earlier bootstraps
\* failed half-way or another one is under way.  Two bootstraps that both find no client
\* create one each, and then the key and the override may be on different ones.
BootstrapGivesQuota ==
    completed # {} /\ Cardinality(Developers) = 1 =>
        \E q \in quotas : q.client = keys[DevKey].client /\ q.prefix = Orders

\* Once a bootstrap has completed, the gateway that shares its API_KEY_PEPPER accepts
\* the development key until it is revoked, also if the key was first stored under an
\* earlier pepper.  Only blanks around the value make the two differ: the gateway
\* trims them and gateway-admin does not.
BootstrapGivesKey ==
    completed # {} /\ environ.blanks = 0 /\ ~keys[DevKey].revoked =>
        \A path \in Requested : LookupActiveKey(DevKey, routeKey(path)) # "invalid"

\* The longest override that matches the path of a request applies to it, as
\* docs/api-key-operations.md says.
LongestPrefixApplies ==
    \A k \in Keys \cup {DevKey}, path \in Requested :
        LookupActiveKey(k, routeKey(path)) # "invalid" =>
            LookupActiveKey(k, routeKey(path)) = Policy(keys[k].client, path)

\* How far that goes: on a known route the longest override applies unless one of the
\* client's overrides is for a path below the route, which the lookup does not see.
LongestRoutePrefixApplies ==
    \A k \in Keys \cup {DevKey}, path \in Requested :
        /\ LookupActiveKey(k, routeKey(path)) # "invalid"
        /\ IsPrefix(routeKey(path), path)
        /\ \A q \in Matching(keys[k].client, path) : Len(q.prefix) <= Len(routeKey(path))
        => LookupActiveKey(k, routeKey(path)) = Policy(keys[k].client, path)
=============================================================================
