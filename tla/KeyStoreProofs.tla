--------------------------- MODULE KeyStoreProofs ---------------------------
(***************************************************************************)
(* Proofs about KeyStore, for any number of operators, keys, clients,      *)
(* route prefixes, paths and peppers.                                      *)
(***************************************************************************)
EXTENDS KeyStore, WellFoundedInduction, FiniteSetTheorems, TLAPS

Digests == {apiKeyPepper(raw) : raw \in RawPeppers} \cup {NoDigest}
AllKeys == Keys \cup {DevKey}

\* The rows of the four tables; a client has a plan, and the primary key of
\* client_route_quotas is unique.
TablesInv ==
    /\ plan \in Policies \cup {NoPlan}
    /\ clients \in Seq({"dev", "other"}) /\ Len(clients) <= MaxClients
    /\ Len(clients) > 0 => plan # NoPlan
    /\ keys \in [AllKeys -> [client : 0..Len(clients), revoked : BOOLEAN, digest : Digests]]
    /\ \A k \in AllKeys : keys[k].client = NoClient => keys[k].revoked = FALSE
    /\ environ \in RawPeppers
    /\ quotas \subseteq [client : 1..Len(clients), prefix : RoutePrefixes, policy : Policies]
    /\ \A p, q \in quotas : p.client = q.client /\ p.prefix = q.prefix => p = q

\* A bootstrap that comes to the key or the override holds a client.
BootInv ==
    /\ pc \in [Admins -> {"idle", "find", "create", "key", "quota"}]
    /\ mine \in [Admins -> 0..Len(clients)]
    /\ \A a \in Admins : pc[a] \in {"key", "quota"} => mine[a] \in 1..Len(clients)
    /\ completed \subseteq Admins

\* The development key is stored under the current pepper once a bootstrap got past it.
StoredInv ==
    completed # {} \/ (\E a \in Admins : pc[a] = "quota") =>
        keys[DevKey].client # NoClient /\ keys[DevKey].digest = digest

\* A bootstrap holds a client of the development name, the development key belongs to
\* one, and once a bootstrap has completed one of them has the override for /api/orders.
DeveloperInv ==
    /\ \A a \in Admins : pc[a] \in {"key", "quota"} => mine[a] \in Developers
    /\ keys[DevKey].client # NoClient => keys[DevKey].client \in Developers
    /\ completed # {} => \E q \in quotas : q.client \in Developers /\ q.prefix = Orders

StoreInv == TablesInv /\ BootInv /\ StoredInv /\ DeveloperInv

-----------------------------------------------------------------------------
(* Statements *)

\* A set of naturals has a least element.
LEMMA MinIsIn ==
    ASSUME NEW S \in SUBSET Nat, S # {}
    PROVE  Min(S) \in S
<1> DEFINE R == OpToRel(<, Nat)
<1>1. PICK x \in S : \A y \in S : ~(<<y, x>> \in R)
  <2> HIDE DEF R
  <2>1. IsWellFoundedOn(R, Nat) BY NatLessThanWellFounded DEF R
  <2> QED BY <2>1, WFMin, Zenon
<1>2. \A y \in S : x <= y
  <2>1. \A y \in Nat : y < x => <<y, x>> \in R BY DEF OpToRel
  <2> HIDE DEF R
  <2>2. ASSUME NEW y \in S PROVE x <= y
    <3>1. x \in Nat /\ y \in Nat OBVIOUS
    <3>2. ~(y < x) BY <1>1, <2>1, <3>1, Zenon
    <3> QED BY <3>1, <3>2
  <2> QED BY <2>2
<1>3. \E z \in S : \A y \in S : z =< y BY <1>2
<1> QED BY <1>3, Zenon DEF Min

\* Lengths are naturals, and clients refer to rows.
LEMMA Lengths ==
    ASSUME TablesInv
    PROVE  Len(clients) \in Nat /\ digest \in Digests /\ MaxClients \in Nat \ {0}
           /\ Orders \in RoutePrefixes
BY RoutesAssumption DEF TablesInv, Digests, digest

\* UpsertPlan and RevokeKey.
LEMMA PlanTables ==
    ASSUME TablesInv, UNCHANGED environ,
           \/ \E policy \in {"default", "custom"} : UpsertPlan(policy)
           \/ \E k \in AllKeys : RevokeKey(k)
    PROVE  TablesInv' /\ clients' = clients
<1>1. CASE \E policy \in {"default", "custom"} : UpsertPlan(policy)
  BY <1>1 DEF UpsertPlan, TablesInv, Policies, NoPlan
<1>2. ASSUME NEW k \in AllKeys, RevokeKey(k) PROVE TablesInv' /\ clients' = clients
  <2>1. UNCHANGED <<plan, clients, quotas>> /\ keys' = [keys EXCEPT ![k].revoked = TRUE]
    BY <1>2 DEF RevokeKey
  <2>2. keys' \in [AllKeys -> [client : 0..Len(clients), revoked : BOOLEAN, digest : Digests]]
    BY <2>1, ZenonT(30) DEF TablesInv
  <2>3. \A j \in AllKeys : keys'[j].client = NoClient => keys'[j].revoked = FALSE
    BY <1>2, <2>1 DEF RevokeKey, TablesInv
  <2> QED BY <2>1, <2>2, <2>3 DEF TablesInv
<1> QED BY <1>1, <1>2

\* CreateClient appends a row; everything that refers to a row still does.
LEMMA ClientTables ==
    ASSUME TablesInv, UNCHANGED environ, NEW name \in {"dev", "other"}, CreateClient(name)
    PROVE  TablesInv' /\ Len(clients') = Len(clients) + 1
<1>1. /\ clients' = Append(clients, name) /\ Len(clients) < MaxClients
      /\ plan # NoPlan /\ UNCHANGED <<plan, keys, quotas>>
  BY DEF CreateClient
<1>2. clients \in Seq({"dev", "other"}) /\ Len(clients) \in Nat BY Lengths DEF TablesInv
<1>3. clients' \in Seq({"dev", "other"}) /\ Len(clients') = Len(clients) + 1 BY <1>1, <1>2
<1>4. 0..Len(clients) \subseteq 0..Len(clients') /\ 1..Len(clients) \subseteq 1..Len(clients')
      /\ Len(clients') <= MaxClients
  BY <1>1, <1>2, <1>3, Lengths
<1>5. keys' \in [AllKeys -> [client : 0..Len(clients'), revoked : BOOLEAN, digest : Digests]]
  BY <1>1, <1>4 DEF TablesInv
<1>6. quotas' \subseteq [client : 1..Len(clients'), prefix : RoutePrefixes, policy : Policies]
  BY <1>1, <1>4 DEF TablesInv
<1> QED BY <1>1, <1>3, <1>4, <1>5, <1>6 DEF TablesInv

\* CreateAPIKey and EnsureAPIKey.
LEMMA KeyTables ==
    ASSUME TablesInv, UNCHANGED environ, NEW k \in AllKeys, NEW client \in 1..Len(clients),
           CreateAPIKey(k, client) \/ EnsureAPIKey(k, client)
    PROVE  TablesInv' /\ clients' = clients
<1> DEFINE Row == [client : 0..Len(clients), revoked : BOOLEAN, digest : Digests]
           new == [client |-> client, digest |-> digest, revoked |-> FALSE]
<1>1. UNCHANGED <<plan, clients, quotas>> BY DEF CreateAPIKey, EnsureAPIKey
<1>2. PICK row \in {new, [keys[k] EXCEPT !.revoked = FALSE]} : keys' = [keys EXCEPT ![k] = row]
  BY DEF CreateAPIKey, EnsureAPIKey
<1>3. new \in Row BY Lengths
<1>4. [keys[k] EXCEPT !.revoked = FALSE] \in Row BY Zenon DEF TablesInv
<1>5. keys' \in [AllKeys -> Row] BY <1>2, <1>3, <1>4, Zenon DEF TablesInv
<1>6. row.client = NoClient => row.revoked = FALSE
  <2>1. CASE row = new BY <2>1
  <2>2. CASE row = [keys[k] EXCEPT !.revoked = FALSE] BY <2>2 DEF TablesInv
  <2> QED BY <1>2, <2>1, <2>2, Zenon
<1>7. \A j \in AllKeys : keys'[j].client = NoClient => keys'[j].revoked = FALSE
  BY <1>2, <1>6 DEF TablesInv
<1> QED BY <1>1, <1>5, <1>7 DEF TablesInv

\* SetRouteQuota replaces the row with the same primary key.
LEMMA QuotaTables ==
    ASSUME TablesInv, UNCHANGED environ, NEW client \in 1..Len(clients),
           NEW prefix \in RoutePrefixes, NEW policy \in Policies,
           SetRouteQuota(client, prefix, policy)
    PROVE  TablesInv' /\ clients' = clients
<1> DEFINE row == [client |-> client, prefix |-> prefix, policy |-> policy]
<1>1. UNCHANGED <<plan, clients, keys>> BY DEF SetRouteQuota
<1>2. quotas' = {q \in quotas : ~(q.client = client /\ q.prefix = prefix)} \cup {row}
  BY DEF SetRouteQuota
<1>3. row \in [client : 1..Len(clients), prefix : RoutePrefixes, policy : Policies] OBVIOUS
<1>4. row.client = client /\ row.prefix = prefix OBVIOUS
<1>5. quotas' \subseteq [client : 1..Len(clients), prefix : RoutePrefixes, policy : Policies]
  <2> HIDE DEF row
  <2> QED BY <1>2, <1>3 DEF TablesInv
<1>6. \A p, q \in quotas' : p.client = q.client /\ p.prefix = q.prefix => p = q
  <2> HIDE DEF row
  <2> QED BY <1>2, <1>4 DEF TablesInv
<1> QED BY <1>1, <1>5, <1>6 DEF TablesInv

-----------------------------------------------------------------------------
(* The commands and bootstrap *)

\* Every step keeps the tables in order.
LEMMA TablesStay ==
    ASSUME TablesInv, BootInv, [Next]_vars
    PROVE  TablesInv' /\ Len(clients') >= Len(clients)
<1>0. Len(clients) \in Nat /\ Orders \in RoutePrefixes /\ {"small", "custom"} \subseteq Policies
  BY Lengths DEF Policies
<1>1. ASSUME UNCHANGED <<tables, environ>> \/ Rotate
      PROVE  TablesInv' /\ Len(clients') >= Len(clients)
  <2>1. UNCHANGED tables /\ environ' \in RawPeppers BY <1>1 DEF Rotate, TablesInv
  <2> QED BY <1>0, <2>1 DEF TablesInv, tables
<1>2. CASE UNCHANGED vars BY <1>1, <1>2 DEF vars, tables
<1>3. CASE Command
  <2>1. UNCHANGED environ BY <1>3 DEF Command
  <2>2. CASE createPlan \/ revokeKey
    BY <1>0, <2>1, <2>2, PlanTables DEF createPlan, revokeKey, AllKeys
  <2>3. CASE createClient BY <1>0, <2>1, <2>3, ClientTables DEF createClient
  <2>4. CASE createKey BY <1>0, <2>1, <2>4, KeyTables DEF createKey, AllKeys
  <2>5. CASE setRouteQuota BY <1>0, <2>1, <2>5, QuotaTables DEF setRouteQuota
  <2> QED BY <1>3, <2>2, <2>3, <2>4, <2>5 DEF Command
<1>4. ASSUME NEW a \in Admins, Bootstrap(a) PROVE TablesInv' /\ Len(clients') >= Len(clients)
  <2>1. UNCHANGED environ BY <1>4 DEF Bootstrap
  <2>2. CASE BootstrapPlan(a) BY <1>0, <2>1, <2>2, PlanTables DEF BootstrapPlan
  <2>3. CASE FindClient(a) \/ BootstrapFails(a)
    BY <1>1, <2>1, <2>3 DEF FindClient, BootstrapFails
  <2>4. CASE BootstrapClient(a) BY <1>0, <2>1, <2>4, ClientTables DEF BootstrapClient
  <2>5. CASE BootstrapKey(a)
    <3>1. mine[a] \in 1..Len(clients) /\ EnsureAPIKey(DevKey, mine[a]) /\ DevKey \in AllKeys
      BY <2>5 DEF BootstrapKey, BootInv, AllKeys
    <3> QED BY <1>0, <2>1, <3>1, KeyTables
  <2>6. CASE BootstrapQuota(a)
    <3>1. mine[a] \in 1..Len(clients) /\ SetRouteQuota(mine[a], Orders, "small")
      BY <2>6 DEF BootstrapQuota, BootInv
    <3> QED BY <1>0, <2>1, <3>1, QuotaTables
  <2> QED BY <1>4, <2>2, <2>3, <2>4, <2>5, <2>6 DEF Bootstrap
<1> QED BY <1>1, <1>2, <1>3, <1>4 DEF Next

\* Every step keeps the bootstraps in order.
LEMMA BootStays ==
    ASSUME TablesInv, BootInv, [Next]_vars
    PROVE  BootInv'
<1> DEFINE n == Len(clients)
           m == Len(clients')
<1>0. n \in Nat /\ m \in Nat /\ n <= m
  <2>1. TablesInv' /\ m >= n BY TablesStay
  <2>2. clients' \in Seq({"dev", "other"}) BY <2>1 DEF TablesInv
  <2> QED BY <2>1, <2>2, Lengths
<1>1. 0..n \subseteq 0..m /\ 1..n \subseteq 1..m BY <1>0
<1>2. ASSUME UNCHANGED <<pc, mine, completed>> PROVE BootInv' BY <1>1, <1>2 DEF BootInv
<1>3. CASE UNCHANGED vars \/ Command BY <1>2, <1>3 DEF vars, Command
<1>4. CASE Rotate
  <2>1. pc' = pc /\ mine' = mine /\ completed' = {} BY <1>4 DEF Rotate
  <2> QED BY <1>1, <2>1 DEF BootInv
<1>5. ASSUME NEW a \in Admins, Bootstrap(a) PROVE BootInv'
  <2>1. ASSUME NEW at \in {"idle", "find", "create", "key", "quota"}, NEW x \in 0..m,
               pc' = [pc EXCEPT ![a] = at], mine' = [mine EXCEPT ![a] = x],
               at \in {"key", "quota"} => x \in 1..m, completed' \subseteq Admins
        PROVE  BootInv'
    <3> HIDE DEF m, n
    <3>1. pc' \in [Admins -> {"idle", "find", "create", "key", "quota"}]
      BY <2>1 DEF BootInv
    <3>2. mine \in [Admins -> 0..m] /\ mine' \in [Admins -> 0..m]
      BY <1>1, <2>1 DEF BootInv, n
    <3>3. ASSUME NEW b \in Admins, pc'[b] \in {"key", "quota"} PROVE mine'[b] \in 1..m
      BY <1>1, <2>1, <3>2, <3>3 DEF BootInv, n
    <3> QED BY <2>1, <3>1, <3>2, <3>3 DEF BootInv, m
  <2>2. /\ mine[a] \in 0..m /\ completed \subseteq Admins
        /\ mine = [mine EXCEPT ![a] = mine[a]]
    BY <1>1 DEF BootInv
  <2>3. CASE BootstrapPlan(a) BY <2>1, <2>2, <2>3 DEF BootstrapPlan, Goto
  <2>4. CASE FindClient(a)
    <3>1. CASE Developers # {}
      <4>1. Developers \in SUBSET Nat /\ Developers \subseteq 1..n BY DEF Developers
      <4>2. Min(Developers) \in 1..n BY <3>1, <4>1, MinIsIn, Zenon
      <4>3. Min(Developers) \in 0..m /\ Min(Developers) \in 1..m BY <1>0, <4>2
      <4>4. /\ pc' = [pc EXCEPT ![a] = "key"] /\ mine' = [mine EXCEPT ![a] = Min(Developers)]
            /\ completed' = completed
        BY <2>4, <3>1 DEF FindClient, Goto
      <4> QED BY <2>1, <2>2, <4>3, <4>4, Zenon
    <3>2. CASE Developers = {} BY <2>1, <2>2, <2>4, <3>2 DEF FindClient, Goto
    <3> QED BY <3>1, <3>2
  <2>5. CASE BootstrapClient(a)
    <3>1. m = n + 1
      BY <1>5, <2>5, ClientTables DEF BootstrapClient, Bootstrap
    <3>2. n + 1 \in 1..m /\ n + 1 \in 0..m BY <1>0, <3>1
    <3>3. /\ pc' = [pc EXCEPT ![a] = "key"] /\ mine' = [mine EXCEPT ![a] = n + 1]
          /\ completed' = completed
      BY <2>5 DEF BootstrapClient, Goto
    <3> QED BY <2>1, <2>2, <3>2, <3>3, Zenon
  <2>6. CASE BootstrapKey(a) \/ BootstrapQuota(a)
    <3>1. PICK at \in {"quota", "idle"} : pc' = [pc EXCEPT ![a] = at]
      BY <2>6 DEF BootstrapKey, BootstrapQuota, Goto
    <3>2. mine' = mine /\ completed' \subseteq Admins /\ mine[a] \in 1..n
      BY <2>2, <2>6 DEF BootstrapKey, BootstrapQuota, BootInv
    <3>3. mine[a] \in 1..m BY <1>1, <3>2
    <3> QED BY <2>1, <2>2, <3>1, <3>2, <3>3, Zenon
  <2>7. CASE BootstrapFails(a)
    <3>1. 0 \in 0..m BY <1>0
    <3> QED BY <2>1, <2>2, <2>7, <3>1, Zenon DEF BootstrapFails, Goto, NoClient
  <2> QED BY <1>5, <2>3, <2>4, <2>5, <2>6, <2>7 DEF Bootstrap
<1> QED BY <1>3, <1>4, <1>5 DEF Next

\* Statements do not take the development key away, whatever the command.
LEMMA StoredStays ==
    ASSUME TablesInv, BootInv, StoredInv, [Next]_vars
    PROVE  StoredInv'
<1> DEFINE Here == keys[DevKey].client # NoClient /\ keys[DevKey].digest = digest
<1>0. DevKey \in AllKeys /\ Len(clients) \in Nat BY Lengths DEF AllKeys
<1>1. ASSUME environ' = environ, Here,
             \/ keys' = keys
             \/ \E k \in AllKeys : RevokeKey(k)
             \/ \E k \in AllKeys, client \in 1..Len(clients) :
                   CreateAPIKey(k, client) \/ EnsureAPIKey(k, client)
      PROVE  Here'
  <2>1. digest' = digest BY <1>1 DEF digest
  <2>2. keys'[DevKey].client = keys[DevKey].client /\ keys'[DevKey].digest = keys[DevKey].digest
    <3>1. CASE keys' = keys BY <3>1
    <3>2. ASSUME NEW k \in AllKeys, RevokeKey(k)
          PROVE  /\ keys'[DevKey].client = keys[DevKey].client
                 /\ keys'[DevKey].digest = keys[DevKey].digest
      BY <1>0, <3>2 DEF RevokeKey, TablesInv
    <3>3. ASSUME NEW k \in AllKeys, NEW client \in 1..Len(clients),
                 CreateAPIKey(k, client) \/ EnsureAPIKey(k, client)
          PROVE  /\ keys'[DevKey].client = keys[DevKey].client
                 /\ keys'[DevKey].digest = keys[DevKey].digest
      <4>1. CASE k # DevKey BY <1>0, <3>3, <4>1 DEF CreateAPIKey, EnsureAPIKey, TablesInv
      <4>2. CASE k = DevKey BY <1>0, <1>1, <3>3, <4>2 DEF CreateAPIKey, EnsureAPIKey, TablesInv
      <4> QED BY <4>1, <4>2
    <3> QED BY <1>1, <3>1, <3>2, <3>3
  <2> QED BY <1>1, <2>1, <2>2
<1>2. CASE UNCHANGED vars BY <1>2 DEF vars, StoredInv, digest
<1>3. CASE Rotate
  <2>1. completed' = {} /\ \A a \in Admins : pc'[a] # "quota" BY <1>3 DEF Rotate
  <2> QED BY <2>1 DEF StoredInv
<1>4. CASE Command
  <2>1. environ' = environ /\ pc' = pc /\ completed' = completed BY <1>4 DEF Command
  <2>2. \/ keys' = keys
        \/ \E k \in AllKeys : RevokeKey(k)
        \/ \E k \in AllKeys, client \in 1..Len(clients) :
              CreateAPIKey(k, client) \/ EnsureAPIKey(k, client)
    BY <1>4 DEF Command, createPlan, createClient, createKey, revokeKey, setRouteQuota,
                UpsertPlan, CreateClient, SetRouteQuota, AllKeys
  <2> QED BY <1>1, <2>1, <2>2 DEF StoredInv
<1>5. ASSUME NEW a \in Admins, Bootstrap(a) PROVE StoredInv'
  <2>1. environ' = environ BY <1>5 DEF Bootstrap
  <2>2. CASE BootstrapKey(a)
    <3>1. EnsureAPIKey(DevKey, mine[a]) /\ mine[a] \in 1..Len(clients)
      BY <2>2 DEF BootstrapKey, BootInv
    <3>2. digest' = digest BY <2>1 DEF digest
    <3>3. keys'[DevKey].client # NoClient /\ keys'[DevKey].digest = digest
      BY <1>0, <3>1 DEF EnsureAPIKey, NoClient, TablesInv
    <3> QED BY <3>2, <3>3 DEF StoredInv
  <2>3. CASE ~BootstrapKey(a)
    <3>1. /\ keys' = keys
          /\ completed' # {} \/ (\E b \in Admins : pc'[b] = "quota") =>
                completed # {} \/ (\E b \in Admins : pc[b] = "quota")
      BY <1>5, <2>3 DEF Bootstrap, BootstrapPlan, FindClient, BootstrapClient, BootstrapQuota,
                        BootstrapFails, UpsertPlan, CreateClient, SetRouteQuota, Goto, tables,
                        BootInv
    <3> QED BY <1>1, <2>1, <3>1 DEF StoredInv
  <2> QED BY <2>2, <2>3
<1> QED BY <1>2, <1>3, <1>4, <1>5 DEF Next

\* No step takes a client of the development name away.
LEMMA DevelopersGrow ==
    ASSUME TablesInv, [Next]_vars
    PROVE  Developers \subseteq Developers'
<1>1. CASE clients' = clients BY <1>1 DEF Developers
<1>2. ASSUME NEW name \in {"dev", "other"}, CreateClient(name) PROVE Developers \subseteq Developers'
  <2>1. clients' = Append(clients, name) /\ clients \in Seq({"dev", "other"})
    BY <1>2 DEF CreateClient, TablesInv
  <2>2. Len(clients') = Len(clients) + 1 /\ \A i \in 1..Len(clients) : clients'[i] = clients[i]
    BY <2>1
  <2>3. Len(clients) \in Nat BY <2>1
  <2> QED BY <2>2, <2>3 DEF Developers
<1>3. clients' = clients \/ \E name \in {"dev", "other"} : CreateClient(name)
  BY DEF Next, vars, Command, Rotate, Bootstrap, createPlan, createClient, createKey, revokeKey,
         setRouteQuota, UpsertPlan, CreateAPIKey, RevokeKey, SetRouteQuota, EnsureAPIKey,
         BootstrapPlan, FindClient, BootstrapClient, BootstrapKey, BootstrapQuota,
         BootstrapFails, tables
<1> QED BY <1>1, <1>2, <1>3

\* SetRouteQuota takes no client's override of a route prefix away.
LEMMA QuotasGrow ==
    ASSUME NEW client, NEW prefix, NEW policy, SetRouteQuota(client, prefix, policy),
           NEW q \in quotas
    PROVE  \E p \in quotas' : p.client = q.client /\ p.prefix = q.prefix
<1> DEFINE row == [client |-> client, prefix |-> prefix, policy |-> policy]
<1>1. quotas' = {r \in quotas : ~(r.client = client /\ r.prefix = prefix)} \cup {row}
  BY DEF SetRouteQuota
<1>2. row.client = client /\ row.prefix = prefix OBVIOUS
<1> HIDE DEF row
<1>3. CASE q.client = client /\ q.prefix = prefix BY <1>1, <1>2, <1>3
<1>4. CASE ~(q.client = client /\ q.prefix = prefix) BY <1>1, <1>4
<1> QED BY <1>3, <1>4

\* Every step keeps the development client, its key and its override together.
LEMMA DeveloperStays ==
    ASSUME TablesInv, BootInv, DeveloperInv, [Next]_vars
    PROVE  DeveloperInv'
<1> DEFINE Held == \A a \in Admins : pc[a] \in {"key", "quota"} => mine[a] \in Developers
           Owned == keys[DevKey].client # NoClient => keys[DevKey].client \in Developers
           Granted == \E q \in quotas : q.client \in Developers /\ q.prefix = Orders
<1>0. /\ Held /\ Owned /\ (completed # {} => Granted) /\ Developers \subseteq Developers'
      /\ DevKey \in AllKeys
  BY DevelopersGrow DEF DeveloperInv, AllKeys
<1>1. ASSUME pc' = pc, mine' = mine PROVE Held' BY <1>0, <1>1
<1>2. ASSUME keys'[DevKey].client = keys[DevKey].client PROVE Owned' BY <1>0, <1>2
<1>3. ASSUME quotas' = quotas, completed' = completed PROVE (completed # {} => Granted)'
  BY <1>0, <1>3
<1>4. ASSUME NEW client, NEW prefix, NEW policy, SetRouteQuota(client, prefix, policy), Granted
      PROVE  Granted'
  BY <1>0, <1>4, QuotasGrow
<1>5. CASE UNCHANGED vars BY <1>1, <1>2, <1>3, <1>5 DEF vars, DeveloperInv
<1>6. CASE Rotate BY <1>1, <1>2, <1>6 DEF Rotate, tables, DeveloperInv
<1>7. CASE Command
  <2>1. pc' = pc /\ mine' = mine /\ completed' = completed BY <1>7 DEF Command
  <2>2. keys'[DevKey].client = keys[DevKey].client
    <3>1. CASE createKey
      BY <1>0, <3>1, KeysAssumption DEF createKey, CreateAPIKey, TablesInv
    <3>2. CASE revokeKey BY <1>0, <3>2 DEF revokeKey, RevokeKey, TablesInv
    <3>3. CASE createPlan \/ createClient \/ setRouteQuota
      BY <3>3 DEF createPlan, createClient, setRouteQuota, UpsertPlan, CreateClient, SetRouteQuota
    <3> QED BY <1>7, <3>1, <3>2, <3>3 DEF Command
  <2>3. (completed # {} => Granted)'
    <3>1. CASE setRouteQuota BY <1>0, <1>4, <2>1, <3>1 DEF setRouteQuota
    <3>2. CASE ~setRouteQuota
      BY <1>3, <1>7, <2>1, <3>2 DEF Command, createPlan, createClient, createKey, revokeKey,
                              UpsertPlan, CreateClient, CreateAPIKey, RevokeKey
    <3> QED BY <3>1, <3>2
  <2> QED BY <1>1, <1>2, <2>1, <2>2, <2>3 DEF DeveloperInv
<1>8. ASSUME NEW a \in Admins, Bootstrap(a) PROVE DeveloperInv'
  <2>1. ASSUME NEW at, NEW x, pc' = [pc EXCEPT ![a] = at], mine' = [mine EXCEPT ![a] = x],
               at \in {"key", "quota"} => x \in Developers'
        PROVE  Held'
    BY <1>0, <2>1 DEF BootInv
  <2>2. mine = [mine EXCEPT ![a] = mine[a]] BY DEF BootInv
  <2>3. CASE BootstrapPlan(a) \/ BootstrapFails(a)
    <3>1. Held' BY <2>1, <2>2, <2>3 DEF BootstrapPlan, BootstrapFails, Goto
    <3>2. keys' = keys /\ quotas' = quotas /\ completed' = completed
      BY <2>3 DEF BootstrapPlan, BootstrapFails, UpsertPlan, tables
    <3> QED BY <1>2, <1>3, <3>1, <3>2 DEF DeveloperInv
  <2>4. CASE FindClient(a)
    <3>1. Held'
      <4>1. CASE Developers # {}
        <5>1. Min(Developers) \in Developers
          <6>1. Developers \in SUBSET Nat BY DEF Developers
          <6> QED BY <4>1, <6>1, MinIsIn, Zenon
        <5> QED BY <1>0, <2>1, <2>4, <4>1, <5>1 DEF FindClient, Goto
      <4>2. CASE Developers = {} BY <2>1, <2>2, <2>4, <4>2 DEF FindClient, Goto
      <4> QED BY <4>1, <4>2
    <3>2. keys' = keys /\ quotas' = quotas /\ completed' = completed
      BY <2>4 DEF FindClient, tables
    <3> QED BY <1>2, <1>3, <3>1, <3>2 DEF DeveloperInv
  <2>5. CASE BootstrapClient(a)
    <3>1. /\ clients' = Append(clients, "dev") /\ clients \in Seq({"dev", "other"})
          /\ keys' = keys /\ quotas' = quotas /\ completed' = completed
      BY <2>5 DEF BootstrapClient, CreateClient, TablesInv
    <3>2. Len(clients) + 1 \in Developers'
      <4>1. Len(clients') = Len(clients) + 1 /\ clients'[Len(clients) + 1] = "dev"
            /\ Len(clients) \in Nat
        BY <3>1
      <4> QED BY <4>1 DEF Developers
    <3>3. Held' BY <2>1, <2>5, <3>2 DEF BootstrapClient, Goto
    <3> QED BY <1>2, <1>3, <3>1, <3>3 DEF DeveloperInv
  <2>6. CASE BootstrapKey(a)
    <3>1. /\ EnsureAPIKey(DevKey, mine[a]) /\ mine[a] \in Developers
          /\ pc' = [pc EXCEPT ![a] = "quota"] /\ mine' = mine /\ completed' = completed
      BY <1>0, <2>6 DEF BootstrapKey, Goto
    <3>2. quotas' = quotas /\ keys'[DevKey].client \in {keys[DevKey].client, mine[a]}
      BY <1>0, <3>1 DEF EnsureAPIKey, TablesInv
    <3>3. Owned' BY <1>0, <3>1, <3>2
    <3>4. Held' BY <1>0, <2>1, <2>2, <3>1
    <3> QED BY <1>3, <3>1, <3>2, <3>3, <3>4 DEF DeveloperInv
  <2>7. CASE BootstrapQuota(a)
    <3>1. /\ SetRouteQuota(mine[a], Orders, "small") /\ mine[a] \in Developers
          /\ pc' = [pc EXCEPT ![a] = "idle"] /\ mine' = mine /\ keys' = keys
      BY <1>0, <2>7 DEF BootstrapQuota, Goto, SetRouteQuota
    <3>2. Granted'
      <4> DEFINE row == [client |-> mine[a], prefix |-> Orders, policy |-> "small"]
      <4>1. row \in quotas' BY <3>1 DEF SetRouteQuota
      <4>2. row.client = mine[a] /\ row.prefix = Orders OBVIOUS
      <4> HIDE DEF row
      <4> QED BY <1>0, <3>1, <4>1, <4>2
    <3>3. Held' BY <2>1, <2>2, <3>1
    <3> QED BY <1>2, <3>1, <3>2, <3>3 DEF DeveloperInv
  <2> QED BY <1>8, <2>3, <2>4, <2>5, <2>6, <2>7 DEF Bootstrap
<1> QED BY <1>5, <1>6, <1>7, <1>8 DEF Next

-----------------------------------------------------------------------------
(* The theorems *)

\* An empty database satisfies the invariant.
LEMMA StoreInit == Init => StoreInv
<1> SUFFICES ASSUME Init PROVE StoreInv OBVIOUS
<1>1. clients = <<>> /\ Len(clients) = 0 /\ clients \in Seq({"dev", "other"}) BY DEF Init
<1>2. TablesInv
  <2>1. plan = NoPlan /\ quotas = {} /\ environ \in RawPeppers BY DEF Init
  <2>2. [client |-> NoClient, digest |-> NoDigest, revoked |-> FALSE]
           \in [client : 0..0, revoked : BOOLEAN, digest : Digests]
    BY DEF NoClient, Digests
  <2>3. keys \in [AllKeys -> [client : 0..0, revoked : BOOLEAN, digest : Digests]]
    BY <2>2 DEF Init, AllKeys
  <2>4. \A k \in AllKeys : keys[k].revoked = FALSE BY DEF Init, AllKeys
  <2> QED BY <1>1, <2>1, <2>3, <2>4, RoutesAssumption DEF TablesInv
<1>3. BootInv BY <1>1 DEF Init, BootInv, NoClient
<1>4. StoredInv BY DEF Init, StoredInv
<1>5. DeveloperInv BY DEF Init, DeveloperInv
<1> QED BY <1>2, <1>3, <1>4, <1>5 DEF StoreInv

\* Every reachable state satisfies the invariant.
THEOREM StoreInvariance == Spec => []StoreInv
<1>1. StoreInv /\ [Next]_vars => StoreInv'
  BY TablesStay, BootStays, StoredStays, DeveloperStays DEF StoreInv
<1> QED BY <1>1, StoreInit, PTL DEF Spec

\* Keys, overrides and bootstraps refer to clients that exist, whatever fails half-way.
THEOREM StoreTypeCorrect == Spec => []TypeOK
<1>1. StoreInv => TypeOK BY DEF StoreInv, TablesInv, BootInv, TypeOK, AllKeys, Digests
<1> QED BY <1>1, StoreInvariance, PTL

\* Two prefixes of a sequence that are equally long are equal.
LEMMA EqualPrefixes ==
    ASSUME NEW T, NEW s \in Seq(T), NEW u \in Seq(T), NEW v,
           IsPrefix(s, v), IsPrefix(u, v), Len(s) = Len(u)
    PROVE  s = u
<1>1. SubSeq(s, 1, Len(s)) = SubSeq(u, 1, Len(u)) BY DEF IsPrefix
<1>2. SubSeq(s, 1, Len(s)) = s /\ SubSeq(u, 1, Len(u)) = u OBVIOUS
<1> QED BY <1>1, <1>2

\* The policy of a client is one of the policies: the best override's, or the plan's.
LEMMA PolicyType ==
    ASSUME TablesInv, NEW c \in 1..Len(clients), NEW route
    PROVE  Policy(c, route) \in Policies
<1> DEFINE best == {q \in Matching(c, route) :
                       \A p \in Matching(c, route) : Len(p.prefix) <= Len(q.prefix)}
<1>1. plan \in Policies
  <2>1. Len(clients) > 0 BY Lengths
  <2> QED BY <2>1 DEF TablesInv
<1>2. ASSUME best # {} PROVE (CHOOSE q \in best : TRUE).policy \in Policies
  <2>1. (CHOOSE q \in best : TRUE) \in best BY <1>2
  <2>2. best \subseteq quotas BY DEF Matching
  <2> HIDE DEF best
  <2> QED BY <2>1, <2>2 DEF TablesInv
<1> QED BY <1>1, <1>2 DEF Policy

\* Every accepted key has one policy for every path.
THEOREM PolicyIsDefinedHolds == Spec => []PolicyIsDefined
<1>1. StoreInv => PolicyIsDefined
  <2> SUFFICES ASSUME StoreInv, NEW k \in AllKeys, NEW path \in Requested
               PROVE  /\ LookupActiveKey(k, routeKey(path)) \in Policies \cup {"invalid"}
                      /\ \A p, q \in Matching(keys[k].client, routeKey(path)) :
                            Len(p.prefix) = Len(q.prefix) => p = q
    BY DEF PolicyIsDefined, AllKeys
  <2> DEFINE route == routeKey(path)
             c == keys[k].client
  <2> HIDE DEF route
  <2>1. TablesInv BY DEF StoreInv
  <2>2. ASSUME NEW p \in Matching(c, route), NEW q \in Matching(c, route),
               Len(p.prefix) = Len(q.prefix)
        PROVE  p = q
    <3>1. /\ p \in quotas /\ q \in quotas /\ p.client = q.client
          /\ IsPrefix(p.prefix, route) /\ IsPrefix(q.prefix, route)
      BY <2>2 DEF Matching
    <3>2. p.prefix \in RoutePrefixes /\ q.prefix \in RoutePrefixes BY <2>1, <3>1 DEF TablesInv
    <3>3. \A s \in RoutePrefixes : s \in Seq({"/api", "/orders", "/users", "/unknown", "/7"})
      BY RoutesAssumption
    <3>4. p.prefix = q.prefix BY <2>2, <3>1, <3>2, <3>3, EqualPrefixes
    <3> QED BY <2>1, <3>1, <3>4 DEF TablesInv
  <2>3. ASSUME c # NoClient PROVE Policy(c, route) \in Policies
    <3>1. c \in 0..Len(clients) /\ Len(clients) \in Nat BY <2>1, Lengths DEF TablesInv
    <3>2. c \in 1..Len(clients) BY <2>3, <3>1 DEF NoClient
    <3> QED BY <2>1, <3>2, PolicyType
  <2>4. LookupActiveKey(k, route) \in Policies \cup {"invalid"} BY <2>3 DEF LookupActiveKey
  <2> QED BY <2>2, <2>4 DEF route
<1> QED BY <1>1, StoreInvariance, PTL

\* A sequence no longer than a prefix of v is a prefix of that one if and only if it is
\* a prefix of v.
LEMMA ShorterPrefixes ==
    ASSUME NEW T, NEW s \in Seq(T), NEW u \in Seq(T), NEW v \in Seq(T),
           IsPrefix(u, v), Len(s) <= Len(u)
    PROVE  IsPrefix(s, u) <=> IsPrefix(s, v)
<1>1. Len(s) \in Nat /\ Len(u) \in Nat /\ Len(v) \in Nat /\ Len(u) <= Len(v)
  BY DEF IsPrefix
<1>2. \A i \in 1..Len(u) : u[i] = v[i]
  <2> SUFFICES ASSUME NEW i \in 1..Len(u) PROVE u[i] = v[i] OBVIOUS
  <2>1. SubSeq(u, 1, Len(u))[i] = SubSeq(v, 1, Len(u))[i] BY DEF IsPrefix
  <2> QED BY <1>1, <2>1
<1>3. SubSeq(u, 1, Len(s)) = SubSeq(v, 1, Len(s)) BY <1>1, <1>2
<1> QED BY <1>1, <1>3 DEF IsPrefix

\* Where no override reaches below the route, looking up the route finds the override
\* that the path would.
THEOREM LongestRoutePrefixAppliesHolds == Spec => []LongestRoutePrefixApplies
<1>1. StoreInv => LongestRoutePrefixApplies
  <2> SUFFICES ASSUME StoreInv, NEW k \in AllKeys, NEW path \in Requested,
                      LookupActiveKey(k, routeKey(path)) # "invalid",
                      IsPrefix(routeKey(path), path),
                      \A q \in Matching(keys[k].client, path) : Len(q.prefix) <= Len(routeKey(path))
               PROVE  LookupActiveKey(k, routeKey(path)) = Policy(keys[k].client, path)
    BY DEF LongestRoutePrefixApplies, AllKeys
  <2> DEFINE Fragments == {"/api", "/orders", "/users", "/unknown", "/7"}
             route == routeKey(path)
             c == keys[k].client
  <2>1. route \in Seq(Fragments) /\ path \in Seq(Fragments)
    <3>1. Users \in Seq(Fragments) /\ Orders \in Seq(Fragments) /\ Unknown \in Seq(Fragments)
      BY DEF Users, Orders, Unknown
    <3>2. route \in {Users, Orders, Unknown} BY Zenon DEF routeKey
    <3> QED BY <3>1, <3>2, RoutesAssumption
  <2>2. \A q \in quotas : q.prefix \in Seq(Fragments)
    BY RoutesAssumption DEF StoreInv, TablesInv
  <2> HIDE DEF Fragments, route
  <2>3. IsPrefix(route, path) /\ \A q \in Matching(c, path) : Len(q.prefix) <= Len(route)
    BY DEF route
  <2>4. \A q \in Matching(c, route) : Len(q.prefix) <= Len(route) BY DEF Matching, IsPrefix
  <2>5. ASSUME NEW q \in quotas
        PROVE  q \in Matching(c, route) <=> q \in Matching(c, path)
    <3>1. CASE Len(q.prefix) <= Len(route)
      BY <2>1, <2>2, <2>3, <3>1, ShorterPrefixes DEF Matching
    <3>2. CASE ~(Len(q.prefix) <= Len(route)) BY <2>3, <2>4, <3>2
    <3> QED BY <3>1, <3>2
  <2>6. Matching(c, route) = Matching(c, path) BY <2>5 DEF Matching
  <2>7. Policy(c, route) = Policy(c, path) BY <2>6 DEF Policy
  <2>8. LookupActiveKey(k, route) = Policy(c, route) BY DEF LookupActiveKey, route
  <2> QED BY <2>7, <2>8 DEF route
<1> QED BY <1>1, StoreInvariance, PTL

\* A gateway whose API_KEY_PEPPER has no blanks around it computes the digests that
\* gateway-admin stored.
LEMMA SamePepper ==
    ASSUME NEW raw \in RawPeppers, raw.blanks = 0
    PROVE  APIKeyPepper(raw) = apiKeyPepper(raw)
<1>1. TrimSpace(raw) = raw BY PeppersAssumption DEF TrimSpace
<1> QED BY <1>1 DEF APIKeyPepper, apiKeyPepper, env, adminEnv

\* After a bootstrap the gateway accepts the development key until it is revoked.
THEOREM BootstrapGivesKeyHolds == Spec => []BootstrapGivesKey
<1>1. StoreInv => BootstrapGivesKey
  <2> SUFFICES ASSUME StoreInv, completed # {}, environ.blanks = 0, ~keys[DevKey].revoked,
                      NEW path \in Requested
               PROVE  LookupActiveKey(DevKey, routeKey(path)) # "invalid"
    BY DEF BootstrapGivesKey
  <2>1. TablesInv /\ keys[DevKey].client # NoClient /\ keys[DevKey].digest = digest
    BY DEF StoreInv, StoredInv
  <2>2. APIKeyPepper(environ) = digest BY <2>1, SamePepper DEF digest, TablesInv
  <2>3. keys[DevKey].client \in 1..Len(clients)
    <3>1. keys[DevKey].client \in 0..Len(clients) /\ Len(clients) \in Nat
      BY <2>1, Lengths DEF TablesInv, AllKeys
    <3> QED BY <2>1, <3>1 DEF NoClient
  <2>4. Policy(keys[DevKey].client, routeKey(path)) \in Policies BY <2>1, <2>3, PolicyType
  <2>5. "invalid" \notin Policies BY DEF Policies
  <2> QED BY <2>1, <2>2, <2>4, <2>5 DEF LookupActiveKey
<1> QED BY <1>1, StoreInvariance, PTL

\* Once a bootstrap has completed, the client of the development key has its override,
\* unless two bootstraps have created a client each.
THEOREM BootstrapGivesQuotaHolds == Spec => []BootstrapGivesQuota
<1>1. StoreInv => BootstrapGivesQuota
  <2> SUFFICES ASSUME StoreInv, completed # {}, Cardinality(Developers) = 1
               PROVE  \E q \in quotas : q.client = keys[DevKey].client /\ q.prefix = Orders
    BY DEF BootstrapGivesQuota
  <2>1. keys[DevKey].client \in Developers BY DEF StoreInv, StoredInv, DeveloperInv
  <2>2. PICK q \in quotas : q.client \in Developers /\ q.prefix = Orders
    BY DEF StoreInv, DeveloperInv
  <2>3. IsFiniteSet(Developers)
    <3>1. Len(clients) \in Nat BY Lengths DEF StoreInv
    <3>2. IsFiniteSet(1..Len(clients)) BY <3>1, FS_Interval
    <3> QED BY <3>2, FS_Subset DEF Developers
  <2>4. \E x : Developers = {x} BY <2>3, FS_Singleton
  <2> QED BY <2>1, <2>2, <2>4
<1> QED BY <1>1, StoreInvariance, PTL

\* Only a bootstrap brings a revoked key back, and only the development key.
THEOREM RevocationLastsHolds == Spec => RevocationLasts
<1> DEFINE Lasts == \A k \in Keys \cup {DevKey} :
                       keys[k].revoked /\ ~keys'[k].revoked =>
                          k = DevKey /\ \E a \in Admins : BootstrapKey(a)
<1>1. StoreInv /\ [Next]_vars => [Lasts]_vars
  <2> SUFFICES ASSUME StoreInv, Next, NEW k \in AllKeys, keys[k].revoked, ~keys'[k].revoked
               PROVE  k = DevKey /\ \E a \in Admins : BootstrapKey(a)
    BY DEF AllKeys
  <2>1. keys' # keys OBVIOUS
  <2>2. TablesInv /\ keys[k].revoked = TRUE /\ keys'[k].revoked # TRUE BY Zenon DEF StoreInv, TablesInv
  <2>3. ~Rotate BY <2>1 DEF Rotate, tables
  <2>4. ~Command
    <3> SUFFICES ASSUME Command PROVE FALSE OBVIOUS
    <3>1. createKey \/ revokeKey
      BY <2>1 DEF Command, createPlan, createClient, setRouteQuota, UpsertPlan, CreateClient,
                  SetRouteQuota
    <3>2. CASE createKey
      <4>1. PICK j \in AllKeys, client \in 1..Len(clients) : CreateAPIKey(j, client)
        BY <3>2 DEF createKey, AllKeys
      <4>2. keys[j].client = NoClient /\ j # k BY <2>2, <4>1 DEF CreateAPIKey, TablesInv
      <4> QED BY <2>2, <4>1, <4>2 DEF CreateAPIKey, TablesInv
    <3>3. CASE revokeKey BY <2>2, <3>3 DEF revokeKey, RevokeKey, TablesInv, AllKeys
    <3> QED BY <3>1, <3>2, <3>3
  <2>5. PICK a \in Admins : Bootstrap(a) BY <2>3, <2>4 DEF Next
  <2>6. BootstrapKey(a)
    BY <2>1, <2>5 DEF Bootstrap, BootstrapPlan, FindClient, BootstrapClient, BootstrapQuota,
                      BootstrapFails, UpsertPlan, CreateClient, SetRouteQuota, tables
  <2>7. k = DevKey BY <2>2, <2>6 DEF BootstrapKey, EnsureAPIKey, TablesInv, AllKeys
  <2> QED BY <2>6, <2>7
<1> QED BY <1>1, StoreInvariance, PTL DEF Spec, RevocationLasts
=============================================================================
