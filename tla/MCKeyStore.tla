----------------------------- MODULE MCKeyStore -----------------------------
(***************************************************************************)
(* KeyStore for TLC.                                                       *)
(***************************************************************************)
EXTENDS KeyStore, TLC

CONSTANTS a1, a2, k1

OneAdmin == {a1}
TwoAdmins == {a1, a2}
OneKey == {k1}
OnePepper == {Text("secret", 0)}
SomePeppers == {Text("short", 0), Text("secret", 0), Text("secret", 1)}
TwoPrefixes == {<<"/api">>, <<"/api", "/orders">>}
SomePrefixes == {<<"/api">>, <<"/api", "/orders">>, <<"/api", "/orders", "/7">>}
SomePaths == {<<"/api", "/users", "/7">>, <<"/api", "/orders", "/7">>, <<"/api">>}

Symmetry == Permutations(TwoAdmins)
=============================================================================
