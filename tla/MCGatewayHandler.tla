-------------------------- MODULE MCGatewayHandler --------------------------
(***************************************************************************)
(* GatewayHandler for TLC: two concurrent requests, one key.               *)
(***************************************************************************)
EXTENDS GatewayHandler, TLC

CONSTANTS r1, r2, k1

TwoRequests == {r1, r2}
OneRequest == {r1}
OneKey == {k1}
SomePaths == {"/api/users/7", "/api/orders", "/api/other"}
OnePath == {"/api/users"}
TwoStatuses == {200, 404}

Symmetry == Permutations({r1, r2})
=============================================================================
