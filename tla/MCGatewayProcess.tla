-------------------------- MODULE MCGatewayProcess --------------------------
(* GatewayProcess with two requests. *)
EXTENDS GatewayProcess

CONSTANTS r1, r2

TwoRequests == {r1, r2}
=============================================================================
