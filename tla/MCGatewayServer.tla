-------------------------- MODULE MCGatewayServer --------------------------
(***************************************************************************)
(* GatewayServer for TLC: three API requests and a readiness probe, and for  *)
(* every variable a value on each side of each check.                      *)
(***************************************************************************)
EXTENDS GatewayServer

CONSTANTS r1, r2, r3, p1

AllRequests == {r1, r2, r3, p1}
OneProbe == {p1}

RawPeppers == {Text("none", 0), Text("none", 20), Text("short", 0), Text("short", 10),
               Text("secret", 0), Text("secret", 1)}
RawNumbers ==
    [RedisDB : {Malformed, 1},
            QueueCapacity : {Unset, 0, 50},
            BatchSize : {Unset, 0, 50, 51},
            MaxAttempts : {Unset, 0, 40},
            FlushInterval : {1000, 0},
            RetryBaseDelay : {Unset, -1, 1, 14999, 40000},
            UsageShutdownTimeout : {Unset, Malformed, 0}]
SomeEnvironments ==
    [pepper : RawPeppers, numbers : RawNumbers,
     absolute : {{"USER_SERVICE_URL", "ORDER_SERVICE_URL"}, {"USER_SERVICE_URL"}}]
=============================================================================
