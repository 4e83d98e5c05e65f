---------------------------- MODULE RequestLife ----------------------------
(***************************************************************************)
(* What the handler chain promises to the process around it: an accepted   *)
(* request is handled, and before its handler returns it offers at most    *)
(* one usage event, none after.  GatewayHandler implements this, and       *)
(* GatewayProcess relies on no more.                                       *)
(***************************************************************************)
CONSTANT Requests

VARIABLES
    conn,       \* per request: "new", "handling", "usage" or "done"
    offered     \* requests whose usage event has been offered to the pipeline

vars == <<conn, offered>>

Init == conn = [r \in Requests |-> "new"] /\ offered = {}

Accept(r) ==
    /\ conn[r] = "new"
    /\ conn' = [conn EXCEPT ![r] = "handling"]
    /\ UNCHANGED offered

\* The response is counted; only an authenticated request has an event to offer.
Respond(r) ==
    /\ conn[r] = "handling"
    /\ \E next \in {"usage", "done"} : conn' = [conn EXCEPT ![r] = next]
    /\ UNCHANGED offered

Offer(r) ==
    /\ conn[r] = "usage"
    /\ conn' = [conn EXCEPT ![r] = "done"]
    /\ offered' = offered \cup {r}

\* No event ID could be drawn.
Skip(r) ==
    /\ conn[r] = "usage"
    /\ conn' = [conn EXCEPT ![r] = "done"]
    /\ UNCHANGED offered

Next == \E r \in Requests : Accept(r) \/ Respond(r) \/ Offer(r) \/ Skip(r)

Spec == Init /\ [][Next]_vars
=============================================================================
