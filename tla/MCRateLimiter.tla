--------------------------- MODULE MCRateLimiter ---------------------------
(* RateLimiter at a scale of 6 microtokens a token and 3 milliseconds a second. *)
EXTENDS RateLimiter

\* A larger quota that refills slowly and a smaller one that refills fast.
Earlier == {[rate |-> 1, burst |-> 3], [rate |-> 3, burst |-> 1]}
=============================================================================
