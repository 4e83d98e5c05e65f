---------------------------- MODULE UsageLedger ----------------------------
(***************************************************************************)
(* What the usage pipeline promises to whoever reads its counters: an      *)
(* event is refused at the door or admitted, an admitted event stays       *)
(* pending until it is settled once, as kept (persisted or dead-lettered)  *)
(* or as dropped, and nothing is admitted after the door has closed.       *)
(* docs/usage-logging.md tells the same story; UsagePipeline implements it.*)
(***************************************************************************)
EXTENDS Integers

CONSTANTS Limit,      \* most events that may be pending at a time
          BatchSize   \* most events settled together while the door is open

VARIABLES open, pending, kept, dropped

vars == <<open, pending, kept, dropped>>

Init == open = TRUE /\ pending = 0 /\ kept = 0 /\ dropped = 0

Admit ==
    /\ open /\ pending < Limit
    /\ pending' = pending + 1
    /\ UNCHANGED <<open, kept, dropped>>

Refuse ==
    /\ dropped' = dropped + 1
    /\ UNCHANGED <<open, pending, kept>>

\* A batch is settled as a whole.
Settle ==
    \E n \in 1..BatchSize :
        /\ n <= pending
        /\ pending' = pending - n
        /\ \/ kept' = kept + n /\ UNCHANGED dropped
           \/ dropped' = dropped + n /\ UNCHANGED kept
        /\ UNCHANGED open

\* A shutdown that runs out of time drops everything still pending.
Abandon ==
    /\ ~open
    /\ pending' = 0
    /\ dropped' = dropped + pending
    /\ UNCHANGED <<open, kept>>

Shut ==
    /\ open' = FALSE
    /\ UNCHANGED <<pending, kept, dropped>>

Next == Admit \/ Refuse \/ Settle \/ Abandon \/ Shut

Spec == Init /\ [][Next]_vars
=============================================================================
