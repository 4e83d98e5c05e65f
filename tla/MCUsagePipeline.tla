-------------------------- MODULE MCUsagePipeline --------------------------
(***************************************************************************)
(* Small instances of UsagePipeline: valid events e1, e2, e3 and bad, an   *)
(* event that Validate rejects.                                            *)
(***************************************************************************)
EXTENDS UsagePipeline, TLC

CONSTANTS e1, e2, e3, bad, c1, c2

ThreeEvents == {e1, e2, e3}
FourEvents == ThreeEvents \cup {bad}
TwoEvents == {e1, e2}
OneCloser == {c1}
TwoClosers == {c1, c2}

\* Valid events are interchangeable, and so are the callers of Close.
Symmetry == Permutations(ThreeEvents) \cup Permutations(TwoClosers)
=============================================================================
