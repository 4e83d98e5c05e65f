-------------------------- MODULE MCLoadGenerator --------------------------
(* LoadGenerator with one millisecond a second and two units of its clock in *)
(* it, and the statistics it writes.                                         *)
EXTENDS LatencySummary

NoOther == {}

ThreeLatencies == 1..3
=============================================================================
