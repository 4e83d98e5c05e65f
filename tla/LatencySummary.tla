--------------------------- MODULE LatencySummary ---------------------------
(***************************************************************************)
(* The latency statistics that NewResult of internal/benchmark adds to a   *)
(* finished run of LoadGenerator: SummarizeLatency and percentile, as      *)
(* operators on a sequence of latencies in microseconds.  LoadGenerator    *)
(* keeps no latencies, so a run ends with any of the lists of Inputs.      *)
(*                                                                         *)
(* A quantile is given in percent.  The doubles nearest to 0.95 and 0.99   *)
(* lie below them and 0.50 is exact, so the float64 product never rounds   *)
(* above a whole number that the exact one reaches, and its ceiling is the *)
(* exact one.  Microseconds are kept: their conversion to milliseconds     *)
(* preserves order.                                                        *)
(***************************************************************************)
EXTENDS LoadGenerator, FiniteSetsExt, Sequences

CONSTANTS
    Latencies,      \* the values of which all short lists of samples are made
    ShortLists,     \* the greatest length of these
    LongLists       \* the greatest length of the lists of distinct values

ASSUME LatencyAssumption ==
    Latencies \subseteq Nat /\ ShortLists \in Nat /\ LongLists \in Nat

\* sort.Slice: the sample at position k has k samples up to itself.  It may order
\* equal samples either way, which gives the same list.
UpTo(values, i) ==
    {j \in DOMAIN values : values[j] < values[i] \/ (values[j] = values[i] /\ j <= i)}
Sorted(values) ==
    [k \in DOMAIN values |-> values[CHOOSE i \in DOMAIN values : Cardinality(UpTo(values, i)) = k]]

\* math.Ceil of percent / 100 * n
Ceil(percent, n) == (percent * n + 99) \div 100

percentile_Bug(sorted, percent) ==
    IF sorted = << >> THEN 0
    ELSE LET index == (percent * Len(sorted)) \div 100
         IN  sorted[Min({Max({index, 0}), Len(sorted) - 1}) + 1]

\* index counts from 0, as in the code.
percentile(sorted, percent) ==
    IF sorted = << >> THEN 0
    ELSE LET index == Ceil(percent, Len(sorted)) - 1
         IN  sorted[Min({Max({index, 0}), Len(sorted) - 1}) + 1]

SummarizeLatency(values) ==
    IF values = << >>
    THEN [Minimum |-> 0, P50 |-> 0, P95 |-> 0, P99 |-> 0, Maximum |-> 0]
    ELSE LET sorted == Sorted(values)
         IN  [Minimum |-> sorted[1], P50 |-> percentile(sorted, 50),
              P95 |-> percentile(sorted, 95), P99 |-> percentile(sorted, 99),
              Maximum |-> sorted[Len(sorted)]]

-----------------------------------------------------------------------------
(* Properties *)

\* The least sample that at least percent of the samples do not exceed.
NearestRank(values, percent) ==
    Min({v \in Range(values) :
            100 * Cardinality({i \in DOMAIN values : values[i] <= v}) >= percent * Len(values)})

Inputs ==
    (UNION {[1..n -> Latencies] : n \in 1..ShortLists})
        \cup {[i \in 1..n |-> n + 1 - i] : n \in 1..LongLists}

Exact(values) ==
    LET summary == SummarizeLatency(values)
    IN  /\ summary.P50 = NearestRank(values, 50)
        /\ summary.P95 = NearestRank(values, 95)
        /\ summary.P99 = NearestRank(values, 99)
        /\ \A v \in Range(values) : summary.Minimum <= v /\ v <= summary.Maximum

AllExact == \A values \in Inputs : Exact(values)

\* The percentiles that SummarizeLatency adds to a finished run are the nearest-rank
\* ones the report says it uses, for lists of every length around the points where
\* a rank moves to the next sample, with and without ties.
PercentilesAreNearestRank == phase = "done" => AllExact
=============================================================================
