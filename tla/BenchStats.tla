----------------------------- MODULE BenchStats -----------------------------
(***************************************************************************)
(* The percentiles the benchmark writes to tail_latency.json.  A double    *)
(* times a size, truncated, is the exact quotient: for the four fractions  *)
(* in use the two have been compared up to three million samples.          *)
(***************************************************************************)
EXTENDS Integers, Sequences, FiniteSets

Permille == {500, 900, 990, 999}

\* The product, cut to an integer.
Truncated(n, p) == (n * p) \div 1000

\* The index, from 0, into n sorted samples.
AtLeast0(i) == IF i < 0 THEN 0 ELSE i
AtMost(i, m) == IF i > m THEN m ELSE i

BugOneBased(n, p) == AtLeast0(AtMost(Truncated(n, p) - 1, n - 1))
Index(n, p) == AtLeast0(AtMost(Truncated(n, p), n - 1))

\* What makes x a p-quantile of the samples.
NoLarger(samples, x) == {i \in 1..Len(samples) : samples[i] <= x}
NoSmaller(samples, x) == {i \in 1..Len(samples) : samples[i] >= x}
Below(samples, x) == {i \in 1..Len(samples) : samples[i] < x}

\* std::sort, by rank: at each place the sample that has fewer below it.
Sorted(samples) ==
    [k \in 1..Len(samples) |->
        CHOOSE x \in {samples[i] : i \in 1..Len(samples)} :
            Cardinality(Below(samples, x)) < k /\ k <= Cardinality(NoLarger(samples, x))]
Percentile(samples, p) == Sorted(samples)[Index(Len(samples), p) + 1]

QuantileOf(samples, p, x) ==
    /\ 1000 * Cardinality(NoLarger(samples, x)) >= p * Len(samples)
    /\ 1000 * Cardinality(NoSmaller(samples, x)) >= (1000 - p) * Len(samples)
=============================================================================
