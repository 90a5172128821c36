------------------------------- MODULE Metrics ------------------------------
(***************************************************************************)
(* The statistics MetricsCollector computes at the end of a test from its  *)
(* counters and its latency samples.  Samples are sorted and summed, so    *)
(* only how often each latency occurs matters: they are a function from    *)
(* latencies to counts.                                                    *)
(***************************************************************************)
EXTENDS Integers, FiniteSetsExt

(* What a function to numbers counts, one by one. *)
Each(f) == UNION {{x} \X (1 .. f[x]) : x \in DOMAIN f}

Size(samples) == Cardinality(Each(samples))

Occurring(samples) == {v \in DOMAIN samples : samples[v] > 0}

(* The samples of at most v. *)
UpTo(samples, v) == Cardinality({s \in Each(samples) : s[1] <= v})

(* sorted[i] of the sorted vector, counted from 0. *)
Sorted(samples, i) ==
  Min({v \in DOMAIN samples : i < UpTo(samples, v)})

(* Seeded fault: the vector is taken to be sorted downwards.               *)
IndexFromTop(p, n) == ((100 - p) * (n - 1)) \div 100

(* The index of the p-th percentile: the cast to size_t cuts the fraction. *)
PercentileIndex(p, n) == (p * (n - 1)) \div 100

Percentile(samples, p) ==
  Sorted(samples, PercentileIndex(p, Size(samples)))

(* Seeded fault: a latency is summed once, however often it occurs.        *)
SumOnce(samples) ==
  Cardinality(UNION {{v} \X (1 .. v) : v \in Occurring(samples)})

(* The sum of the samples, counted unit by unit; the mean is this over     *)
(* their number.                                                           *)
Sum(samples) ==
  Cardinality(UNION {{s} \X (1 .. s[1]) : s \in Each(samples)})

(* Stats: all zero where there is no sample.  Throughput, the count over   *)
(* the elapsed time, is left out.                                          *)
Compute(successes, errors, samples) ==
  IF Size(samples) = 0
  THEN [count |-> successes, errors |-> errors, sum |-> 0,
        min |-> 0, p50 |-> 0, p90 |-> 0, p99 |-> 0, max |-> 0]
  ELSE [count |-> successes, errors |-> errors, sum |-> Sum(samples),
        min |-> Min(Occurring(samples)),
        p50 |-> Percentile(samples, 50),
        p90 |-> Percentile(samples, 90),
        p99 |-> Percentile(samples, 99),
        max |-> Max(Occurring(samples))]

=============================================================================
