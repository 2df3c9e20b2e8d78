-------------------------- MODULE LatencyHistogram --------------------------
(***************************************************************************)
(* LatencyHistogram (src/perf_counters.cpp): samples are recorded as pairs  *)
(* of TSC values, and print() shows percentiles and rows.                   *)
(***************************************************************************)
EXTENDS LatencyBuckets, Sequences, FiniteSets, FiniteSetsExt, Bags, BagsExt

CONSTANTS
  Cycles,       \* the differences end_tsc - start_tsc that occur
  GhzNum,
  GhzDen,       \* tsc_frequency_ghz() = GhzNum / GhzDen
  MaxSamples    \* bound: calls of record

ASSUME HistogramAssumption ==
  /\ Cycles \subseteq Int /\ MaxSamples \in Nat
  /\ GhzNum \in Nat \ {0} /\ GhzDen \in Nat \ {0}

VARIABLES
  buckets_,     \* the buckets that are not zero, as a bag
  count_, sum_ns_, max_ns_,
  samples       \* history: the bag of recorded values

vars == <<buckets_, count_, sum_ns_, max_ns_, samples>>

Init ==
  /\ buckets_ = EmptyBag /\ samples = EmptyBag
  /\ count_ = 0 /\ sum_ns_ = 0 /\ max_ns_ = 0

(* static_cast<uint64_t>(cycles_to_ns(cycles)) *)
cycles_to_ns(cycles) == (cycles * GhzDen) \div GhzNum

(* if (ns > max_ns_) max_ns_ = ns *)
NewMax(ns) == IF ns > max_ns_ THEN ns ELSE max_ns_

record(cycles) ==
  /\ count_ < MaxSamples
  /\ cycles > 0
  /\ LET ns == cycles_to_ns(cycles) IN
     /\ buckets_' = BagAdd(buckets_, ns_to_bucket(ns))
     /\ samples' = BagAdd(samples, ns)
     /\ count_' = count_ + 1
     /\ sum_ns_' = sum_ns_ + ns
     /\ max_ns_' = NewMax(ns)

(* end_tsc <= start_tsc: the sample is not used. *)
RecordIgnored(cycles) == cycles <= 0 /\ UNCHANGED vars

Next == \E cycles \in Cycles : record(cycles) \/ RecordIgnored(cycles)

Spec == Init /\ [][Next]_vars
-----------------------------------------------------------------------------
(* The samples in the buckets up to i. *)
Cumulative(i) == MapThenSumSet(LAMBDA b : buckets_[b], {b \in DOMAIN buckets_ : b <= i})

(* static_cast<uint64_t>(p * count_), for p = num / den. *)
Target(num, den) == (num * count_) \div den

PercentileTooFar(num, den) ==
  LET reached == {i \in DOMAIN buckets_ : Cumulative(i) > Target(num, den) + 1}
  IN  IF reached = {} THEN max_ns_
      ELSE bucket_lo_ns(Min(reached)) + bucket_step_ns(Min(reached)) \div 2

(* The middle of the first bucket with which target + 1 samples are reached.*)
percentile_ns(num, den) ==
  LET reached == {i \in DOMAIN buckets_ : Cumulative(i) >= Target(num, den) + 1}
  IN  IF reached = {} THEN max_ns_
      ELSE bucket_lo_ns(Min(reached)) + bucket_step_ns(Min(reached)) \div 2

(* The row of a value: the first edge above it. *)
RowOf(ns) == Min({r \in DOMAIN edges : ns < edges[r]} \cup {Len(edges) + 1})

(* print: each bucket is counted in the row of its lower bound. *)
rows(r) == MapThenSumSet(LAMBDA b : buckets_[b], {b \in DOMAIN buckets_ : RowOf(bucket_lo_ns(b)) = r})

Percentiles == <<<<50, 100>>, <<90, 100>>, <<99, 100>>, <<999, 1000>>, <<9999, 10000>>>>
-----------------------------------------------------------------------------
(* How many samples there are of the values in a set. *)
Samples(S) == MapThenSumSet(LAMBDA ns : samples[ns], DOMAIN samples \cap S)

(* record never writes outside the vector of kNumBuckets buckets. *)
TypeOK ==
  /\ \A i \in DOMAIN buckets_ : i \in Nat /\ i < kNumBuckets
  /\ count_ \in 0..MaxSamples /\ sum_ns_ \in Nat /\ max_ns_ \in Nat

(* Every bucket counts exactly the samples in its range, at the boundaries  *)
(* of the ranges and in the overflow bucket too, and the totals that print  *)
(* shows are those of the samples.                                          *)
BucketsCountSamples ==
  /\ \A i \in DOMAIN buckets_ :
       buckets_[i] = Samples({ns \in DOMAIN samples : InBucket(ns, i)})
  /\ BagCardinality(buckets_) = count_ /\ BagCardinality(samples) = count_
  /\ sum_ns_ = MapThenSumSet(LAMBDA ns : ns * samples[ns], DOMAIN samples)
  /\ max_ns_ = Max({0} \cup DOMAIN samples)

(* The smallest sample with more than num / den of all at or below it. *)
Ranked(num, den) ==
  Min({ns \in DOMAIN samples : Samples({m \in DOMAIN samples : m <= ns}) * den > num * count_})

(* A percentile is within half a bucket of the sample of its rank in sorted *)
(* order; beyond 1 ms it stays at the bound of the overflow bucket.  Higher *)
(* percentiles are never smaller.                                           *)
PercentilesNearRank ==
  count_ > 0 => \A k \in DOMAIN Percentiles :
    LET p == Percentiles[k]
        shown == percentile_ns(p[1], p[2])
        exact == Ranked(p[1], p[2])
        half == bucket_step_ns(ns_to_bucket(exact)) \div 2
    IN  /\ exact < 1000000 => shown - exact \in (-half)..half
        /\ exact >= 1000000 => shown = 1000000
        /\ k > 1 => percentile_ns(Percentiles[k - 1][1], Percentiles[k - 1][2]) <= shown

(* print classifies whole buckets by their lower bound, and no row is wrong *)
(* for it: each shows the number of samples between its edges.              *)
RowsCountSamples ==
  \A r \in 1..(Len(edges) + 1) :
    rows(r) = Samples({ns \in DOMAIN samples : RowOf(ns) = r})

=============================================================================
