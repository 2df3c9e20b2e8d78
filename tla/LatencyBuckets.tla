--------------------------- MODULE LatencyBuckets ---------------------------
(***************************************************************************)
(* The bucket arithmetic of LatencyHistogram (src/perf_counters.cpp): four  *)
(* ranges of 1, 10, 100 and 1000 ns and an overflow bucket.                 *)
(***************************************************************************)
EXTENDS Integers

kR0 == 1000
kR1 == 1900
kR2 == 2800
kR3 == 3700
kOverflow == 3700
kNumBuckets == 3701

ns_to_bucket(ns) ==
  IF ns < 1000 THEN ns
  ELSE IF ns < 10000 THEN kR0 + (ns - 1000) \div 10
  ELSE IF ns < 100000 THEN kR1 + (ns - 10000) \div 100
  ELSE IF ns < 1000000 THEN kR2 + (ns - 100000) \div 1000
  ELSE kOverflow

bucket_lo_ns(i) ==
  IF i < kR0 THEN i
  ELSE IF i < kR1 THEN 1000 + (i - kR0) * 10
  ELSE IF i < kR2 THEN 10000 + (i - kR1) * 100
  ELSE IF i < kR3 THEN 100000 + (i - kR2) * 1000
  ELSE 1000000

bucket_step_ns(i) ==
  IF i < kR0 THEN 1
  ELSE IF i < kR1 THEN 10
  ELSE IF i < kR2 THEN 100
  ELSE IF i < kR3 THEN 1000
  ELSE 0

(* The edges of the rows that print() shows; the last row is open.          *)
edges == <<100, 250, 500, 1000, 2500, 5000, 10000, 25000, 50000, 100000,
           250000, 500000, 1000000>>

(* What a bucket stands for: the values from its lower bound, over its      *)
(* step; the overflow bucket has no upper bound.                            *)
InBucket(ns, i) ==
  /\ bucket_lo_ns(i) <= ns
  /\ i # kOverflow => ns < bucket_lo_ns(i) + bucket_step_ns(i)

=============================================================================
