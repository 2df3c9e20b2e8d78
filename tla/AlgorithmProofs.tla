-------------------------- MODULE AlgorithmProofs --------------------------
(***************************************************************************)
(* Two algorithms on data, for every input: the IPv4 header checksum of     *)
(* PacketParser, for headers of every length and content, and the bucket    *)
(* arithmetic of LatencyHistogram, for every latency.                       *)
(***************************************************************************)
EXTENDS PacketParser, LatencyBuckets, TLAPS

\* What is folded away is a multiple of 65535, and a sum that is not zero
\* never becomes zero.
FoldInv ==
  /\ frame \in Frames /\ pc \in {"sum", "fold", "done"}
  /\ i \in Nat /\ sum \in Nat /\ total \in Nat
  /\ sum > 0 <=> total > 0
  /\ \E q \in Nat : total = sum + 65535 * q
  /\ pc = "done" => sum < 65536

\* One turn of the folding loop (packet_parser.h:65) takes 65535 away as
\* often as there were carries, and leaves something.
LEMMA CarryIsModular ==
  ASSUME NEW s \in Nat, s >= 65536
  PROVE  /\ AddCarry(s) \in Nat /\ AddCarry(s) > 0
         /\ s \div 65536 \in Nat
         /\ s = AddCarry(s) + 65535 * (s \div 65536)
  BY SMT DEF AddCarry

\* The words the loop reads (packet_parser.h:64) are in the buffer.
LEMMA WordIsRead ==
  ASSUME frame \in Frames, i \in Nat, ~Enough
  PROVE  frame.words[i + 1] \in Nat
<1>1. frame.words \in Seq(Nat) /\ Len(frame.words) >= 30
  BY ParserAssumption
<1>2. frame.words[1] \in Nat
  BY <1>1
<1>3. header_len(frame) <= 60
  BY <1>2, SMT DEF header_len
<1>4. i + 1 \in 1..Len(frame.words)
  <2>1. header_len(frame) \in Int
    BY <1>2, SMT DEF header_len
  <2>. QED BY <1>1, <1>3, <2>1, SMT DEF Enough
<1>. QED BY <1>1, <1>4

LEMMA FoldInvInit == Init => FoldInv
<1>. SUFFICES ASSUME Init PROVE FoldInv
  OBVIOUS
<1>1. \E q \in Nat : total = sum + 65535 * q
  <2>1. total = sum + 65535 * 0
    BY SMT DEF Init
  <2>. QED BY <2>1
<1>. QED BY <1>1 DEF Init, FoldInv

LEMMA FoldInvStep == FoldInv /\ [Next]_vars => FoldInv'
<1>. SUFFICES ASSUME FoldInv, [Next]_vars PROVE FoldInv'
  OBVIOUS
<1>. PICK q \in Nat : total = sum + 65535 * q
  BY DEF FoldInv
<1>1. CASE Add
  <2>1. frame.words[i + 1] \in Nat
    BY <1>1, WordIsRead DEF FoldInv, Add
  <2>2. total' = sum' + 65535 * q /\ sum' \in Nat /\ total' \in Nat
    BY <1>1, <2>1, SMT DEF FoldInv, Add
  <2>3. sum' > 0 <=> total' > 0
    BY <1>1, <2>1, SMT DEF FoldInv, Add
  <2>. QED BY <1>1, <2>2, <2>3 DEF FoldInv, Add
<1>2. CASE Added
  BY <1>2 DEF FoldInv, Added
<1>3. CASE Fold /\ sum >= 65536
  <2>. DEFINE c == sum \div 65536
  <2>1. sum' = AddCarry(sum) /\ UNCHANGED <<frame, i, total, pc>>
    BY <1>3, SMT DEF Fold
  <2>2. sum' \in Nat /\ sum' > 0 /\ c \in Nat /\ sum = sum' + 65535 * c
    BY <1>3, <2>1, CarryIsModular DEF FoldInv
  <2>3. q + c \in Nat /\ total' = sum' + 65535 * (q + c)
    BY <2>1, <2>2, SMT
  <2>4. total' > 0
    BY <1>3, <2>1, SMT DEF FoldInv
  <2>5. pc' # "done"
    BY <1>3, <2>1 DEF Fold
  <2>. QED BY <2>1, <2>2, <2>3, <2>4, <2>5 DEF FoldInv
<1>4. CASE Fold /\ ~(sum >= 65536)
  <2>1. sum < 65536 /\ sum' = sum /\ pc' = "done" /\ UNCHANGED <<frame, i, total>>
    BY <1>4, SMT DEF Fold, FoldInv
  <2>. QED BY <2>1 DEF FoldInv
<1>5. CASE UNCHANGED vars
  BY <1>5 DEF FoldInv, vars
<1>. QED BY <1>1, <1>2, <1>3, <1>4, <1>5 DEF Next, Returned

\* Whatever the length of the header and the words in it, checksum_valid
\* (packet_parser.h:61-67) is the one's-complement test.
THEOREM ChecksumIsOnesComplement == Spec => []OnesComplementSum
<1>1. FoldInv => OnesComplementSum
  <2>. SUFFICES ASSUME FoldInv, pc = "done"
                PROVE  checksum_valid <=> total > 0 /\ total % 65535 = 0
    BY DEF OnesComplementSum
  <2>. PICK q \in Nat : total = sum + 65535 * q
    BY DEF FoldInv
  <2>1. sum \in Nat /\ sum < 65536 /\ (sum > 0 <=> total > 0)
    BY DEF FoldInv
  <2>2. (total % 65535) = (sum % 65535)
    BY <2>1, SMT
  <2>3. (sum % 65535) = 0 <=> sum = 0 \/ sum = 65535
    BY <2>1, SMT
  <2>. QED BY <2>1, <2>2, <2>3, SMT DEF checksum_valid
<1>. QED BY <1>1, FoldInvInit, FoldInvStep, PTL DEF Spec
-----------------------------------------------------------------------------
USE DEF kR0, kR1, kR2, kR3, kOverflow, kNumBuckets

(* ns_to_bucket yields an index of buckets_ for every value, however large. *)
THEOREM EveryValueHasABucket ==
  ASSUME NEW ns \in Nat
  PROVE  ns_to_bucket(ns) \in Nat /\ ns_to_bucket(ns) < kNumBuckets
  BY SMT DEF ns_to_bucket

(* The bucket of a value is the one whose range contains it.                *)
THEOREM EveryValueInItsBucket ==
  ASSUME NEW ns \in Nat
  PROVE  InBucket(ns, ns_to_bucket(ns))
  BY SMT DEF ns_to_bucket, InBucket, bucket_lo_ns, bucket_step_ns

(* No other bucket's range contains it: the ranges do not overlap.          *)
THEOREM BucketIsUnique ==
  ASSUME NEW ns \in Nat, NEW b \in Nat, b < kNumBuckets, InBucket(ns, b)
  PROVE  b = ns_to_bucket(ns)
  BY SMT DEF ns_to_bucket, InBucket, bucket_lo_ns, bucket_step_ns

(* A larger value never has a smaller bucket, so that the buckets are       *)
(* sorted as the samples are, which percentile_ns relies on.                *)
THEOREM BucketsAreSorted ==
  ASSUME NEW m \in Nat, NEW n \in Nat, m <= n
  PROVE  ns_to_bucket(m) <= ns_to_bucket(n)
  BY SMT DEF ns_to_bucket

(* percentile_ns reports the middle of a bucket: below 1 ms that is within  *)
(* half a step of every value in it.                                        *)
THEOREM MiddleIsNear ==
  ASSUME NEW ns \in Nat, ns < 1000000
  PROVE  LET b == ns_to_bucket(ns)
             half == bucket_step_ns(b) \div 2
             middle == bucket_lo_ns(b) + half
         IN  middle - half <= ns /\ ns <= middle + half
  BY SMT DEF ns_to_bucket, bucket_lo_ns, bucket_step_ns

(* print puts a whole bucket into the row of its lower bound; no value in   *)
(* the bucket belongs to another row.                                       *)
THEOREM RowsSplitNoBucket ==
  ASSUME NEW ns \in Nat, NEW r \in 1..Len(edges)
  PROVE  bucket_lo_ns(ns_to_bucket(ns)) < edges[r] <=> ns < edges[r]
  BY SMT DEF ns_to_bucket, bucket_lo_ns, edges
============================================================================
