----------------------------- MODULE ProofBasics -----------------------------
(* What the proofs share: unsigned arithmetic modulo a positive number, for *)
(* the fixed-width counters of the code (generations, ring indices,         *)
(* sequence numbers), and what cutting and joining does to a queue.         *)
EXTENDS Integers, Sequences, TLAPS

(* Division with remainder by a positive number. *)
LEMMA ModDef ==
  ASSUME NEW G \in Nat \ {0}, NEW x \in Int
  PROVE  /\ x % G \in 0..(G - 1)
         /\ x \div G \in Int
         /\ x = G * (x \div G) + (x % G)
  OBVIOUS

(* A number in range is its own remainder. *)
LEMMA ModSmall ==
  ASSUME NEW G \in Nat \ {0}, NEW x \in 0..(G - 1)
  PROVE  x % G = x
  OBVIOUS

(* The remainder is the only one. *)
LEMMA ModUnique ==
  ASSUME NEW G \in Nat \ {0}, NEW x \in Int, NEW q \in Int, NEW r \in 0..(G - 1),
         x = G * q + r
  PROVE  x % G = r
<1> DEFINE p == x \div G
           s == x % G
<1>1. p \in Int /\ s \in 0..(G - 1) /\ x = G * p + s
  BY ModDef
<1> HIDE DEF p, s
<1>2. G * (p - q) = r - s
  BY <1>1
<1>3. p - q \in Int /\ r - s < G /\ r - s > -G
  BY <1>1
<1>4. CASE p - q >= 1
  <2>1. G * (p - q) >= G
    BY <1>3, <1>4
  <2> QED BY <2>1, <1>2, <1>3
<1>5. CASE p - q <= -1
  <2>1. G * (p - q) <= -G
    BY <1>3, <1>5
  <2> QED BY <2>1, <1>2, <1>3
<1>6. CASE p - q = 0
  <2>1. r - s = 0
    BY <1>2, <1>6
  <2>2. r = s
    BY <2>1, <1>1
  <2> QED BY <2>2 DEF s
<1> QED BY <1>3, <1>4, <1>5, <1>6

(* Multiples of the modulus do not matter. *)
LEMMA ModShift ==
  ASSUME NEW G \in Nat \ {0}, NEW x \in Int, NEW k \in Int
  PROVE  (x + G * k) % G = x % G
<1> DEFINE p == x \div G
           s == x % G
<1>1. p \in Int /\ s \in 0..(G - 1) /\ x = G * p + s
  BY ModDef
<1> HIDE DEF p, s
<1>2. x + G * k = G * (p + k) + s
  BY <1>1
<1>3. x + G * k \in Int /\ p + k \in Int
  BY <1>1
<1>4. (x + G * k) % G = s
  BY <1>1, <1>2, <1>3, ModUnique
<1> QED BY <1>4 DEF s

(* Remainders may be taken before or after an addition. *)
LEMMA ModAdd ==
  ASSUME NEW G \in Nat \ {0}, NEW x \in Int, NEW y \in Int
  PROVE  ((x % G) + y) % G = (x + y) % G
<1> DEFINE p == x \div G
           s == x % G
<1>1. p \in Int /\ s \in 0..(G - 1) /\ x = G * p + s
  BY ModDef
<1> HIDE DEF p, s
<1>2. x + y = (s + y) + G * p /\ s + y \in Int
  BY <1>1
<1>3. ((s + y) + G * p) % G = (s + y) % G
  BY <1>1, <1>2, ModShift
<1> QED BY <1>2, <1>3 DEF s

(* The same for a subtraction. *)
LEMMA ModSub ==
  ASSUME NEW G \in Nat \ {0}, NEW x \in Int, NEW y \in Int
  PROVE  (y - (x % G)) % G = (y - x) % G
<1> DEFINE p == x \div G
           s == x % G
<1>1. p \in Int /\ s \in 0..(G - 1) /\ x = G * p + s
  BY ModDef
<1> HIDE DEF p, s
<1>2. y - s = (y - x) + G * p /\ y - x \in Int
  BY <1>1
<1>3. ((y - x) + G * p) % G = (y - x) % G
  BY <1>1, <1>2, ModShift
<1> QED BY <1>2, <1>3 DEF s

(* Numbers less than the modulus apart have different remainders. *)
LEMMA ModDistinct ==
  ASSUME NEW G \in Nat \ {0}, NEW x \in Int, NEW y \in Int, x < y, y - x < G
  PROVE  x % G # y % G
<1> DEFINE p == x \div G
           s == x % G
           d == y - x
<1>1. p \in Int /\ s \in 0..(G - 1) /\ x = G * p + s
  BY ModDef
<1>2. d \in 1..(G - 1) /\ y = x + d
  OBVIOUS
<1> HIDE DEF p, s, d
<1>3. CASE s + d < G
  <2>1. y = G * p + (s + d) /\ s + d \in 0..(G - 1)
    BY <1>1, <1>2, <1>3
  <2>2. y % G = s + d
    BY <1>1, <2>1, ModUnique
  <2> QED BY <2>2, <1>1, <1>2 DEF s
<1>4. CASE s + d >= G
  <2>1. y = G * (p + 1) + (s + d - G) /\ s + d - G \in 0..(G - 1) /\ p + 1 \in Int
    BY <1>1, <1>2, <1>4
  <2>2. y % G = s + d - G
    BY <2>1, ModUnique
  <2> QED BY <2>2, <1>1, <1>2 DEF s
<1> QED BY <1>1, <1>2, <1>3, <1>4

LEMMA TimesAssoc ==
  ASSUME NEW a \in Int, NEW b \in Int, NEW c \in Int
  PROVE  (a * b) * c = a * (b * c)
  OBVIOUS

(* A remainder by a multiple keeps the remainder. *)
LEMMA ModMod ==
  ASSUME NEW G \in Nat \ {0}, NEW k \in Nat \ {0}, NEW x \in Int
  PROVE  (x % (G * k)) % G = x % G
<1> DEFINE m == G * k
           p == x \div m
           s == x % m
<1>1. m \in Nat \ {0}
  <2>1. k - 1 \in Nat /\ G * (k - 1) \in Nat
    OBVIOUS
  <2>2. G * k = G * (k - 1) + G
    OBVIOUS
  <2> HIDE DEF m
  <2>3. G * k \in Nat \ {0}
    BY <2>1, <2>2
  <2> QED BY <2>3 DEF m
<1> HIDE DEF m
<1>2. p \in Int /\ s \in Int /\ x = m * p + s
  BY <1>1, ModDef
<1> HIDE DEF p, s
<1>3. m * p = G * (k * p) /\ k * p \in Int
  BY <1>2, TimesAssoc DEF m
<1>4. x = s + G * (k * p)
  BY <1>1, <1>2, <1>3
<1>5. (s + G * (k * p)) % G = s % G
  BY <1>2, <1>3, ModShift
<1> QED BY <1>4, <1>5 DEF s, m
------------------------------------------------------------------------------
(* Two sequences joined. *)
LEMMA JoinOf ==
  ASSUME NEW S, NEW s \in Seq(S), NEW t \in Seq(S)
  PROVE  /\ s \o t \in Seq(S) /\ Len(s \o t) = Len(s) + Len(t)
         /\ \A i \in 1..(Len(s) + Len(t)) :
               (s \o t)[i] = IF i <= Len(s) THEN s[i] ELSE t[i - Len(s)]
  OBVIOUS

(* The part of a sequence from m to n. *)
LEMMA PartOf ==
  ASSUME NEW S, NEW s \in Seq(S), NEW m \in Nat \ {0}, NEW n \in 0..Len(s), m <= n + 1
  PROVE  /\ SubSeq(s, m, n) \in Seq(S) /\ Len(SubSeq(s, m, n)) = n - m + 1
         /\ \A i \in 1..(n - m + 1) : SubSeq(s, m, n)[i] = s[m + i - 1]
<1>1. Len(SubSeq(s, m, n)) = n - m + 1
  OBVIOUS
<1>2. \A i \in 1..(n - m + 1) : SubSeq(s, m, n)[i] = s[m + i - 1]
  OBVIOUS
<1>3. SubSeq(s, m, n) \in Seq(S)
  OBVIOUS
<1> QED BY <1>1, <1>2, <1>3

(* What is left of a sequence when its head is taken. *)
LEMMA TailIs ==
  ASSUME NEW S, NEW s \in Seq(S), s # <<>>
  PROVE  /\ Head(s) \in S /\ Tail(s) \in Seq(S) /\ Len(Tail(s)) = Len(s) - 1
         /\ \A i \in 1..Len(Tail(s)) : Tail(s)[i] = s[i + 1]
  OBVIOUS
==============================================================================
