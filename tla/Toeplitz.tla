------------------------------ MODULE Toeplitz ------------------------------
(***************************************************************************)
(* RSSDistributor::toeplitz (src/rss_distributor.cpp): a 32-bit window      *)
(* slides over the bits of the key, one step per bit of the input, and is   *)
(* added (xor) to the result wherever the input has a one.  A step of the   *)
(* module is one turn of the inner loop.                                    *)
(***************************************************************************)
EXTENDS Words, Sequences

CONSTANTS
  Tuples,     \* the 4-tuples that are hashed: addresses as bytes, ports
  Vectors     \* 4-tuples with the hash they are known to have

VARIABLES input, byte, bit, result, window, next_bit

vars == <<input, byte, bit, result, window, next_bit>>

kRssKey == <<
  \h6d, \h5a, \h56, \hda, \h25, \h5b, \h0e, \hc2, \h41, \h67,
  \h25, \h3d, \h43, \ha3, \h8f, \hb0, \hd0, \hca, \h2b, \hcb,
  \hae, \h7b, \h30, \hb4, \h77, \hcb, \h2d, \ha3, \h80, \h30,
  \hf2, \h0c, \h6a, \h42, \hb7, \h3b, \hbe, \hac, \h01, \hfa>>

\* The bits of the key in their order: bit 7 of the first byte comes first.
KeyBit(n) == (7 - (n % 8)) \in Bits(kRssKey[(n \div 8) + 1])

\* input[12]: addresses and ports in network byte order.
InputBytes(t) ==
  t.src_ip \o t.dst_ip
    \o <<t.src_port \div 256, t.src_port % 256, t.dst_port \div 256, t.dst_port % 256>>

Init ==
  /\ input \in Tuples
  /\ byte = 0 /\ bit = 7
  /\ result = {}
  /\ window = {31 - n : n \in {k \in Word : KeyBit(k)}}
  /\ next_bit = 32

Done == byte = 12

\* window = (window << 1) | key_bit
SlideWrapped == ShiftLeft(window) \cup (IF KeyBit(next_bit % 32) THEN {0} ELSE {})
Slide == ShiftLeft(window) \cup (IF KeyBit(next_bit) THEN {0} ELSE {})

Step ==
  /\ ~Done
  /\ result' = IF bit \in Bits(InputBytes(input)[byte + 1]) THEN Xor(result, window) ELSE result
  /\ window' = Slide
  /\ next_bit' = next_bit + 1
  /\ IF bit > 0 THEN bit' = bit - 1 /\ byte' = byte
                ELSE bit' = 7 /\ byte' = byte + 1
  /\ UNCHANGED input

Return == Done /\ UNCHANGED vars

Next == Step \/ Return
Spec == Init /\ [][Next]_vars
-----------------------------------------------------------------------------
\* The input bits taken so far, counted from the first bit of src_ip.
Taken == 8 * byte + 7 - bit
InputBit(n) == (7 - (n % 8)) \in Bits(InputBytes(input)[(n \div 8) + 1])

\* The definition of the hash, a product with the Toeplitz matrix of the key:
\* bit 31 - j of the hash is the parity of the input bits n with key bit
\* n + j set.  At every turn of the loop result is that product for the bits
\* taken so far, so neither the window nor the key index ever slips.
ResultIsToeplitzProduct ==
  LET ones == {n \in 0..(Taken - 1) : InputBit(n)}
  IN  result = {31 - j : j \in {k \in Word :
                  Cardinality({n \in ones : KeyBit(n + k)}) % 2 = 1}}

\* "Canonical Microsoft/Intel 82599 RSS 4-tuple (IPv4+TCP) test vectors"
\* (tests/test_rss.cpp:11): the hash is the one a network card computes.
KnownVectors ==
  \A v \in Vectors : Done /\ input = v.tuple => result = v.hash
=============================================================================
