------------------------------- MODULE Words -------------------------------
(* Unsigned words as the sets of their one bits, bit 0 the lowest. *)
EXTENDS Integers, FiniteSets

Byte == 0..7
Word == 0..31

Bits(n) == {i \in 0..30 : (n \div 2^i) % 2 = 1}

Xor(a, b) == (a \ b) \cup (b \ a)
ShiftLeft(w) == {i + 1 : i \in w \ {31}}                \* w << 1
ShiftRight(w, n) == {i - n : i \in {j \in w : j >= n}}  \* w >> n
============================================================================
