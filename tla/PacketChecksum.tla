--------------------------- MODULE PacketChecksum ---------------------------
(***************************************************************************)
(* The checksum of a TCP-Lite packet (src/tcp_lite.cpp): compute_checksum   *)
(* fills the field of the header, the wire may flip bits anywhere in the    *)
(* packet, and verify_checksum decides whether on_packet_received takes it. *)
(* A packet is the sequence of its bytes, the checksum in its field.        *)
(***************************************************************************)
EXTENDS Words, Sequences

CONSTANTS
  Messages,   \* the packets: twelve bytes of seq_num, ack_num, flags and
              \* payload_len as header, and the bytes of the payload
  MaxFlips    \* bound: bits the wire flips

VARIABLES
  sent,      \* the packet handed to transmit_
  packet,    \* the packet as it is on the wire
  flips,     \* bits flipped
  at, crc    \* the receiver in crc32_seg: bytes done, and the register

vars == <<sent, packet, flips, at, crc>>

\* crc_table: eight rounds of the reflected polynomial 0xEDB88320.
Poly == {31, 30, 29, 27, 26, 24, 23, 21, 20, 19, 15, 9, 8, 5}
Round(c) == IF 0 \in c THEN Xor(Poly, ShiftRight(c, 1)) ELSE ShiftRight(c, 1)
Rounds(c, n) ==
  LET r[k \in 0..n] == IF k = 0 THEN c ELSE LET d == r[k - 1] IN Round(d) IN r[n]

Table == [b \in SUBSET Byte |-> Rounds(b, 8)]

\* crc32_seg: one byte of the header or of the payload, and all of them.
NextCrc(c, b) == Xor(Table[Xor(c, b) \cap Byte], ShiftRight(c, 8))

Crc32(bytes) ==
  LET r[i \in 0..Len(bytes)] ==
        IF i = 0 THEN Word ELSE LET c == r[i - 1] IN NextCrc(c, bytes[i])
  IN  Xor(r[Len(bytes)], Word)

\* The checksum field, bytes 12 to 15 of the header, in host byte order.
WordBytes(w) == [k \in 1..4 |-> ShiftRight(w, 8 * (k - 1)) \cap Byte]
Zeroed(p) == [i \in 1..Len(p) |-> IF i \in 13..16 THEN {} ELSE p[i]]
Field(p) == SubSeq(p, 13, 16)

\* compute_checksum
ComputeChecksum(m) ==
  LET crc32 == Crc32(m.header \o WordBytes({}) \o m.payload)
  IN  m.header \o WordBytes(crc32) \o m.payload

\* verify_checksum works on a copy of the header with the field zeroed.
Copy(p) == Zeroed(p)

Init ==
  /\ \E m \in Messages : sent = ComputeChecksum(m)
  /\ packet = sent /\ flips = 0 /\ at = 0 /\ crc = Word

\* The wire.  A flip in payload_len would have the receiver read another
\* number of bytes, which is left out.
Flip(i, b) ==
  /\ at = 0 /\ flips < MaxFlips /\ i \notin {11, 12}
  /\ packet' = [packet EXCEPT ![i] = Xor(@, {b})]
  /\ flips' = flips + 1 /\ UNCHANGED <<sent, at, crc>>

\* verify_checksum, a turn of the loops of crc32_seg at a time.
Verify ==
  /\ at < Len(Copy(packet))
  /\ crc' = NextCrc(crc, Copy(packet)[at + 1])
  /\ at' = at + 1 /\ UNCHANGED <<sent, packet, flips>>

Verified == at = Len(Copy(packet))

Return == Verified /\ UNCHANGED vars

Next == Verify \/ Return \/ \E i \in 1..Len(packet), b \in Byte : Flip(i, b)
Spec == Init /\ [][Next]_vars

Accepted == WordBytes(Xor(crc, Word)) = Field(packet)
-----------------------------------------------------------------------------
\* on_packet_received drops what is "corrupt" (tcp_lite.cpp:247) and nothing
\* else: a packet as it was sent is accepted, and one with a flipped bit or
\* two, in the header, the checksum or the payload, is not.
AcceptedIffIntact == Verified => (Accepted <=> packet = sent)

\* A step by the table is eight steps of the division by the polynomial, one
\* per bit of the byte, from every value the register goes through.
TableIsBitwiseDivision ==
  ~Verified => LET b == Copy(packet)[at + 1]
               IN  NextCrc(crc, b) = Rounds(Xor(crc, b), 8)
=============================================================================
