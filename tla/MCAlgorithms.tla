---------------------------- MODULE MCAlgorithms ----------------------------
(***************************************************************************)
(* The four loops over data, for TLC: PacketParser::parse, toeplitz, the    *)
(* packet checksum of TCP-Lite and verify_allocation_node.  They share no   *)
(* state; a behaviour runs one of them, the variables of the others keep    *)
(* their first value.                                                       *)
(***************************************************************************)
EXTENDS PacketParser, Words, SequencesExt

CONSTANTS MaxFlips, Addresses, Nodes, MaxPages

VARIABLES
  routine,                                                \* the one that runs
  input, byte, bit, result, window, next_bit,             \* Toeplitz
  sent, packet, flips, at, crc,                           \* PacketChecksum
  lines, target, read, best, token, best_pages, best_node \* NumaMaps

parserVars == vars
toeplitzVars == <<input, byte, bit, result, window, next_bit>>
checksumVars == <<sent, packet, flips, at, crc>>
numaVars == <<lines, target, read, best, token, best_pages, best_node>>
allVars == <<routine, parserVars, toeplitzVars, checksumVars, numaVars>>
-----------------------------------------------------------------------------
(* Frames as a sender builds them, and what the wire or the capture may do   *)
(* to them.                                                                  *)

\* The words of an IPv4 header with its checksum, the sixth word.
IpHeader(ihl, tlen, proto, opt) ==
  LET ws == <<4 * 4096 + ihl * 256, tlen, 4660, 16384, 64 * 256 + proto, 0,
              2560, 1, 49320, 65535>> \o [k \in 1..(2 * ihl - 10) |-> opt]
  IN  [ws EXCEPT ![6] = (65535 - (FoldLeft(+, 0, ws) % 65535)) % 65535]

\* What the buffer holds behind the end of the frame.
Stale == 4369

Frame(made, type, len, words) ==
  [made |-> made, damaged |-> FALSE, ethertype |-> type, len |-> len,
   words |-> words \o [k \in 1..30 |-> Stale]]

Ip(made, ihl, proto, payload, pad) ==
  Frame(made, 2048, 14 + 4 * ihl + payload + pad,
        IpHeader(ihl, 4 * ihl + payload, proto, 65279))

\* total_len left 0, as where the card is to segment the packet, or in error.
LengthUnset(ihl, tlen) ==
  Frame("length unset", 2048, 14 + 4 * ihl + 100, IpHeader(ihl, tlen, 17, 65279))

Built ==
  {Ip("udp", ihl, 17, p, 0) : ihl \in {5, 6, 15}, p \in {8, 100}}
  \cup {Ip("udp", 5, 17, 10, 16), Ip("icmp", 5, 1, 64, 0), Ip("icmp", 8, 1, 0, 26)}
  \cup {Ip("no room for udp", 5, 17, p, 26 - p) : p \in {0, 7}}
  \cup {LengthUnset(ihl, tlen) : ihl \in {5, 15}, tlen \in {0, 19}}
  \cup {Frame("other", 2054, 60, <<1, 2048, 1540, 1>>),
        Frame("other", 34525, 74, <<24576, 0, 20, 4416>>)}
  \cup {Frame("short", 2048, n, <<17664, 28>>) : n \in {0, 13}}

\* Only n bytes behind the Ethernet header were captured.
Cut(f, n) ==
  [f EXCEPT !.len = 14 + n,
            !.words = [k \in DOMAIN @ |-> IF 2 * k <= n THEN @[k] ELSE Stale]]

\* Cut within the UDP datagram, the options, or the first 20 bytes.
Truncated ==
  {Cut(Ip("udp", 5, 17, 100, 0), n) : n \in {20, 27, 28, 60}}
  \cup {[Cut(Ip("udp", ihl, 17, 100, 0), n) EXCEPT !.damaged = TRUE] :
          ihl \in {6, 15}, n \in {20, 22}}
  \cup {Cut(Ip("cut", ihl, 17, 100, 0), n) : ihl \in {5, 6}, n \in {0, 2, 18, 19}}

\* One bit of the header, the version and every length field included.  The
\* four bits of the header length (bits 8 to 11 of the first word) are left
\* out: they change what is summed, so that the payload decides the outcome.
FlipBit(w, b) == IF (w \div 2^b) % 2 = 1 THEN w - 2^b ELSE w + 2^b

Damaged ==
  {[f EXCEPT !.damaged = TRUE, !.words[kb[1]] = FlipBit(@, kb[2])] :
     f \in {Ip("udp", 5, 17, p, 0) : p \in {8, 100}},
     kb \in (1..10) \X (0..15) \ ({1} \X (8..11))}
  \cup {[Ip("udp", 6, 17, 8, 0) EXCEPT !.damaged = TRUE, !.words[kb[1]] = FlipBit(@, kb[2])] :
          kb \in (1..12) \X (0..15) \ ({1} \X (8..11))}

Traffic == Built \cup Truncated \cup Damaged
-----------------------------------------------------------------------------
(* The vectors of tests/test_rss.cpp:18-23, and inputs at the edges: no bit, *)
(* every bit, the first bit and the last.                                    *)
Tuple(src, dst, sport, dport) ==
  [src_ip |-> src, dst_ip |-> dst, src_port |-> sport, dst_port |-> dport]

KnownTuples == {
  [tuple |-> Tuple(<<66, 9, 149, 187>>, <<161, 142, 100, 80>>, 2794, 1766),
   hash |-> {3, 4, 5, 6, 8, 14, 15, 18, 19, 22, 23, 24, 28, 30}],
  [tuple |-> Tuple(<<199, 92, 111, 2>>, <<65, 69, 140, 83>>, 14230, 4739),
   hash |-> {1, 3, 5, 6, 7, 12, 13, 15, 17, 18, 21, 25, 26, 30, 31}],
  [tuple |-> Tuple(<<24, 19, 198, 95>>, <<12, 22, 207, 184>>, 12898, 38024),
   hash |-> {1, 3, 6, 8, 11, 12, 13, 16, 17, 19, 21, 26, 27, 28, 30}],
  [tuple |-> Tuple(<<38, 27, 205, 30>>, <<209, 142, 163, 6>>, 48228, 2217),
   hash |-> {0, 1, 2, 3, 4, 5, 6, 9, 12, 13, 16, 17, 18, 22, 23, 24, 25, 26, 27, 29, 31}]}

Zero == <<0, 0, 0, 0>>
Ones == <<255, 255, 255, 255>>
Edges == {Tuple(Zero, Zero, 0, 0), Tuple(Ones, Ones, 65535, 65535),
          Tuple(<<128, 0, 0, 0>>, Zero, 0, 0), Tuple(Zero, Zero, 0, 1)}

Hashed == {v.tuple : v \in KnownTuples} \cup Edges

T == INSTANCE Toeplitz WITH Tuples <- Hashed, Vectors <- KnownTuples
-----------------------------------------------------------------------------
(* A data packet: seq_num, ack_num, flags = TCP_ACK and payload_len in host  *)
(* (little-endian) byte order, and a payload of one byte.                    *)
Number(n) == [k \in 1..4 |-> ShiftRight(Bits(n), 8 * (k - 1)) \cap Byte]
Message(seq, ack, payload) ==
  [header |-> Number(seq) \o Number(ack) \o <<{1}, {}>>
                \o SubSeq(Number(Len(payload)), 1, 2),
   payload |-> payload]

Data == Message(258, 65535, <<{0, 5, 7}>>)

C == INSTANCE PacketChecksum WITH Messages <- {Data}

N == INSTANCE NumaMaps
-----------------------------------------------------------------------------
(* What an input is while another routine runs. *)
FixedFrame == Frame("short", 2048, 0, <<17664, 28>>)
FixedTuple == Tuple(Zero, Zero, 0, 0)
FixedLines ==
  <<[start |-> 0, end |-> 1, pages |-> [n \in Nodes |-> 1]],
    [start |-> 1, end |-> 2, pages |-> [n \in Nodes |-> 1]]>>

MCInit ==
  /\ routine \in {"parse", "toeplitz", "checksum", "numa_maps"}
  /\ routine = "parse" \/ frame = FixedFrame
  /\ routine = "toeplitz" \/ input = FixedTuple
  /\ IF routine = "numa_maps" THEN N!Input ELSE lines = FixedLines /\ target = 0
  /\ Init /\ T!Init /\ C!Init /\ N!Start

MCNext ==
  \/ /\ routine = "parse" /\ Next
     /\ UNCHANGED <<routine, toeplitzVars, checksumVars, numaVars>>
  \/ /\ routine = "toeplitz" /\ T!Next
     /\ UNCHANGED <<routine, parserVars, checksumVars, numaVars>>
  \/ /\ routine = "checksum" /\ C!Next
     /\ UNCHANGED <<routine, parserVars, toeplitzVars, numaVars>>
  \/ /\ routine = "numa_maps" /\ N!Next
     /\ UNCHANGED <<routine, parserVars, toeplitzVars, checksumVars>>

MCSpec == MCInit /\ [][MCNext]_allVars
-----------------------------------------------------------------------------
(* PacketParser::parse: a frame is classified as its headers say, whatever  *)
(* padding or truncation did to its length, and is marked valid unless it   *)
(* is IPv4 with a header that is not as it was built                        *)
(* (packet_parser.h:106-126).                                               *)
FramesParsed == ParsedAsBuilt /\ ValidUnlessDamaged

(* toeplitz and crc32_seg: at every turn of the loop the result is the      *)
(* product of the input bits taken so far with the matrix of the key, and   *)
(* the one a network card computes for the published vectors of             *)
(* tests/test_rss.cpp:11; a step by the table is eight steps of the bitwise *)
(* division, and verify_checksum accepts a packet exactly when no bit of it *)
(* has been flipped.                                                        *)
DigestsAreExact ==
  /\ T!ResultIsToeplitzProduct /\ T!KnownVectors
  /\ C!TableIsBitwiseDivision /\ C!AcceptedIffIntact

(* verify_allocation_node: the line it goes by is the one of the mapping    *)
(* that holds the address, and the node it compares with has the most       *)
(* pages, of several with as many it is the lowest.                         *)
NodeIsTheRightOne == N!FindsTheMapping /\ N!MostPagesOnNode
=============================================================================
