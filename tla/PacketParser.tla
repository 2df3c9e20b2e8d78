---------------------------- MODULE PacketParser ----------------------------
(***************************************************************************)
(* PacketParser::parse (include/packet_parser.h): the views decide what a   *)
(* frame is, and the loops of IPv4View::checksum_valid, a turn per step,    *)
(* decide whether it is marked valid.                                       *)
(*                                                                          *)
(* A frame is its length, its ethertype, and the big-endian 16-bit words    *)
(* (rd16) of the buffer behind the Ethernet header, which is larger than    *)
(* any IPv4 header.  made says what the sender built; the code does not see *)
(* it.                                                                      *)
(***************************************************************************)
EXTENDS Integers, Sequences

CONSTANTS
  Frames,    \* the frames that are parsed
  SizeMod    \* size_t: 2^64 in the code

ASSUME ParserAssumption ==
  /\ SizeMod \in Nat \ {0}
  /\ \A f \in Frames : f.words \in Seq(Nat) /\ Len(f.words) >= 30

VARIABLES
  frame,   \* buf and len
  pc,      \* "sum", "fold" or "done"
  i,       \* the words added so far
  sum,     \* sum, a uint32_t that 30 words cannot overflow
  total    \* history: the sum before any folding

vars == <<frame, pc, i, sum, total>>

EthValid(f) == f.len >= 14
IpLen(f) == (f.len - 14) % SizeMod

version(f) == f.words[1] \div 4096
header_len(f) == ((f.words[1] \div 256) % 16) * 4
total_len(f) == f.words[2]
protocol(f) == f.words[5] % 256

IpValid(f) == version(f) = 4 /\ IpLen(f) >= 20 /\ header_len(f) >= 20

\* IPv4View::payload_len: what the header says, not what the frame holds.
PayloadOfFrame(f) == (IpLen(f) - header_len(f)) % SizeMod
payload_len(f) == (total_len(f) - header_len(f)) % SizeMod

UdpValid(f) == payload_len(f) >= 8

has_ip(f) == EthValid(f) /\ f.ethertype = 2048 /\ IpValid(f)
has_udp(f) == has_ip(f) /\ protocol(f) = 17 /\ UdpValid(f)

Init ==
  /\ frame \in Frames
  /\ pc = "sum" /\ i = 0 /\ sum = 0 /\ total = 0

\* for (i = 0; i + 1 < hl; i += 2) sum += rd16(buf_ + i)
Enough == 2 * i + 1 >= header_len(frame)

Add ==
  /\ pc = "sum" /\ ~Enough
  /\ sum' = sum + frame.words[i + 1]
  /\ total' = total + frame.words[i + 1]
  /\ i' = i + 1 /\ UNCHANGED <<frame, pc>>

Added ==
  /\ pc = "sum" /\ Enough
  /\ pc' = "fold" /\ UNCHANGED <<frame, i, sum, total>>

\* while (sum >> 16) sum = (sum & 0xFFFF) + (sum >> 16)
DropCarry(s) == s % 65536
AddCarry(s) == (s % 65536) + (s \div 65536)

Fold ==
  /\ pc = "fold"
  /\ IF sum >= 65536 THEN sum' = AddCarry(sum) /\ pc' = pc
                     ELSE pc' = "done" /\ sum' = sum
  /\ UNCHANGED <<frame, i, total>>

Returned == pc = "done" /\ UNCHANGED vars

Next == Add \/ Added \/ Fold \/ Returned
Spec == Init /\ [][Next]_vars

checksum_valid == sum = 65535
valid == EthValid(frame) /\ (~has_ip(frame) \/ checksum_valid)
-----------------------------------------------------------------------------
\* parse sees what the sender built: IPv4 with or without options, when 20
\* bytes of it were captured, and UDP with room for its header; the padding of
\* a short frame is not taken for payload.  It goes by the header's length
\* fields alone: a UDP header that was not captured is reported all the same,
\* and a total_len below header_len wraps and counts as room for one.
ParsedAsBuilt ==
  ~frame.damaged =>
    /\ has_ip(frame) <=> frame.made \in {"udp", "icmp", "no room for udp", "length unset"}
    /\ has_udp(frame) <=> frame.made \in {"udp", "length unset"}

\* "Drop IPv4 packets whose header checksum does not verify"
\* (packet_parser.h:123): the mark is set on a whole frame unless a bit of
\* its IPv4 header, options included, is not as the sender built it.  A frame
\* that does not look like IPv4, any more or for want of 20 bytes, is marked.
ValidUnlessDamaged ==
  pc = "done" =>
    (valid <=> frame.made # "short" /\ ~(has_ip(frame) /\ frame.damaged))

\* The sum with end-around carry (RFC 1071) that checksum_valid compares with
\* 0xFFFF: the folding ends in one's-complement arithmetic, that is modulo
\* 65535, with 0xFFFF and never 0 for the multiples of 65535.
OnesComplementSum ==
  pc = "done" => (checksum_valid <=> total > 0 /\ total % 65535 = 0)
=============================================================================
