--------------------------- MODULE TcpLiteSession ---------------------------
(***************************************************************************)
(* A TcpLiteSession (src/tcp_lite.cpp) as a record, and what its methods do *)
(* to it: the header, UnackedQueue, RecvBitmap, and the parts of send, tick *)
(* and on_packet_received.  TcpLite and TcpLiteSync put two of them on a    *)
(* wire.                                                                    *)
(*                                                                          *)
(* A payload is the interval [off, len] of the bytes the application gave   *)
(* to send.  The fields pkts, stream, num and pos are history: no guard of  *)
(* the code reads them.                                                     *)
(***************************************************************************)
EXTENDS Integers, Sequences, FiniteSets

CONSTANTS
    Window,       \* TCP_LITE_WINDOW, 256 in the code
    SeqMod,       \* sequence numbers are uint32_t: 2^32 in the code
    MaxPayload,   \* TCP_LITE_MAX_PAYLOAD, 1024 in the code
    PoolSize      \* buffers in each session's pool

Sessions == {"A", "B"}

ASSUME SessionAssumption ==
    /\ Window \in Nat \ {0} /\ MaxPayload \in Nat \ {0}
    /\ SeqMod \in Nat /\ SeqMod % Window = 0 /\ SeqMod > 2 * Window
    /\ SeqMod % 2 = 0
    /\ PoolSize \in Nat \ {0}

Peer(e) == IF e = "A" THEN "B" ELSE "A"
Slots == 0..(Window - 1)
Least(S) == CHOOSE x \in S : \A y \in S : x <= y

\* static_cast<int32_t>(a - b)
SignedDiff(a, b) ==
    LET d == (a - b) % SeqMod IN IF d < SeqMod \div 2 THEN d ELSE d - SeqMod

\* seq + n, in a uint32_t.
AddSeq(seq, n) == (seq + n) % SeqMod

Free == [used |-> FALSE]        \* an UnackedQueue slot that is not occupied
Used(s) == {i \in Slots : s.slots[i].used}
InFlight(s) == (s.next - s.una) % SeqMod
Nothing == [off |-> 0, len |-> 0]  \* a cleared reassembly vector
----------------------------------------------------------------------------
NewSession ==
    [given  |-> 0,                         \* bytes passed to send
     sent   |-> 0,                         \* bytes_sent_
     next   |-> 0,                         \* next_seq_
     una    |-> 0,                         \* snd_una_
     slots  |-> [i \in Slots |-> Free],    \* unacked_
     base   |-> 0,                         \* recv_bitmap_.base_seq_
     rcvd   |-> {},                        \* the bits set in received_
     reasm  |-> [i \in Slots |-> Nothing], \* reasm_
     ack    |-> FALSE,                     \* pending_ack_
     free   |-> PoolSize,                  \* buffers left in pool_
     out    |-> {},                        \* handed to transmit_ by this step
     open   |-> TRUE,                      \* not yet destroyed
     pkts   |-> 0,                         \* history: packets ever made
     stream |-> <<>>]                      \* history: payloads to data_cb_

\* RecvBitmap::cumulative_ack, and the number of packets it runs over.
Run(s) == Least((0..Window) \ s.rcvd)
CumulativeAck(s) == AddSeq(s.base, Run(s))

\* A packet (make_data, make_ack): TCP_ACK is always set, and len = 0 in a
\* pure acknowledgement.
Packet(e, s, j, off, len) ==
    [dst |-> Peer(e), seq |-> AddSeq(s.next, j), ack |-> CumulativeAck(s),
     off |-> off, len |-> len, num |-> s.pkts + j, pos |-> Len(s.stream)]

\* The window test of pump_tx: how many more packets it lets out.
RoomNoWrap(s) == IF s.next - s.una < Window THEN Window - (s.next - s.una) ELSE 0
Room(s) == IF InFlight(s) < Window THEN Window - InFlight(s) ELSE 0

\* mark_sent, for the packets of one pump_tx: a slot still occupied would
\* give its buffer back.
MarkSent(s, new) ==
    LET hit == {p.seq % Window : p \in new}
    IN  [s EXCEPT
          !.slots = [i \in Slots |->
                       IF i \in hit
                       THEN [used |-> TRUE, due |-> FALSE,
                             pkt |-> CHOOSE p \in new : p.seq % Window = i]
                       ELSE @[i]],
          !.free = @ + Cardinality(hit \cap Used(s))]

\* pump_tx: as many packets as data, window and pool allow.
PumpTx(e, s) ==
    LET pending == s.given - s.sent
        k == Least({(pending + MaxPayload - 1) \div MaxPayload, Room(s), s.free})
        plen(j) == Least({MaxPayload, pending - j * MaxPayload})
        new == {Packet(e, s, j, s.sent + j * MaxPayload, plen(j)) : j \in 0..(k - 1)}
    IN  [MarkSent(s, new) EXCEPT
          !.free = @ - k,
          !.out = @ \cup new,
          !.sent = @ + Least({k * MaxPayload, pending}),
          !.next = AddSeq(@, k),
          !.pkts = @ + k]

\* mark_acked: the occupied slots below up_to_seq.
AckedThrough(s, upTo) ==
    {i \in Used(s) : SignedDiff(s.slots[i].pkt.seq, upTo) <= 0}
Acked(s, upTo) ==
    {i \in Used(s) : SignedDiff(s.slots[i].pkt.seq, upTo) < 0}

\* The test that an acknowledgement is news.
AckDiffers(s, ack) == ack # s.una
AckIsNew(s, ack) == SignedDiff(ack, s.una) > 0

\* on_packet_received, the TCP_ACK branch: mark_acked releases the buffers.
OnAck(s, ack) ==
    LET done == Acked(s, ack)
    IN  [s EXCEPT !.slots = [i \in Slots |-> IF i \in done THEN Free ELSE @[i]],
                  !.free = @ + Cardinality(done),
                  !.una = ack]

\* mark_received: the bits the packet sets, none if it is old, a duplicate
\* or beyond the window.
MarkReceivedModWindow(s, seq) == {(seq - s.base) % Window} \ s.rcvd
MarkReceived(s, seq) ==
    {d \in Slots : SignedDiff(seq, s.base) = d} \ s.rcvd

\* deliver_in_order: hand the run at the base to data_cb_, move the base on.
AdvanceNoShift(s, n) == s.rcvd \ (0..(n - 1))
Advance(s, n) == {d - n : d \in {x \in s.rcvd : x >= n}}

DeliverInOrder(s) ==
    LET n == Run(s)
        slot(k) == (s.base + k) % Window
    IN  [s EXCEPT
          !.stream = @ \o [k \in 1..n |-> s.reasm[slot(k - 1)]],
          !.reasm = [i \in Slots |-> IF \E k \in 0..(n - 1) : slot(k) = i
                                     THEN Nothing ELSE @[i]],
          !.rcvd = Advance(s, n),
          !.base = AddSeq(@, n)]

\* on_packet_received, the payload branch: every packet that carries data,
\* new or not, asks for an acknowledgement.
AskOnlyIfNew(s, p) == MarkReceived(s, p.seq) # {}
AsksForAck(s, p) == TRUE

OnData(s, p) ==
    LET bits == MarkReceived(s, p.seq)
        asks == AsksForAck(s, p)
    IN  [s EXCEPT
          !.rcvd = @ \cup bits,
          !.reasm = IF bits = {} THEN @
                    ELSE [@ EXCEPT ![p.seq % Window] = [off |-> p.off, len |-> p.len]],
          !.ack = @ \/ asks]

\* tick: retransmit what has timed out, pump, send the pending ACK.
Retransmit(s) ==
    LET due == {i \in Used(s) : s.slots[i].due}
    IN  [s EXCEPT !.slots = [i \in Slots |-> IF i \in due
                                             THEN [@[i] EXCEPT !.due = FALSE] ELSE @[i]],
                  !.out = {s.slots[i].pkt : i \in due}]

SendAck(e, s) ==
    IF s.ack
    THEN [s EXCEPT !.out = @ \cup {Packet(e, s, 0, 0, 0)}, !.ack = FALSE]
    ELSE s

\* ~TcpLiteSession: release_all, and the socket is closed.
ReleaseAllLeaks(s) == [s EXCEPT !.slots = [i \in Slots |-> Free]]
ReleaseAll(s) ==
    [s EXCEPT !.slots = [i \in Slots |-> Free],
              !.free = @ + Cardinality(Used(s))]
----------------------------------------------------------------------------
\* The end of the bytes handed to the data callback so far.
End(stream) == IF stream = <<>> THEN 0 ELSE stream[Len(stream)].off + stream[Len(stream)].len

\* The bytes of a stream of payloads follow each other from the first one on.
Contiguous(stream) ==
    \A i \in 1..Len(stream) :
        stream[i].len > 0 /\ stream[i].off = End(SubSeq(stream, 1, i - 1))

\* Everything given to send is delivered and acknowledged.
SettledWith(s, peer) ==
    s.sent = s.given /\ s.una = s.next /\ End(peer.stream) = s.given
============================================================================
