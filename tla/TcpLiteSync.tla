---------------------------- MODULE TcpLiteSync ----------------------------
(***************************************************************************)
(* Two TcpLiteSession objects wired by set_transmit as                     *)
(* tests/test_tcp_lite.cpp wires them: transmit_ copies the packet into a  *)
(* buffer of the peer's pool and calls its on_packet_received before it    *)
(* returns, so a call into one session re-enters the other, and B.tick     *)
(* re-enters B itself.  A sends, B receives; A's wire may drop packets.    *)
(*                                                                         *)
(* A step runs from one call of transmit_, acquire or release to the next: *)
(*                                                                         *)
(*   idle    no call is under way                                          *)
(*   loop    A is at the head of tick's loop over the timeouts (todo is    *)
(*           not empty) or of pump_tx's loop                               *)
(*   wire    A has called transmit_                                        *)
(*   in      B.on_packet_received has handled the packet                   *)
(*   back    transmit_ returns to A                                        *)
(*   acked   A.on_packet_received has handled B's ACK                      *)
(*   ticked  transmit_ returns to B.tick                                   *)
(***************************************************************************)
EXTENDS TcpLiteSession

LOCAL SeqLib == INSTANCE SequencesExt

CONSTANTS MaxBytes,   \* bound: bytes the application of A sends
          Chunks      \* bound: the sizes of one send()

ASSUME SyncAssumption == MaxBytes \in Nat /\ Chunks \subseteq Nat \ {0}

VARIABLES
    ses,       \* the two sessions
    pc,        \* where the call under way is
    todo,      \* A.tick: what check_timeouts returned and is not yet resent
    pkt,       \* the packet in A's transmit_
    ticking,   \* the call under way is B.tick
    lossy      \* A's wire may still drop packets

vars == <<ses, pc, todo, pkt, ticking, lossy>>

NoPacket == [len |-> 0]

Init ==
    /\ ses = [e \in Sessions |-> NewSession]
    /\ pc = "idle" /\ todo = <<>> /\ pkt = NoPacket
    /\ ticking = FALSE /\ lossy = TRUE

Idle == pc = "idle"

\* The test of pump_tx's loop, and its acquire.
MayPumpOneMore(s) == s.sent < s.given /\ InFlight(s) <= Window /\ s.free > 0
MayPump(s) == s.sent < s.given /\ InFlight(s) < Window /\ s.free > 0

\* The packet of one turn of pump_tx.
NextPacket(s) == Packet("A", s, 0, s.sent, Least({MaxPayload, s.given - s.sent}))

Send(n) ==
    /\ Idle /\ ses.A.given + n <= MaxBytes
    /\ ses' = [ses EXCEPT !.A.given = @ + n]
    /\ pc' = "loop"
    /\ UNCHANGED <<todo, pkt, ticking, lossy>>

Timeout(i) ==
    /\ Idle /\ ses.A.slots[i].used /\ ~ses.A.slots[i].due
    /\ ses' = [ses EXCEPT !.A.slots[i].due = TRUE]
    /\ UNCHANGED <<pc, todo, pkt, ticking, lossy>>

\* tick, up to its loop: check_timeouts goes through the slots.
TickA ==
    /\ Idle
    /\ \E due \in {{i \in Used(ses.A) : ses.A.slots[i].due}} :
          todo' = [k \in 1..Cardinality(due) |->
                     ses.A.slots[SeqLib!SetToSortSeq(due, <)[k]].pkt.seq]
    /\ pc' = "loop"
    /\ UNCHANGED <<ses, pkt, ticking, lossy>>

\* A turn of tick's loop, up to transmit_: buffer_for finds the packet, since
\* B acknowledges nothing inside that loop (StillInSlots below).
Resend ==
    /\ pc = "loop" /\ todo # <<>>
    /\ pkt' = ses.A.slots[Head(todo) % Window].pkt
    /\ pc' = "wire"
    /\ UNCHANGED <<ses, todo, ticking, lossy>>

\* A turn of pump_tx's loop, up to transmit_: the packet is in its slot, but
\* next_seq_, tx_off_ and bytes_sent_ do not yet count it.
Pump ==
    /\ pc = "loop" /\ todo = <<>> /\ MayPump(ses.A)
    /\ pkt' = NextPacket(ses.A)
    /\ ses' = [ses EXCEPT !.A = MarkSent([@ EXCEPT !.free = @ - 1], {pkt'})]
    /\ pc' = "wire"
    /\ UNCHANGED <<todo, ticking, lossy>>

\* pump_tx returns, and with it send, A.tick or A's handling of B's ACK.
PumpEnds ==
    /\ pc = "loop" /\ todo = <<>> /\ ~MayPump(ses.A)
    /\ pc' = IF ticking THEN "acked" ELSE "idle"
    /\ UNCHANGED <<ses, todo, pkt, ticking, lossy>>

\* A's transmit_: deliver takes a buffer of B's pool and B.on_packet_received
\* handles the packet, whose ACK is never news, A receiving no data.
Arrive ==
    /\ pc = "wire" /\ ses.B.free > 0
    /\ ses' = [ses EXCEPT !.B = DeliverInOrder(OnData([@ EXCEPT !.free = @ - 1], pkt))]
    /\ pc' = "in"
    /\ UNCHANGED <<todo, pkt, ticking, lossy>>

\* The end of B.on_packet_received.
Return ==
    /\ pc = "in"
    /\ ses' = [ses EXCEPT !.B.free = @ + 1]
    /\ pc' = "back"
    /\ UNCHANGED <<todo, pkt, ticking, lossy>>

Drop ==
    /\ pc = "wire" /\ lossy
    /\ pc' = "back"
    /\ UNCHANGED <<ses, todo, pkt, ticking, lossy>>

\* After transmit_ in tick's loop: touch.
Resent ==
    /\ pc = "back" /\ todo # <<>>
    /\ ses' = [ses EXCEPT !.A.slots[Head(todo) % Window].due = FALSE]
    /\ todo' = Tail(todo) /\ pkt' = NoPacket
    /\ pc' = "loop"
    /\ UNCHANGED <<ticking, lossy>>

\* After transmit_ in pump_tx's loop.
Pumped ==
    /\ pc = "back" /\ todo = <<>>
    /\ ses' = [ses EXCEPT !.A.sent = @ + pkt.len, !.A.next = AddSeq(@, 1),
                          !.A.pkts = @ + 1]
    /\ pkt' = NoPacket
    /\ pc' = "loop"
    /\ UNCHANGED <<todo, ticking, lossy>>

\* B.tick, which has nothing to resend or to pump, transmits its ACK: deliver
\* takes a buffer of A's pool, which A.on_packet_received holds to its end.
\* If the ACK is news, A releases what it covers and calls pump_tx.
TickB ==
    /\ Idle /\ ses.B.ack /\ ses.A.free > 0
    /\ \E a \in {[ses.A EXCEPT !.free = @ - 1]}, ack \in {CumulativeAck(ses.B)} :
          \/ /\ AckIsNew(a, ack)
             /\ ses' = [ses EXCEPT !.A = OnAck(a, ack)]
             /\ pc' = "loop"
          \/ /\ ~AckIsNew(a, ack)
             /\ ses' = [ses EXCEPT !.A = a]
             /\ pc' = "acked"
    /\ ticking' = TRUE
    /\ UNCHANGED <<todo, pkt, lossy>>

\* The end of A.on_packet_received; the ACK has no payload.
Acknowledged ==
    /\ pc = "acked"
    /\ ses' = [ses EXCEPT !.A.free = @ + 1]
    /\ pc' = "ticked"
    /\ UNCHANGED <<todo, pkt, ticking, lossy>>

\* B.tick clears pending_ack_, whatever it is by now.
TickEnds ==
    /\ pc = "ticked"
    /\ ses' = [ses EXCEPT !.B.ack = FALSE]
    /\ pc' = "idle" /\ ticking' = FALSE
    /\ UNCHANGED <<todo, pkt, lossy>>

Heal == lossy /\ lossy' = FALSE /\ UNCHANGED <<ses, pc, todo, pkt, ticking>>

\* The steps of a call that has begun.
Inside ==
    \/ Resend \/ Pump \/ PumpEnds
    \/ Arrive \/ Return \/ Resent \/ Pumped
    \/ Acknowledged \/ TickEnds

Next ==
    \/ \E n \in Chunks : Send(n)
    \/ \E i \in Slots : Timeout(i)
    \/ TickA \/ TickB
    \/ Inside \/ Drop
    \/ Heal

\* Calls return, the tests' loops tick both sessions in turn, time passes.
Spec ==
    /\ Init /\ [][Next]_vars
    /\ WF_vars(Inside)
    /\ SF_vars(TickA) /\ SF_vars(TickB)
    /\ \A i \in Slots : SF_vars(Timeout(i))
----------------------------------------------------------------------------
\* The packet in transmit_ is one that A has not yet counted.
Uncounted == pc \in {"wire", "in", "back"} /\ todo = <<>>

\* Re-entered or not, the sessions keep their promise ("A reliable, ordered
\* datagram protocol", tcp_lite.h:21): B's callback gets A's bytes in order,
\* each once, and none that A has not transmitted, although it gets them
\* before bytes_sent_ counts them.
SyncInOrder ==
    /\ Contiguous(ses.B.stream)
    /\ End(ses.B.stream) <= ses.A.sent + IF Uncounted THEN pkt.len ELSE 0

\* A buffer of A's pool is free, in one slot, or holds the ACK that B.tick is
\* delivering, although pump_tx fills the slots which that ACK emptied before
\* its own buffer goes back; B's is free but inside on_packet_received.
SyncBuffers ==
    /\ ses.A.free + Cardinality(Used(ses.A))
         + (IF ticking /\ pc # "ticked" THEN 1 ELSE 0) = PoolSize
    /\ ses.B.free + (IF pc = "in" THEN 1 ELSE 0) = PoolSize

\* The packets from una on, and no others, are each in the slot of their
\* number, so that a timer is left to run out for each: the one in transmit_
\* too, which next_seq_ does not count yet.
SyncSlots ==
    \E n \in {InFlight(ses.A) + IF Uncounted THEN 1 ELSE 0} :
        /\ Cardinality(Used(ses.A)) = n
        /\ \A k \in 0..(n - 1) : \E seq \in {AddSeq(ses.A.una, k)} :
              /\ seq % Window \in Used(ses.A)
              /\ ses.A.slots[seq % Window].pkt.seq = seq

\* What tick's loop still has to resend has not left its slot meanwhile.
StillInSlots ==
    \A k \in DOMAIN todo :
        /\ todo[k] % Window \in Used(ses.A)
        /\ ses.A.slots[todo[k] % Window].pkt.seq = todo[k]

\* deliver() finds a buffer whenever it is called ("delivery pool exhausted",
\* test_tcp_lite.cpp:45), with a pool larger than the window as in the tests.
DeliveryHasBuffer ==
    /\ PoolSize > Window /\ Idle => ses.A.free > 0
    /\ pc = "wire" => ses.B.free > 0

\* What a call into one session does to the other inside it breaks neither
\* the order of the bytes nor the bookkeeping of the buffers, at any point of
\* the nested calls (tcp_lite.cpp:230-233, 260, 306-307).
SyncSafe ==
    SyncInOrder /\ SyncBuffers /\ SyncSlots /\ StillInSlots /\ DeliveryHasBuffer

\* What the loops of the tests wait for (test_tcp_lite.cpp:85 "no progress",
\* :119 "stalled under loss"): once the wire drops nothing more, all that A
\* sent arrives and is acknowledged.  It is the retransmission timer that
\* brings this about when tick forgets an acknowledgement.
SyncDelivered == <>~lossy => []<>SettledWith(ses.A, ses.B)

\* "no delayed-ACK batching beyond one tick" (tcp_lite.h:33): between two
\* calls, what B has received is acknowledged or is to be at its next tick.
AckWithinOneTick == Idle => ses.B.ack \/ ses.A.una = CumulativeAck(ses.B)
============================================================================
