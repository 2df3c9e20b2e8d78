------------------------------ MODULE TcpLite ------------------------------
(***************************************************************************)
(* Two TcpLiteSession objects (src/tcp_lite.cpp) joined by UDP, each with  *)
(* a buffer pool of its own, driven the way final_benchmark.cpp drives     *)
(* them: a loop that drains the socket into pool buffers, hands each to    *)
(* on_packet_received and calls tick.  UDP may lose, duplicate, reorder    *)
(* and delay; a transmit never re-enters a session.                        *)
(***************************************************************************)
EXTENDS TcpLiteSession

CONSTANTS
    MaxBytes,     \* bound: bytes the application of A, of B sends
    Chunks,       \* bound: the sizes of one send()
    MaxLag,       \* bound on delay: see Fresh
    Closers       \* the sessions that may be destroyed

ASSUME TcpAssumption ==
    /\ MaxLag \in Nat /\ Closers \subseteq Sessions
    /\ MaxBytes \in [Sessions -> Nat] /\ Chunks \subseteq Nat \ {0}

\* No datagram is older than half the range of the sequence numbers, beyond
\* which a signed difference takes an old number for a new one.
ASSUME LagAssumption == MaxLag <= SeqMod \div 2

VARIABLES
    ses,      \* the two sessions
    net,      \* the datagrams in flight
    lossy     \* the network may still lose datagrams

vars == <<ses, net, lossy>>

Init ==
    /\ ses = [e \in Sessions |-> NewSession]
    /\ net = {}
    /\ lossy = TRUE

\* The delay of the network is bounded: a datagram is gone by the time its
\* sender has made more than MaxLag later packets, or has delivered more
\* than MaxLag packets since it wrote the ack into it.
Fresh(s, p) ==
    /\ Len(s.stream) - p.pos <= MaxLag
    /\ s.pkts - p.num <= MaxLag

\* The end of every handler: the session's new state, and its transmissions.
\* (A handler binds the session after each of its steps, in the code's order,
\* with \E over a singleton.)
Become(e, s, kept) ==
    /\ ses' = [ses EXCEPT ![e] = [s EXCEPT !.out = {}]]
    /\ net' = {p \in kept \cup s.out : p.dst = e \/ Fresh(s, p)}
    /\ UNCHANGED lossy

\* TcpLiteSession::send
Send(e, n) ==
    /\ ses[e].open
    /\ ses[e].given + n <= MaxBytes[e]
    /\ \E s \in {[ses[e] EXCEPT !.given = @ + n]} :
       \E t \in {PumpTx(e, s)} : Become(e, t, net)

\* The rto of an unacknowledged packet runs out.
Timeout(e, i) ==
    /\ ses[e].open
    /\ ses[e].slots[i].used /\ ~ses[e].slots[i].due
    /\ ses' = [ses EXCEPT ![e].slots[i].due = TRUE]
    /\ UNCHANGED <<net, lossy>>

Tick(e) ==
    /\ ses[e].open
    /\ \E s \in {Retransmit(ses[e])} :
       \E t \in {PumpTx(e, s)} :
       \E u \in {SendAck(e, t)} : Become(e, u, net)

Close(e) ==
    /\ e \in Closers /\ ses[e].open
    /\ ses' = [ses EXCEPT ![e] = [ReleaseAll(@) EXCEPT !.open = FALSE]]
    /\ UNCHANGED <<net, lossy>>

\* The driver has read datagram p from the socket.  It copies it into a
\* buffer of the pool and calls on_packet_received, which gives the buffer
\* back at the end; with no buffer left the datagram is gone.
Handle(p, kept) ==
    \E s \in {[ses[p.dst] EXCEPT !.free = @ - 1]} :
    \E t \in {IF AckIsNew(s, p.ack) THEN OnAck(s, p.ack) ELSE s} :
    \E u \in {IF AckIsNew(s, p.ack) THEN PumpTx(p.dst, t) ELSE t} :
    \E v \in {IF p.len > 0 THEN OnData(u, p) ELSE u} :
    \E w \in {IF p.len > 0 THEN DeliverInOrder(v) ELSE v} :
        Become(p.dst, [w EXCEPT !.free = @ + 1], kept)

Deliver(p) ==
    /\ ses[p.dst].open /\ ses[p.dst].free > 0
    /\ Handle(p, net \ {p})

Duplicate(p) ==
    /\ ses[p.dst].open /\ ses[p.dst].free > 0
    /\ Handle(p, net)

DropNoBuffer(p) ==
    /\ ses[p.dst].open /\ ses[p.dst].free = 0
    /\ net' = net \ {p} /\ UNCHANGED <<ses, lossy>>

\* UDP loses a datagram, or the checksum fails and on_packet_received drops it.
Lose(p) ==
    /\ lossy
    /\ net' = net \ {p} /\ UNCHANGED <<ses, lossy>>

\* From some moment on the network may lose nothing more.
Heal == lossy /\ lossy' = FALSE /\ UNCHANGED <<ses, net>>

Next ==
    \/ \E e \in Sessions, n \in Chunks : Send(e, n)
    \/ \E e \in Sessions, i \in Slots : Timeout(e, i)
    \/ \E e \in Sessions : Tick(e)
    \/ \E e \in Sessions : Close(e)
    \/ \E p \in net : Deliver(p)
    \/ \E p \in net : Duplicate(p)
    \/ \E p \in net : DropNoBuffer(p)
    \/ \E p \in net : Lose(p)
    \/ Heal

Spec == Init /\ [][Next]_vars
\* The driver's loop and the timers go on; what is in the socket is read, no
\* packet of the window being starved by the others.
Read(p) == Deliver(p) \/ DropNoBuffer(p)

Fairness ==
    \A e \in Sessions :
        /\ WF_vars(Tick(e))
        /\ \A i \in Slots : WF_vars(Timeout(e, i))
        /\ WF_vars(\E p \in net : p.dst = e /\ p.len = 0 /\ Read(p))
        /\ \A i \in Slots :
              WF_vars(\E p \in net : /\ p.dst = e /\ p.len > 0 /\ p.seq % Window = i
                                     /\ Read(p))

FairSpec == Spec /\ Fairness
----------------------------------------------------------------------------
SeqNums == 0..(SeqMod - 1)
Packets ==
    [dst : Sessions, seq : SeqNums, ack : SeqNums, off : Nat, len : 0..MaxPayload,
     num : Nat, pos : Nat]

\* Every field keeps its range: sequence numbers stay in 32 bits, the pool
\* never hands out more buffers than it has, between two handlers nothing is
\* left to transmit.
TypeOK ==
    /\ net \subseteq Packets /\ lossy \in BOOLEAN
    /\ \A e \in Sessions :
        LET s == ses[e] IN
        /\ s.next \in SeqNums /\ s.una \in SeqNums /\ s.base \in SeqNums
        /\ s.given \in Nat /\ s.sent \in 0..s.given /\ s.pkts \in Nat
        /\ \A i \in Slots : s.slots[i] # Free =>
              s.slots[i].pkt \in Packets /\ s.slots[i].due \in BOOLEAN
        /\ s.rcvd \subseteq Slots
        /\ \A i \in Slots : s.reasm[i] \in [off : Nat, len : 0..MaxPayload]
        /\ s.free \in 0..PoolSize
        /\ s.ack \in BOOLEAN /\ s.open \in BOOLEAN /\ s.out = {}

\* "A reliable, ordered datagram protocol" (tcp_lite.h:21): the data callback
\* gets the bytes the peer gave to send, each once, in order, with no gap,
\* whatever the network loses, duplicates or reorders, and whether or not the
\* sequence numbers have wrapped.
InOrder ==
    \A e \in Sessions :
        Contiguous(ses[e].stream) /\ End(ses[e].stream) <= ses[Peer(e)].sent

\* A packet leaves the unacknowledged queue only after the peer's application
\* has it, and the peer never runs ahead of the sender: with una and next
\* counted from the start, una <= packets delivered by the peer <= next, and
\* the sender is never more than a window ahead of una.
WindowsAgree ==
    \A e \in Sessions :
        LET s == ses[e]
            d == Len(ses[Peer(e)].stream)
        IN  /\ s.pkts - InFlight(s) <= d /\ d <= s.pkts
            /\ InFlight(s) <= Window
            /\ s.next = s.pkts % SeqMod
            /\ ses[Peer(e)].base = d % SeqMod

\* mark_sent says of an occupied slot "shouldn't happen in-window": the
\* occupied slots are exactly those of the packets from una up to next, each
\* holding its own packet, so a new packet always finds its slot free.
SlotsMatchWindow ==
    \A e \in Sessions : ses[e].open =>
        LET s == ses[e] IN
        /\ Used(s) = {(s.una + k) % Window : k \in 0..(InFlight(s) - 1)}
        /\ \A k \in 0..(InFlight(s) - 1) :
              s.slots[(s.una + k) % Window].pkt.seq = (s.una + k) % SeqMod

\* What waits in the reassembly buffer beyond a gap is still in the sender's
\* queue, byte for byte: a sequence number never brings in another packet's
\* payload, and reasm_ is never overwritten by a packet a window away.
ReassemblyMatchesSender ==
    \A e \in Sessions :
        LET r == ses[e]
            s == ses[Peer(e)]
        IN  s.open => \A d \in r.rcvd :
              LET i == (r.base + d) % Window
              IN  /\ s.slots[i].used
                  /\ s.slots[i].pkt.seq = (r.base + d) % SeqMod
                  /\ r.reasm[i] = [off |-> s.slots[i].pkt.off, len |-> s.slots[i].pkt.len]

\* Each buffer of a session's pool is free or in one slot of its
\* unacknowledged queue: acknowledgements, duplicate or late, a retransmission
\* and the destructor release each buffer once.
PoolConserved ==
    \A e \in Sessions : ses[e].free + Cardinality(Used(ses[e])) = PoolSize

\* Neither end moves back: a late or duplicate packet never lowers snd_una_
\* or the receive base, and no step moves either by more than a window.
NoRetreat ==
    [][\A e \in Sessions :
          /\ SignedDiff(ses'[e].una, ses[e].una) \in 0..Window
          /\ SignedDiff(ses'[e].base, ses[e].base) \in 0..Window]_vars

\* Reliability as liveness: once the network stops losing datagrams, all the
\* bytes given to send are delivered, acknowledged, and their buffers free.
AllDelivered ==
    <>~lossy => []<>(\A e \in Sessions : SettledWith(ses[e], ses[Peer(e)]))
============================================================================
