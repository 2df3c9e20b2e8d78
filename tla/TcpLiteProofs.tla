--------------------------- MODULE TcpLiteProofs ---------------------------
(***************************************************************************)
(* For any window, any width of the sequence numbers more than two windows  *)
(* wide, any payload and pool size and any number of bytes: two sessions on *)
(* a network that loses, duplicates, reorders and delays deliver what was   *)
(* sent, once and in order, and give every buffer back once.                *)
(***************************************************************************)
EXTENDS TcpSessionProofs

(***************************************************************************)
(* Both sessions and the network.  What is received is what the other one   *)
(* has made; what is acknowledged has been delivered there.                 *)
(***************************************************************************)
EndOK(e, ss, H, U) ==
    /\ Sender(e, ss[e], H[e], U[e], PoolSize)
    /\ ss[e].out = {} /\ 0 \notin ss[e].rcvd
    /\ Receiver(ss[e], H[Peer(e)], ss[Peer(e)].pkts)
    /\ U[e] <= Len(ss[Peer(e)].stream)

OnTheWay(ss, H, p) ==
    /\ p.dst \in Sessions
    /\ PacketOK(Peer(p.dst), ss[Peer(p.dst)], H[Peer(p.dst)], p)
    /\ Fresh(ss[Peer(p.dst)], p)

StateOK(ss, nt, H, U) ==
    /\ ss \in [Sessions -> SessionStates]
    /\ \A e \in Sessions : EndOK(e, ss, H, U)
    /\ \A p \in nt : OnTheWay(ss, H, p)

TcpInv == \E H, U : StateOK(ses, net, H, U) /\ lossy \in BOOLEAN

\* A step moves the acknowledgements and the deliveries on by a window at most.
Advances(ss, U, ss2, U2) ==
    \A e \in Sessions :
        /\ U2[e] - U[e] \in 0..Window
        /\ Len(ss2[e].stream) - Len(ss[e].stream) \in 0..Window

Progress(ss, U, ss2, nt2) ==
    \E H2, U2 : StateOK(ss2, nt2, H2, U2) /\ Advances(ss, U, ss2, U2)

LEMMA Peers ==
  ASSUME NEW e \in Sessions
  PROVE  /\ Peer(e) \in Sessions /\ Peer(Peer(e)) = e /\ Peer(e) # e
         /\ \A x \in Sessions : x = e \/ x = Peer(e)
BY Zenon DEF Peer, Sessions

LEMMA NoMove ==
  ASSUME NEW a \in Nat
  PROVE  a - a \in 0..Window
BY Constants

(* The end of a handler: one session has changed and its transmissions are  *)
(* on the network.                                                          *)
Handled(ss, H, U, e, t, h2, u2) ==
    /\ Sender(e, t, h2, u2, PoolSize) /\ Grows(ss[e], H[e], t, h2) /\ 0 \notin t.rcvd
    /\ Receiver(t, H[Peer(e)], ss[Peer(e)].pkts) /\ u2 <= Len(ss[Peer(e)].stream)
    /\ u2 - U[e] \in 0..Window /\ Len(t.stream) - Len(ss[e].stream) \in 0..Window

Becomes(ss, e, t, kept, ss2, nt2) ==
    /\ ss2 = [ss EXCEPT ![e] = [t EXCEPT !.out = {}]]
    /\ nt2 = {p \in kept \cup t.out : p.dst = e \/ Fresh(t, p)}

LEMMA BecomeKeeps ==
  ASSUME NEW ss, NEW nt, NEW H, NEW U, StateOK(ss, nt, H, U),
         NEW e \in Sessions, NEW t, NEW h2, NEW u2, NEW kept \in SUBSET nt,
         Handled(ss, H, U, e, t, h2, u2), NEW ss2, NEW nt2, Becomes(ss, e, t, kept, ss2, nt2)
  PROVE  Progress(ss, U, ss2, nt2)
<1> USE DEF Handled, Becomes
<1> DEFINE o == Peer(e)
           t1 == [t EXCEPT !.out = {}]
           H2 == [x \in Sessions |-> IF x = e THEN h2 ELSE H[x]]
           U2 == [x \in Sessions |-> IF x = e THEN u2 ELSE U[x]]
<1>1. o \in Sessions /\ Peer(o) = e /\ o # e /\ (\A x \in Sessions : x = e \/ x = o)
  BY Zenon, Peers
<1>2. ss \in [Sessions -> SessionStates] /\ EndOK(e, ss, H, U) /\ EndOK(o, ss, H, U)
  BY Zenon, <1>1 DEF StateOK
<1>3. t \in SessionStates
  BY Zenon DEF Sender
<1>4. /\ t1 \in SessionStates /\ t1.out = {} /\ t1.slots = t.slots /\ t1.free = t.free
      /\ t1.una = t.una /\ t1.given = t.given /\ t1.sent = t.sent /\ t1.next = t.next
      /\ t1.base = t.base /\ t1.rcvd = t.rcvd /\ t1.reasm = t.reasm /\ t1.pkts = t.pkts
      /\ t1.stream = t.stream /\ t1.open = t.open
  BY Zenon, <1>3 DEF SessionStates
<1>5. ss2[e] = t1 /\ ss2[o] = ss[o] /\ ss2 \in [Sessions -> SessionStates]
  BY Zenon, <1>1, <1>2, <1>4
<1>6. H2[e] = h2 /\ H2[o] = H[o] /\ U2[e] = u2 /\ U2[o] = U[o]
  BY Zenon, <1>1
<1> HIDE DEF o, t1, H2, U2
<1>7. Sender(e, t1, h2, u2, PoolSize)
  <2>1. /\ PoolSize \in Nat /\ PoolSize - PoolSize = t1.free - t.free /\ t.given <= t1.given
        /\ Len(t.stream) <= Len(t1.stream) /\ t1.out \subseteq t.out
    <3>1. t.free \in Nat /\ t.given \in Nat /\ Len(t.stream) \in Nat
      BY <1>3 DEF SessionStates
    <3> QED BY SMTT(30), <1>4, <3>1, Constants
  <2>2. SameSender(t, t1)
    BY Zenon, <1>4, <2>1 DEF SameSender
  <2> QED BY Zenon, <1>4, <2>1, <2>2, SenderStays
<1>8. Grows(ss[e], H[e], t1, h2)
  BY Zenon, <1>4 DEF Grows
<1>9. Receiver(t1, H[o], ss[o].pkts)
  <2>1. SameReceiver(t, t1)
    BY Zenon, <1>4 DEF SameReceiver
  <2>2. Receiver(t, H[o], ss[o].pkts)
    BY DEF o
  <2> QED BY Zenon, <2>1, <2>2, ReceiverSame
<1>10. EndOK(e, ss2, H2, U2)
  <2>1. u2 <= Len(ss[o].stream)
    BY Zenon DEF o
  <2> QED BY Zenon, <1>4, <1>5, <1>6, <1>7, <1>9, <2>1 DEF EndOK, o
<1>11. /\ Sender(o, ss[o], H[o], U[o], PoolSize) /\ ss[o].out = {} /\ 0 \notin ss[o].rcvd
       /\ Receiver(ss[o], H[e], ss[e].pkts) /\ U[o] <= Len(ss[e].stream)
  BY Zenon, <1>1, <1>2 DEF EndOK
<1>12. /\ ss[e] \in SessionStates /\ ss[o] \in SessionStates /\ ss[e].pkts \in Nat /\ t1.pkts \in Nat
       /\ Len(ss[e].stream) \in Nat /\ Len(t1.stream) \in Nat /\ U[o] \in Nat
  <2>1. ss[e] \in SessionStates /\ ss[o] \in SessionStates
    BY Zenon, <1>1, <1>2
  <2>2. U[o] \in Nat
    BY Zenon, <1>11 DEF Sender, Counts
  <2>3. \A x \in SessionStates : x.pkts \in Nat /\ Len(x.stream) \in Nat
    BY DEF SessionStates
  <2> QED BY SMTT(30), <1>4, <2>1, <2>2, <2>3
<1>13. Receiver(ss[o], h2, t1.pkts)
  <2>1. ss[e].pkts <= t1.pkts /\ \A i \in 0..(ss[e].pkts - 1) : h2[i] = H[e][i]
    BY Zenon, <1>8 DEF Grows
  <2> QED BY Zenon, <1>11, <1>12, <2>1, ReceiverStays
<1>14. EndOK(o, ss2, H2, U2)
  <2>1. U[o] <= Len(t1.stream)
    BY <1>8, <1>11, <1>12 DEF Grows
  <2> QED BY Zenon, <1>1, <1>5, <1>6, <1>11, <1>13, <2>1 DEF EndOK
<1>15. \A p : Fresh(t, p) => Fresh(t1, p)
  BY Zenon, <1>4 DEF Fresh
<1>16. ASSUME NEW p \in nt2 PROVE OnTheWay(ss2, H2, p)
  <2>1. p \in kept \cup t.out /\ (p.dst = e \/ Fresh(t, p))
    OBVIOUS
  <2>2. CASE p.dst = e
    <3>1. p \in kept
      <4>1. \A a \in t.out : a.dst = o
        BY Zenon DEF Sender, PacketOK, o
      <4> QED BY Zenon, <1>1, <2>1, <2>2, <4>1
    <3>2. OnTheWay(ss, H, p)
      BY Zenon, <3>1 DEF StateOK
    <3> QED BY Zenon, <1>1, <1>5, <1>6, <2>2, <3>2 DEF OnTheWay, o
  <2>3. CASE p.dst # e
    <3>1. CASE p \in kept
      <4>1. OnTheWay(ss, H, p)
        BY Zenon, <3>1 DEF StateOK
      <4>2. p.dst = o
        BY Zenon, <1>1, <2>3, <4>1 DEF OnTheWay
      <4>3. PacketOK(e, ss[e], H[e], p)
        BY <1>1, <4>1, <4>2 DEF OnTheWay
      <4>4. PacketOK(e, t1, h2, p)
        BY Zenon, <1>4, <1>8, <1>12, <4>3, PacketStaysOK
      <4> QED BY Zenon, <1>1, <1>5, <1>6, <1>15, <2>1, <2>3, <4>2, <4>4 DEF OnTheWay
    <3>2. CASE p \in t.out
      <4>1. PacketOK(e, t, h2, p)
        BY Zenon, <3>2 DEF Sender
      <4>2. PacketOK(e, t1, h2, p) /\ p.dst = o
        BY Zenon, <1>4, <4>1 DEF PacketOK, o
      <4> QED BY Zenon, <1>1, <1>5, <1>6, <1>15, <2>1, <2>3, <4>2 DEF OnTheWay
    <3> QED BY Zenon, <2>1, <3>1, <3>2
  <2> QED BY Zenon, <2>2, <2>3
<1>17. StateOK(ss2, nt2, H2, U2)
  BY Zenon, <1>1, <1>5, <1>10, <1>14, <1>16 DEF StateOK
<1>18. Advances(ss, U, ss2, U2)
  <2>1. u2 - U[e] \in 0..Window /\ Len(t1.stream) - Len(ss[e].stream) \in 0..Window
    BY Zenon, <1>4
  <2>2. U[o] - U[o] \in 0..Window /\ Len(ss[o].stream) - Len(ss[o].stream) \in 0..Window
    <3>1. Len(ss[o].stream) \in Nat
      BY <1>12 DEF SessionStates
    <3> QED BY Zenon, <1>12, <3>1, NoMove
  <2> SUFFICES ASSUME NEW x \in Sessions
               PROVE  /\ U2[x] - U[x] \in 0..Window
                      /\ Len(ss2[x].stream) - Len(ss[x].stream) \in 0..Window
    BY Zenon DEF Advances
  <2>3. CASE x = e
    BY Zenon, <1>5, <1>6, <2>1, <2>3
  <2>4. CASE x = o
    BY Zenon, <1>5, <1>6, <2>2, <2>4
  <2> QED BY Zenon, <1>1, <2>3, <2>4
<1> QED BY Zenon, <1>17, <1>18 DEF Progress

LEMMA GrowsOn ==
  ASSUME NEW s \in SessionStates, NEW t \in SessionStates, NEW v \in SessionStates,
         NEW h, NEW h2, NEW h3, Grows(s, h, t, h2), Grows(t, h2, v, h3)
  PROVE  Grows(s, h, v, h3)
<1>1. \A x \in SessionStates : x.pkts \in Nat /\ Len(x.stream) \in Nat
  BY DEF SessionStates
<1>2. s.pkts <= v.pkts /\ Len(s.stream) <= Len(v.stream)
  BY <1>1 DEF Grows
<1>3. ASSUME NEW i \in 0..(s.pkts - 1) PROVE h3[i] = h[i]
  <2>1. i \in 0..(t.pkts - 1)
    BY <1>1 DEF Grows
  <2> QED BY Zenon, <2>1 DEF Grows
<1> QED BY Zenon, <1>2, <1>3 DEF Grows

(* What holds of one session between two handlers. *)
LEMMA SessionFacts ==
  ASSUME NEW ss, NEW nt, NEW H, NEW U, StateOK(ss, nt, H, U), NEW e \in Sessions
  PROVE  /\ ss[e] \in SessionStates /\ Sender(e, ss[e], H[e], U[e], PoolSize)
         /\ ss[e].out = {} /\ 0 \notin ss[e].rcvd
         /\ Receiver(ss[e], H[Peer(e)], ss[Peer(e)].pkts)
         /\ ss[e].base = Len(ss[e].stream) % SeqMod
         /\ U[e] <= Len(ss[Peer(e)].stream) /\ U[e] \in Nat
         /\ U[e] - U[e] \in 0..Window /\ Len(ss[e].stream) \in Nat
         /\ Len(ss[e].stream) - Len(ss[e].stream) \in 0..Window
         /\ ss[e].pkts \in Nat /\ ss[e].free \in Nat /\ ss[e].given \in Nat
<1>1. EndOK(e, ss, H, U) /\ ss[e] \in SessionStates
  BY Zenon DEF StateOK
<1>2. /\ Sender(e, ss[e], H[e], U[e], PoolSize) /\ ss[e].out = {} /\ 0 \notin ss[e].rcvd
      /\ Receiver(ss[e], H[Peer(e)], ss[Peer(e)].pkts) /\ U[e] <= Len(ss[Peer(e)].stream)
  BY Zenon, <1>1 DEF EndOK
<1>3. U[e] \in Nat /\ ss[e].base = Len(ss[e].stream) % SeqMod
  BY Zenon, <1>2 DEF Sender, Counts, Receiver
<1>4. Len(ss[e].stream) \in Nat /\ ss[e].pkts \in Nat /\ ss[e].free \in Nat /\ ss[e].given \in Nat
  BY <1>1 DEF SessionStates
<1>5. U[e] - U[e] \in 0..Window /\ Len(ss[e].stream) - Len(ss[e].stream) \in 0..Window
  BY Zenon, <1>3, <1>4, NoMove
<1> QED BY SMTT(30), <1>1, <1>2, <1>3, <1>4, <1>5

LEMMA SendStep ==
  ASSUME NEW H, NEW U, StateOK(ses, net, H, U), NEW e \in Sessions, NEW c \in Chunks, Send(e, c)
  PROVE  Progress(ses, U, ses', net')
<1> DEFINE s == [ses[e] EXCEPT !.given = @ + c]
           t == PumpTx(e, s)
           h2 == PumpMade(s, H[e])
<1>1. Become(e, t, net)
  BY Zenon DEF Send
<1>2. /\ ses[e] \in SessionStates /\ Sender(e, ses[e], H[e], U[e], PoolSize)
      /\ 0 \notin ses[e].rcvd
      /\ Receiver(ses[e], H[Peer(e)], ses[Peer(e)].pkts)
      /\ ses[e].base = Len(ses[e].stream) % SeqMod
      /\ U[e] <= Len(ses[Peer(e)].stream) /\ U[e] - U[e] \in 0..Window
      /\ Len(ses[e].stream) - Len(ses[e].stream) \in 0..Window
      /\ ses[e].given \in Nat /\ ses[e].free \in Nat /\ Len(ses[e].stream) \in Nat
  BY Zenon, SessionFacts
<1>3. ses[e].given + c \in Nat /\ ses[e].given <= ses[e].given + c /\ PoolSize \in Nat
  <2>1. \A n \in Nat : n + c \in Nat /\ n <= n + c
    BY TcpAssumption
  <2>2. PoolSize \in Nat
    BY Constants
  <2> QED BY Zenon, <1>2, <2>1, <2>2
<1>4. /\ s \in SessionStates /\ s.given = ses[e].given + c
      /\ s.out = ses[e].out /\ s.slots = ses[e].slots /\ s.free = ses[e].free
      /\ s.una = ses[e].una /\ s.sent = ses[e].sent /\ s.next = ses[e].next
      /\ s.base = ses[e].base /\ s.rcvd = ses[e].rcvd /\ s.reasm = ses[e].reasm
      /\ s.pkts = ses[e].pkts /\ s.stream = ses[e].stream /\ s.open = ses[e].open
  BY Zenon, <1>2, <1>3 DEF SessionStates
<1> HIDE DEF s
<1>5. Sender(e, s, H[e], U[e], PoolSize) /\ Grows(ses[e], H[e], s, H[e])
  <2>1. /\ PoolSize - PoolSize = s.free - ses[e].free /\ s.out \subseteq ses[e].out
        /\ Len(ses[e].stream) <= Len(s.stream)
    BY <1>2, <1>3, <1>4
  <2>2. SameSender(ses[e], s)
    BY Zenon, <1>3, <1>4, <2>1 DEF SameSender
  <2> QED BY Zenon, <1>2, <1>3, <1>4, <2>1, <2>2, SenderStays
<1>6. Sender(e, t, h2, U[e], PoolSize) /\ SameReceiver(s, t) /\ Grows(s, H[e], t, h2)
  BY Zenon, <1>2, <1>3, <1>4, <1>5, PumpKeeps
<1> HIDE DEF t, h2
<1>7. t \in SessionStates
  BY Zenon, <1>6 DEF Sender
<1>8. Grows(ses[e], H[e], t, h2)
  BY <1>2, <1>4, <1>5, <1>6, <1>7, GrowsOn
<1>9. SameReceiver(ses[e], t)
  BY Zenon, <1>4, <1>6 DEF SameReceiver
<1>10. /\ Receiver(t, H[Peer(e)], ses[Peer(e)].pkts) /\ 0 \notin t.rcvd
       /\ Len(t.stream) - Len(ses[e].stream) \in 0..Window
  BY <1>2, <1>9, ReceiverSame DEF SameReceiver
<1>11. Becomes(ses, e, t, net, ses', net')
  BY Zenon, <1>1 DEF Become, Becomes
<1>12. Handled(ses, H, U, e, t, h2, U[e]) /\ net \in SUBSET net
  BY Zenon, <1>2, <1>6, <1>8, <1>10 DEF Handled
<1> QED BY Zenon, <1>11, <1>12, BecomeKeeps

LEMMA TickStep ==
  ASSUME NEW H, NEW U, StateOK(ses, net, H, U), NEW e \in Sessions, Tick(e)
  PROVE  Progress(ses, U, ses', net')
<1> DEFINE s == Retransmit(ses[e])
           t == PumpTx(e, s)
           v == SendAck(e, t)
           h2 == PumpMade(s, H[e])
<1>1. Become(e, v, net)
  BY Zenon DEF Tick
<1>2. /\ ses[e] \in SessionStates /\ Sender(e, ses[e], H[e], U[e], PoolSize)
      /\ 0 \notin ses[e].rcvd
      /\ Receiver(ses[e], H[Peer(e)], ses[Peer(e)].pkts)
      /\ ses[e].base = Len(ses[e].stream) % SeqMod
      /\ U[e] <= Len(ses[Peer(e)].stream) /\ U[e] - U[e] \in 0..Window
      /\ Len(ses[e].stream) - Len(ses[e].stream) \in 0..Window
  BY Zenon, SessionFacts
<1>3. PoolSize \in Nat
  BY Zenon, Constants
<1>4. Sender(e, s, H[e], U[e], PoolSize) /\ SameReceiver(ses[e], s) /\ Grows(ses[e], H[e], s, H[e])
  BY Zenon, <1>2, <1>3, RetransmitKeeps
<1> HIDE DEF s
<1>5. s.base = Len(s.stream) % SeqMod /\ 0 \notin s.rcvd
  BY <1>2, <1>4 DEF SameReceiver
<1>6. Sender(e, t, h2, U[e], PoolSize) /\ SameReceiver(s, t) /\ Grows(s, H[e], t, h2)
  BY Zenon, <1>3, <1>4, <1>5, PumpKeeps
<1> HIDE DEF t, h2
<1>7. t.base = Len(t.stream) % SeqMod /\ 0 \notin t.rcvd
  BY <1>5, <1>6 DEF SameReceiver
<1>8. Sender(e, v, h2, U[e], PoolSize) /\ SameReceiver(t, v) /\ Grows(t, h2, v, h2)
  BY Zenon, <1>3, <1>6, <1>7, SendAckKeeps
<1> HIDE DEF v
<1>9. s \in SessionStates /\ t \in SessionStates /\ v \in SessionStates
  BY <1>4, <1>6, <1>8 DEF Sender
<1>10. Grows(ses[e], H[e], v, h2)
  <2>1. Grows(ses[e], H[e], t, h2)
    BY Zenon, <1>2, <1>4, <1>6, <1>9, GrowsOn
  <2> QED BY Zenon, <1>2, <1>8, <1>9, <2>1, GrowsOn
<1>11. SameReceiver(ses[e], v)
  BY Zenon, <1>4, <1>6, <1>8 DEF SameReceiver
<1>12. /\ Receiver(v, H[Peer(e)], ses[Peer(e)].pkts) /\ 0 \notin v.rcvd
       /\ Len(v.stream) - Len(ses[e].stream) \in 0..Window
  BY Zenon, <1>2, <1>11, ReceiverSame DEF SameReceiver
<1>13. Becomes(ses, e, v, net, ses', net')
  BY Zenon, <1>1 DEF Become, Becomes
<1>14. Handled(ses, H, U, e, v, h2, U[e]) /\ net \in SUBSET net
  BY Zenon, <1>2, <1>8, <1>10, <1>12 DEF Handled
<1> QED BY Zenon, <1>13, <1>14, BecomeKeeps

(* Steps that only take datagrams off the network. *)
LEMMA LossStep ==
  ASSUME NEW H, NEW U, StateOK(ses, net, H, U), ses' = ses, net' \subseteq net
  PROVE  Progress(ses, U, ses', net')
<1>1. StateOK(ses', net', H, U)
  BY Zenon DEF StateOK
<1>2. \A e \in Sessions : U[e] - U[e] \in 0..Window /\ Len(ses[e].stream) - Len(ses[e].stream) \in 0..Window
  BY Zenon, SessionFacts
<1>3. Advances(ses, U, ses', U)
  BY Zenon, <1>2 DEF Advances
<1> QED BY Zenon, <1>1, <1>3 DEF Progress

(* Steps of one session that transmit nothing. *)
LEMMA QuietStep ==
  ASSUME NEW H, NEW U, StateOK(ses, net, H, U), NEW e \in Sessions, NEW t,
         Sender(e, t, H[e], U[e], PoolSize), t.out = {}, t.pkts = ses[e].pkts,
         t.base = ses[e].base, t.rcvd = ses[e].rcvd, t.reasm = ses[e].reasm,
         t.stream = ses[e].stream, ses' = [ses EXCEPT ![e] = t], net' = net
  PROVE  Progress(ses, U, ses', net')
<1>1. /\ ses[e] \in SessionStates /\ 0 \notin ses[e].rcvd
      /\ Receiver(ses[e], H[Peer(e)], ses[Peer(e)].pkts)
      /\ U[e] <= Len(ses[Peer(e)].stream) /\ U[e] - U[e] \in 0..Window
      /\ Len(ses[e].stream) - Len(ses[e].stream) \in 0..Window
      /\ Len(ses[e].stream) \in Nat /\ ses[e].pkts \in Nat
  BY Zenon, SessionFacts
<1>2. t \in SessionStates
  BY Zenon DEF Sender
<1>3. [t EXCEPT !.out = {}] = t
  BY Zenon, <1>2 DEF SessionStates
<1>4. ASSUME NEW p \in net PROVE p.dst = e \/ Fresh(t, p)
  <2>1. OnTheWay(ses, H, p)
    BY Zenon DEF StateOK
  <2>2. p.dst = e \/ Peer(p.dst) = e
    BY Zenon, <2>1, Peers DEF OnTheWay
  <2> QED BY Zenon, <2>1, <2>2 DEF OnTheWay, Fresh
<1>5. net' = {p \in net \cup t.out : p.dst = e \/ Fresh(t, p)}
  BY Zenon, <1>4
<1>6. Becomes(ses, e, t, net, ses', net')
  BY Zenon, <1>3, <1>5 DEF Becomes
<1>7. Grows(ses[e], H[e], t, H[e])
  BY <1>1 DEF Grows
<1>8. Receiver(t, H[Peer(e)], ses[Peer(e)].pkts)
  BY Zenon, <1>1 DEF Receiver
<1>9. Handled(ses, H, U, e, t, H[e], U[e]) /\ net \in SUBSET net
  BY Zenon, <1>1, <1>7, <1>8 DEF Handled
<1> QED BY Zenon, <1>6, <1>9, BecomeKeeps

LEMMA CloseStep ==
  ASSUME NEW H, NEW U, StateOK(ses, net, H, U), NEW e \in Sessions, Close(e)
  PROVE  Progress(ses, U, ses', net')
<1> DEFINE t == [ReleaseAll(ses[e]) EXCEPT !.open = FALSE]
<1>1. Sender(e, ses[e], H[e], U[e], PoolSize) /\ ses[e].out = {} /\ PoolSize \in Nat
  BY Zenon, SessionFacts, Constants
<1>2. /\ Sender(e, t, H[e], U[e], PoolSize) /\ Grows(ses[e], H[e], t, H[e]) /\ t.out = {}
      /\ t.base = ses[e].base /\ t.rcvd = ses[e].rcvd /\ t.reasm = ses[e].reasm
      /\ t.stream = ses[e].stream
  BY Zenon, <1>1, ReleaseKeeps
<1>3. ses' = [ses EXCEPT ![e] = t] /\ net' = net
  BY Zenon DEF Close
<1>4. t.pkts = ses[e].pkts
  <2>1. ses[e] \in SessionStates
    BY Zenon, <1>1 DEF Sender
  <2> QED BY Zenon, <2>1 DEF ReleaseAll, SessionStates
<1> HIDE DEF t
<1> QED BY Zenon, <1>2, <1>3, <1>4, QuietStep

LEMMA TimeoutStep ==
  ASSUME NEW H, NEW U, StateOK(ses, net, H, U), NEW e \in Sessions, NEW i \in Slots, Timeout(e, i)
  PROVE  Progress(ses, U, ses', net')
<1> DEFINE s == ses[e]
           sl == [s.slots EXCEPT ![i] = [s.slots[i] EXCEPT !.due = TRUE]]
           t == [s EXCEPT !.slots = sl]
<1>1. /\ s \in SessionStates /\ Sender(e, s, H[e], U[e], PoolSize) /\ s.out = {}
  BY Zenon, SessionFacts
<1>2. /\ Counts(s, U[e]) /\ Made(s, H[e]) /\ Holds(e, s, H[e], U[e]) /\ Pooled(s, PoolSize)
  BY Zenon, <1>1 DEF Sender
<1>3. ses' = [ses EXCEPT ![e] = t] /\ net' = net /\ s.slots[i].used
  <2>1. ses' = [ses EXCEPT ![e].slots[i].due = TRUE] /\ net' = net /\ ses[e].slots[i].used
    BY Zenon DEF Timeout
  <2> QED BY Zenon, <2>1
<1>4. s.slots[i] \in [used : {TRUE}, due : BOOLEAN, pkt : Packets]
  <2>1. s.slots[i] \in SlotStates /\ s.slots[i] # Free
    BY <1>1, <1>3 DEF SessionStates, Free
  <2> QED BY Zenon, <2>1 DEF SlotStates
<1>5. sl \in [Slots -> SlotStates]
  <2>1. [s.slots[i] EXCEPT !.due = TRUE] \in [used : {TRUE}, due : BOOLEAN, pkt : Packets]
    BY Zenon, <1>4
  <2>2. [s.slots[i] EXCEPT !.due = TRUE] \in SlotStates /\ s.slots \in [Slots -> SlotStates]
    BY Zenon, <1>1, <2>1 DEF SlotStates, SessionStates
  <2> QED BY Zenon, <2>2
<1>6. ASSUME NEW j \in Slots PROVE sl[j].used = s.slots[j].used /\ sl[j].pkt = s.slots[j].pkt
  <2>1. s.slots \in [Slots -> SlotStates]
    BY <1>1 DEF SessionStates
  <2>2. CASE j = i
    <3>1. sl[j] = [s.slots[i] EXCEPT !.due = TRUE]
      BY Zenon, <2>1, <2>2
    <3> HIDE DEF sl
    <3> QED BY Zenon, <1>4, <2>2, <3>1
  <2>3. CASE j # i
    BY Zenon, <2>1, <2>3
  <2> QED BY Zenon, <2>2, <2>3
<1> HIDE DEF s, sl
<1>7. /\ t \in SessionStates /\ t.slots = sl /\ t.out = s.out /\ t.free = s.free /\ t.una = s.una
      /\ t.given = s.given /\ t.sent = s.sent /\ t.next = s.next /\ t.base = s.base
      /\ t.rcvd = s.rcvd /\ t.reasm = s.reasm /\ t.open = s.open
      /\ t.pkts = s.pkts /\ t.stream = s.stream
  BY Zenon, <1>1, <1>5 DEF SessionStates
<1> HIDE DEF t
<1>8. Counts(t, U[e]) /\ Made(t, H[e])
  BY Zenon, <1>2, <1>7 DEF Counts, Made
<1>9. \A p : PacketOK(e, s, H[e], p) => PacketOK(e, t, H[e], p)
  BY <1>7 DEF PacketOK
<1>10. Holds(e, t, H[e], U[e])
  <2>1. \A j \in Slots : t.slots[j].used = s.slots[j].used /\ t.slots[j].pkt = s.slots[j].pkt
    BY Zenon, <1>6, <1>7
  <2>2. \A m \in Int : m % Window \in Slots
    BY Zenon, Constants, ModDef DEF Slots
  <2>3. \A m \in U[e]..(s.pkts - 1) : m % Window \in Slots
    BY <2>2
  <2> QED BY Zenon, <1>2, <1>7, <1>9, <2>1, <2>3 DEF Holds
<1>11. Pooled(t, PoolSize)
  <2>1. Used(t) = Used(s)
    BY Zenon, <1>6, <1>7 DEF Used
  <2> QED BY Zenon, <1>2, <1>7, <2>1 DEF Pooled
<1>12. Sender(e, t, H[e], U[e], PoolSize) /\ t.out = {}
  BY SMTT(30), <1>1, <1>7, <1>8, <1>10, <1>11 DEF Sender
<1> QED BY Zenon, <1>3, <1>7, <1>12, QuietStep DEF s

(* The payload half of on_packet_received. *)
LEMMA PayloadKeeps ==
  ASSUME NEW e, NEW s, NEW h, NEW u, NEW n \in Nat, Sender(e, s, h, u, n),
         NEW g, NEW m \in Nat, Receiver(s, g, m), m - Len(s.stream) <= Window,
         NEW p \in Packets, p.seq = p.num % SeqMod, p.num < m, m - p.num <= MaxLag,
         g[p.num] = [off |-> p.off, len |-> p.len]
  PROVE  LET w == DeliverInOrder(OnData(s, p))
         IN  /\ Sender(e, w, h, u, n) /\ Grows(s, h, w, h) /\ Receiver(w, g, m)
             /\ 0 \notin w.rcvd /\ Len(w.stream) - Len(s.stream) \in 0..Window
<1> DEFINE v == OnData(s, p)
           w == DeliverInOrder(v)
<1>1. s \in SessionStates
  BY Zenon DEF Sender
<1>2. /\ v \in SessionStates /\ Receiver(v, g, m)
      /\ v.given = s.given /\ v.sent = s.sent /\ v.next = s.next /\ v.una = s.una
      /\ v.slots = s.slots /\ v.free = s.free /\ v.out = s.out /\ v.open = s.open
      /\ v.pkts = s.pkts /\ v.stream = s.stream
  BY <1>1, OnDataKeeps
<1> HIDE DEF v
<1>3. /\ w \in SessionStates /\ Receiver(w, g, m) /\ 0 \notin w.rcvd
      /\ Len(w.stream) - Len(v.stream) \in 0..Window
      /\ w.given = v.given /\ w.sent = v.sent /\ w.next = v.next /\ w.una = v.una
      /\ w.slots = v.slots /\ w.free = v.free /\ w.out = v.out /\ w.open = v.open
      /\ w.pkts = v.pkts
  BY Zenon, <1>2, DeliverKeeps
<1> HIDE DEF w
<1>4. Len(w.stream) \in Nat /\ Len(s.stream) \in Nat /\ s.given \in Nat /\ s.free \in Nat
  BY SMTT(30), <1>1, <1>3 DEF SessionStates
<1>5. Len(s.stream) <= Len(w.stream) /\ n - n = w.free - s.free /\ s.given <= w.given
  BY <1>2, <1>3, <1>4
<1>6. SameSender(s, w)
  BY Zenon, <1>2, <1>3, <1>5 DEF SameSender
<1>7. Sender(e, w, h, u, n) /\ Grows(s, h, w, h)
  BY Zenon, <1>3, <1>5, <1>6, SenderStays
<1> QED BY Zenon, <1>2, <1>3, <1>7 DEF v, w

(* An acknowledgement on the network, taken for what it is. *)
LEMMA AckNews ==
  ASSUME NEW s, NEW u \in Nat, s.una = u % SeqMod, NEW pos \in Nat, NEW d \in Nat,
         u <= d, pos <= d, d - u <= Window, d - pos <= MaxLag
  PROVE  AckIsNew(s, pos % SeqMod) <=> u < pos
<1>1. pos \in Int /\ u \in Int /\ u - pos <= SeqMod \div 2 /\ pos - u < SeqMod \div 2
  BY Constants
<1>2. SignedDiff(pos % SeqMod, u % SeqMod) = pos - u
  BY Zenon, <1>1, SignedDiffIs
<1> QED BY <1>2 DEF AckIsNew

(* The acknowledgement half of on_packet_received, pump_tx included. *)
AckPart(e, s, ack) == IF AckIsNew(s, ack) THEN PumpTx(e, OnAck(s, ack)) ELSE s
AckMade(s, h, ack) == IF AckIsNew(s, ack) THEN PumpMade(OnAck(s, ack), h) ELSE h
AckUna(s, u, pos) == IF AckIsNew(s, pos % SeqMod) THEN pos ELSE u

LEMMA AckKeeps ==
  ASSUME NEW e \in Sessions, NEW s, NEW h, NEW u, NEW n \in Nat, Sender(e, s, h, u, n),
         s.base = Len(s.stream) % SeqMod, 0 \notin s.rcvd,
         NEW pos \in Nat, NEW d \in Nat, u <= d, pos <= d, d <= s.pkts, d - pos <= MaxLag
  PROVE  LET t == AckPart(e, s, pos % SeqMod)
             h2 == AckMade(s, h, pos % SeqMod)
             u2 == AckUna(s, u, pos)
         IN  /\ Sender(e, t, h2, u2, n) /\ SameReceiver(s, t) /\ Grows(s, h, t, h2)
             /\ u2 <= d /\ u2 - u \in 0..Window
<1> DEFINE a == OnAck(s, pos % SeqMod)
           b == PumpTx(e, a)
           h2 == PumpMade(a, h)
<1>1. /\ s \in SessionStates /\ u \in Nat /\ s.pkts \in Nat /\ s.pkts - u <= Window
      /\ s.una = u % SeqMod /\ Len(s.stream) \in Nat
  BY DEF Sender, Counts, SessionStates
<1>2. d - u <= Window
  BY <1>1, Constants
<1>3. AckIsNew(s, pos % SeqMod) <=> u < pos
  BY Zenon, <1>1, <1>2, AckNews
<1>4. CASE AckIsNew(s, pos % SeqMod)
  <2>1. u < pos /\ pos <= s.pkts /\ pos - u \in 0..Window
    BY SMTT(30), <1>1, <1>2, <1>3, <1>4, Constants
  <2>2. Sender(e, a, h, pos, n) /\ SameReceiver(s, a) /\ Grows(s, h, a, h)
    BY Zenon, <2>1, OnAckKeeps
  <2> HIDE DEF a
  <2>3. a.base = Len(a.stream) % SeqMod /\ 0 \notin a.rcvd
    BY <2>2 DEF SameReceiver
  <2>4. Sender(e, b, h2, pos, n) /\ SameReceiver(a, b) /\ Grows(a, h, b, h2)
    BY Zenon, <2>2, <2>3, PumpKeeps
  <2> HIDE DEF b, h2
  <2>5. a \in SessionStates /\ b \in SessionStates
    BY <2>2, <2>4 DEF Sender
  <2>6. Grows(s, h, b, h2)
    BY Zenon, <1>1, <2>2, <2>4, <2>5, GrowsOn
  <2>7. SameReceiver(s, b)
    BY Zenon, <2>2, <2>4 DEF SameReceiver
  <2>8. /\ AckPart(e, s, pos % SeqMod) = b /\ AckMade(s, h, pos % SeqMod) = h2
        /\ AckUna(s, u, pos) = pos
    BY Zenon, <1>4 DEF AckPart, AckMade, AckUna, a, b, h2
  <2> QED BY SMTT(30), <2>1, <2>4, <2>6, <2>7, <2>8
<1>5. CASE ~AckIsNew(s, pos % SeqMod)
  <2>1. /\ AckPart(e, s, pos % SeqMod) = s /\ AckMade(s, h, pos % SeqMod) = h
        /\ AckUna(s, u, pos) = u
    BY Zenon, <1>5 DEF AckPart, AckMade, AckUna
  <2>2. SameReceiver(s, s) /\ Grows(s, h, s, h)
    BY <1>1 DEF SameReceiver, Grows
  <2>3. u - u \in 0..Window
    BY Zenon, <1>1, NoMove
  <2> QED BY <2>1, <2>2, <2>3
<1> QED BY Zenon, <1>4, <1>5

(* on_packet_received, from the buffer taken for the datagram to the buffer *)
(* given back.                                                              *)
LEMMA HandleStep ==
  ASSUME NEW H, NEW U, StateOK(ses, net, H, U), NEW p \in net, NEW kept \in SUBSET net,
         ses[p.dst].free > 0, Handle(p, kept)
  PROVE  Progress(ses, U, ses', net')
<1> DEFINE e == p.dst
           o == Peer(e)
           s == [ses[e] EXCEPT !.free = @ - 1]
           t == AckPart(e, s, p.ack)
           h2 == AckMade(s, H[e], p.ack)
           u2 == AckUna(s, U[e], p.pos)
           w == IF p.len > 0 THEN DeliverInOrder(OnData(t, p)) ELSE t
           x == [w EXCEPT !.free = @ + 1]
           n == PoolSize - 1
           D == Len(ses[o].stream)
<1>1. Become(e, x, kept)
  BY Zenon DEF Handle, AckPart
<1>2. OnTheWay(ses, H, p)
  BY Zenon DEF StateOK
<1>3. e \in Sessions /\ o \in Sessions /\ Peer(o) = e
  BY SMTT(30), <1>2, Peers DEF OnTheWay
<1>4. /\ ses[e] \in SessionStates /\ Sender(e, ses[e], H[e], U[e], PoolSize)
      /\ 0 \notin ses[e].rcvd /\ ses[e].base = Len(ses[e].stream) % SeqMod
      /\ Receiver(ses[e], H[o], ses[o].pkts)
      /\ U[e] <= D /\ U[e] \in Nat /\ Len(ses[e].stream) \in Nat
      /\ ses[e].free \in Nat /\ ses[e].pkts \in Nat
      /\ Len(ses[e].stream) - Len(ses[e].stream) \in 0..Window
  BY <1>3, SessionFacts
<1>5. /\ ses[o] \in SessionStates /\ Sender(o, ses[o], H[o], U[o], PoolSize)
      /\ Receiver(ses[o], H[e], ses[e].pkts) /\ U[o] <= Len(ses[e].stream) /\ U[o] \in Nat
      /\ D \in Nat /\ ses[o].pkts \in Nat
  <2>1. /\ ses[o] \in SessionStates /\ Sender(o, ses[o], H[o], U[o], PoolSize)
        /\ Receiver(ses[o], H[Peer(o)], ses[Peer(o)].pkts) /\ U[o] <= Len(ses[Peer(o)].stream)
        /\ U[o] \in Nat /\ Len(ses[o].stream) \in Nat /\ ses[o].pkts \in Nat
    BY <1>3, SessionFacts
  <2> QED BY Zenon, <1>3, <2>1
<1>6. PacketOK(o, ses[o], H[o], p) /\ Fresh(ses[o], p)
  BY Zenon, <1>2 DEF OnTheWay
<1> HIDE DEF e, o, D
<1>7. ses[e].free - 1 \in Nat /\ n \in Nat /\ n - PoolSize = (ses[e].free - 1) - ses[e].free
  BY <1>4, Constants DEF e
<1>8. /\ s \in SessionStates /\ s.free = ses[e].free - 1 /\ s.given = ses[e].given
      /\ s.out = ses[e].out /\ s.slots = ses[e].slots
      /\ s.una = ses[e].una /\ s.sent = ses[e].sent /\ s.next = ses[e].next
      /\ s.base = ses[e].base /\ s.rcvd = ses[e].rcvd /\ s.reasm = ses[e].reasm
      /\ s.pkts = ses[e].pkts /\ s.stream = ses[e].stream /\ s.open = ses[e].open
  BY Zenon, <1>4, <1>7 DEF SessionStates
<1> HIDE DEF s, n
<1>9. Sender(e, s, H[e], U[e], n) /\ Grows(ses[e], H[e], s, H[e])
  <2>1. SameSender(ses[e], s)
    <3>1. s.given \in Nat
      BY Zenon, <1>8 DEF SessionStates
    <3> QED BY SMTT(30), <1>4, <1>8, <3>1 DEF SameSender
  <2>2. n - PoolSize = s.free - ses[e].free /\ PoolSize \in Nat
    BY SMTT(30), <1>7, <1>8, Constants
  <2> QED BY Zenon, <1>4, <1>7, <1>8, <2>1, <2>2, SenderStays
<1>10. /\ p \in Packets /\ p.pos \in Nat /\ p.num \in Nat /\ p.ack = p.pos % SeqMod /\ p.pos <= D
       /\ p.seq = p.num % SeqMod /\ D - p.pos <= MaxLag /\ D <= s.pkts
  <2>1. p \in Packets /\ p.ack = p.pos % SeqMod /\ p.pos <= D /\ p.seq = p.num % SeqMod
    BY <1>6 DEF PacketOK, D
  <2>2. p.pos \in Nat /\ p.num \in Nat
    BY Zenon, <2>1 DEF Packets
  <2>3. D - p.pos <= MaxLag
    BY <1>6 DEF Fresh, D
  <2>4. D <= s.pkts
    BY Zenon, <1>5, <1>8 DEF Receiver, D
  <2> QED BY Zenon, <2>1, <2>2, <2>3, <2>4
<1>11. /\ Sender(e, t, h2, u2, n) /\ SameReceiver(s, t) /\ Grows(s, H[e], t, h2)
       /\ u2 <= D /\ u2 - U[e] \in 0..Window
  <2>1. s.base = Len(s.stream) % SeqMod /\ 0 \notin s.rcvd /\ D \in Nat
    BY SMTT(30), <1>4, <1>5, <1>8 DEF D
  <2> HIDE DEF t, h2, u2
  <2>2. /\ t = AckPart(e, s, p.pos % SeqMod) /\ h2 = AckMade(s, H[e], p.pos % SeqMod)
        /\ u2 = AckUna(s, U[e], p.pos)
    BY Zenon, <1>10 DEF t, h2, u2
  <2> QED BY Zenon, <1>3, <1>4, <1>7, <1>9, <1>10, <2>1, <2>2, AckKeeps
<1> HIDE DEF t, h2, u2
<1>12. t \in SessionStates /\ SameReceiver(ses[e], t) /\ Grows(ses[e], H[e], t, h2)
  <2>1. t \in SessionStates
    BY <1>11 DEF Sender
  <2>2. SameReceiver(ses[e], t)
    BY Zenon, <1>8, <1>11 DEF SameReceiver
  <2> QED BY Zenon, <1>4, <1>8, <1>9, <1>11, <2>1, <2>2, GrowsOn
<1>13. /\ Receiver(t, H[o], ses[o].pkts) /\ 0 \notin t.rcvd /\ t.stream = ses[e].stream
  BY SMTT(30), <1>4, <1>12, ReceiverSame DEF SameReceiver
<1>14. /\ Sender(e, w, h2, u2, n) /\ Grows(t, h2, w, h2) /\ Receiver(w, H[o], ses[o].pkts)
       /\ 0 \notin w.rcvd /\ Len(w.stream) - Len(t.stream) \in 0..Window
  <2>1. CASE p.len > 0
    <3>1. ses[o].pkts - Len(t.stream) <= Window
      <4>1. ses[o].pkts - U[o] <= Window
        BY SMTT(30), <1>5 DEF Sender, Counts
      <4> QED BY SMTT(30), <1>4, <1>5, <1>13, <4>1, Constants
    <3>2. p.num < ses[o].pkts /\ H[o][p.num].off = p.off /\ H[o][p.num].len = p.len
      BY Zenon, <1>6, <2>1 DEF PacketOK
    <3>3. ses[o].pkts - p.num <= MaxLag
      BY <1>6 DEF Fresh
    <3>4. H[o][p.num] = [off |-> p.off, len |-> p.len]
      <4>1. p.num \in 0..(ses[o].pkts - 1)
        BY SMTT(30), <1>5, <1>10, <3>2
      <4>2. H[o][p.num] \in Payloads
        BY Zenon, <1>5, <4>1 DEF Sender, Made
      <4> QED BY Zenon, <3>2, <4>2 DEF Payloads
    <3>5. w = DeliverInOrder(OnData(t, p))
      BY <2>1
    <3> HIDE DEF w
    <3> QED BY Zenon, <1>5, <1>7, <1>10, <1>11, <1>13, <3>1, <3>2, <3>3, <3>4, <3>5, PayloadKeeps
  <2>2. CASE ~(p.len > 0)
    <3>1. w = t
      BY SMTT(30), <2>2
    <3>2. Len(t.stream) \in Nat /\ t.pkts \in Nat
      BY SMTT(30), <1>12 DEF SessionStates
    <3>3. Grows(t, h2, t, h2) /\ Len(t.stream) - Len(t.stream) \in 0..Window
      BY SMTT(30), <3>2, NoMove DEF Grows
    <3> QED BY Zenon, <1>11, <1>13, <3>1, <3>3
  <2> QED BY Zenon, <2>1, <2>2
<1> HIDE DEF w
<1>15. w \in SessionStates /\ w.free \in Nat /\ w.given \in Nat /\ Len(w.stream) \in Nat
  BY SMTT(30), <1>14 DEF Sender, SessionStates
<1>16. /\ x \in SessionStates /\ x.free = w.free + 1 /\ x.given = w.given
       /\ x.out = w.out /\ x.slots = w.slots
       /\ x.una = w.una /\ x.sent = w.sent /\ x.next = w.next
       /\ x.base = w.base /\ x.rcvd = w.rcvd /\ x.reasm = w.reasm
       /\ x.pkts = w.pkts /\ x.stream = w.stream /\ x.open = w.open
  BY SMTT(30), <1>15 DEF SessionStates
<1> HIDE DEF x
<1>17. Sender(e, x, h2, u2, PoolSize) /\ Grows(w, h2, x, h2)
  <2>1. SameSender(w, x)
    BY SMTT(30), <1>15, <1>16 DEF SameSender
  <2>2. PoolSize - n = x.free - w.free /\ PoolSize \in Nat
    BY SMTT(30), <1>15, <1>16, Constants DEF n
  <2> QED BY Zenon, <1>7, <1>14, <1>16, <2>1, <2>2, SenderStays
<1>18. Grows(ses[e], H[e], x, h2)
  <2>1. Grows(ses[e], H[e], w, h2)
    BY Zenon, <1>4, <1>12, <1>14, <1>15, GrowsOn
  <2> QED BY Zenon, <1>4, <1>15, <1>16, <1>17, <2>1, GrowsOn
<1>19. Receiver(x, H[o], ses[o].pkts) /\ 0 \notin x.rcvd
  <2>1. SameReceiver(w, x)
    BY <1>16 DEF SameReceiver
  <2> QED BY SMTT(30), <1>14, <1>16, <2>1, ReceiverSame
<1>20. Handled(ses, H, U, e, x, h2, u2)
  <2>1. Len(x.stream) - Len(ses[e].stream) \in 0..Window
    BY Zenon, <1>13, <1>14, <1>16
  <2>2. u2 <= Len(ses[o].stream)
    BY Zenon, <1>11 DEF D
  <2> QED BY Zenon, <1>11, <1>17, <1>18, <1>19, <2>1, <2>2 DEF Handled, o
<1>21. Becomes(ses, e, x, kept, ses', net')
  BY <1>1 DEF Become, Becomes
<1> QED BY Zenon, <1>3, <1>20, <1>21, BecomeKeeps

LEMMA NextStep ==
  ASSUME NEW H, NEW U, StateOK(ses, net, H, U), lossy \in BOOLEAN, [Next]_vars
  PROVE  Progress(ses, U, ses', net') /\ lossy' \in BOOLEAN
<1>1. CASE \E e \in Sessions, c \in Chunks : Send(e, c)
  BY Zenon, <1>1, SendStep DEF Send, Become
<1>2. CASE \E e \in Sessions, i \in Slots : Timeout(e, i)
  BY Zenon, <1>2, TimeoutStep DEF Timeout
<1>3. CASE \E e \in Sessions : Tick(e)
  BY Zenon, <1>3, TickStep DEF Tick, Become
<1>4. CASE \E e \in Sessions : Close(e)
  BY Zenon, <1>4, CloseStep DEF Close
<1>5. ASSUME NEW p \in net, NEW kept \in SUBSET net, ses[p.dst].free > 0, Handle(p, kept)
      PROVE  Progress(ses, U, ses', net') /\ lossy' \in BOOLEAN
  <2>1. Progress(ses, U, ses', net')
    BY Zenon, <1>5, HandleStep
  <2>2. UNCHANGED lossy
    BY <1>5, Zenon DEF Handle, Become
  <2> QED BY <2>1, <2>2
<1>6. CASE \E p \in net : Deliver(p)
  <2>1. PICK p \in net : Deliver(p)
    BY Zenon, <1>6
  <2>2. net \ {p} \in SUBSET net /\ ses[p.dst].free > 0 /\ Handle(p, net \ {p})
    BY Zenon, <2>1 DEF Deliver
  <2> QED BY Zenon, <1>5, <2>2
<1>7. CASE \E p \in net : Duplicate(p)
  <2>1. PICK p \in net : Duplicate(p)
    BY Zenon, <1>7
  <2>2. net \in SUBSET net /\ ses[p.dst].free > 0 /\ Handle(p, net)
    BY Zenon, <2>1 DEF Duplicate
  <2> QED BY SMTT(30), <1>5, <2>2
<1>8. CASE \E p \in net : DropNoBuffer(p)
  BY SMTT(30), <1>8, LossStep DEF DropNoBuffer
<1>9. CASE \E p \in net : Lose(p)
  BY Zenon, <1>9, LossStep DEF Lose
<1>10. CASE Heal
  BY Zenon, <1>10, LossStep DEF Heal
<1>11. CASE UNCHANGED vars
  BY Zenon, <1>11, LossStep DEF vars
<1> QED BY Zenon, <1>1, <1>2, <1>3, <1>4, <1>6, <1>7, <1>8, <1>9, <1>10, <1>11 DEF Next

LEMMA InitOK ==
  ASSUME Init
  PROVE  TcpInv
<1> DEFINE H == [e \in Sessions |-> <<>>]
           U == [e \in Sessions |-> 0]
           s == NewSession
<1>1. \A e \in Sessions : ses[e] = s /\ U[e] = 0
  BY Zenon DEF Init
<1>2. 0 % SeqMod = 0 /\ 0 \in SeqNums /\ 0 \in Nat /\ Window \in Nat
  BY SMTT(30), Constants, ModSmall DEF SeqNums
<1>3. s \in SessionStates
  <2>1. [i \in Slots |-> Free] \in [Slots -> SlotStates]
    BY Zenon DEF SlotStates
  <2>2. [i \in Slots |-> Nothing] \in [Slots -> Payloads]
    <3>1. 0 \in 0..MaxPayload
      BY Constants
    <3> QED BY Zenon, <3>1 DEF Payloads, Nothing
  <2>3. {} \in SUBSET Slots /\ {} \in SUBSET Packets /\ PoolSize \in Nat
    BY Zenon, Constants
  <2>4. <<>> \in Seq(Payloads)
    OBVIOUS
  <2> HIDE DEF s
  <2> QED BY Zenon, <1>2, <2>1, <2>2, <2>3, <2>4 DEF s, NewSession, SessionStates
<1>4. /\ s.pkts = 0 /\ s.next = 0 /\ s.una = 0 /\ s.base = 0 /\ s.stream = <<>>
      /\ s.rcvd = {} /\ s.out = {} /\ s.sent = 0 /\ s.given = 0 /\ s.free = PoolSize
      /\ s.slots = [i \in Slots |-> Free]
  BY Zenon DEF NewSession
<1> HIDE DEF s
<1>5. Len(s.stream) = 0
  BY <1>4
<1>6. Pooled(s, PoolSize)
  <2>1. Used(s) = {}
    BY <1>4 DEF Used, Free
  <2>2. Cardinality(Used(s)) = 0
    BY Zenon, <2>1, FS_EmptySet
  <2> QED BY SMTT(30), <1>4, <2>2, Constants DEF Pooled
<1>7. ASSUME NEW e \in Sessions PROVE EndOK(e, ses, H, U)
  <2>1. ses[e] = s /\ ses[Peer(e)] = s /\ U[e] = 0
    BY <1>1, Peers
  <2>2. Counts(s, 0) /\ Made(s, H[e]) /\ Holds(e, s, H[e], 0)
    <3>1. Counts(s, 0)
      BY <1>2, <1>4 DEF Counts
    <3>2. Made(s, H[e])
      BY <1>4 DEF Made, Ends
    <3>3. Holds(e, s, H[e], 0)
      BY <1>4 DEF Holds, Free
    <3> QED BY Zenon, <3>1, <3>2, <3>3
  <2>3. Sender(e, s, H[e], 0, PoolSize)
    BY Zenon, <1>3, <1>4, <1>6, <2>2 DEF Sender
  <2>4. Receiver(s, H[Peer(e)], s.pkts)
    BY <1>2, <1>4, <1>5 DEF Receiver
  <2> HIDE DEF H, U
  <2> QED BY SMTT(30), <1>4, <1>5, <2>1, <2>3, <2>4 DEF EndOK
<1>8. ses \in [Sessions -> SessionStates] /\ net = {} /\ lossy \in BOOLEAN
  BY Zenon, <1>3 DEF Init, s
<1> HIDE DEF H, U
<1> QED BY Zenon, <1>7, <1>8 DEF TcpInv, StateOK
----------------------------------------------------------------------------
(***************************************************************************)
(* What the invariant says.                                                 *)
(***************************************************************************)
LEMMA TypesAre ==
  ASSUME NEW H, NEW U, StateOK(ses, net, H, U), lossy \in BOOLEAN
  PROVE  TypeOK
<1>1. net \subseteq Packets
  BY Zenon DEF StateOK, OnTheWay, PacketOK
<1>2. ASSUME NEW e \in Sessions, NEW s, s = ses[e]
      PROVE  /\ s.next \in SeqNums /\ s.una \in SeqNums /\ s.base \in SeqNums
             /\ s.given \in Nat /\ s.sent \in 0..s.given /\ s.pkts \in Nat
             /\ \A i \in Slots : s.slots[i] # Free =>
                   s.slots[i].pkt \in Packets /\ s.slots[i].due \in BOOLEAN
             /\ s.rcvd \subseteq Slots
             /\ \A i \in Slots : s.reasm[i] \in [off : Nat, len : 0..MaxPayload]
             /\ s.free \in 0..PoolSize
             /\ s.ack \in BOOLEAN /\ s.open \in BOOLEAN /\ s.out = {}
  <2>1. s \in SessionStates /\ Sender(e, s, H[e], U[e], PoolSize) /\ s.out = {}
    BY Zenon, <1>2, SessionFacts
  <2>2. /\ s.next \in SeqNums /\ s.una \in SeqNums /\ s.base \in SeqNums
        /\ s.given \in Nat /\ s.sent \in Nat /\ s.pkts \in Nat /\ s.rcvd \subseteq Slots
        /\ s.ack \in BOOLEAN /\ s.open \in BOOLEAN /\ s.free \in Nat
        /\ s.slots \in [Slots -> SlotStates] /\ s.reasm \in [Slots -> Payloads]
    BY Zenon, <2>1 DEF SessionStates
  <2>3. s.sent \in 0..s.given
    BY <2>1, <2>2 DEF Sender, Made
  <2>4. ASSUME NEW i \in Slots, s.slots[i] # Free
        PROVE  s.slots[i].pkt \in Packets /\ s.slots[i].due \in BOOLEAN
    BY Zenon, <2>2, <2>4 DEF SlotStates
  <2>5. s.free \in 0..PoolSize
    <3>1. s.free + Cardinality(Used(s)) = PoolSize /\ Cardinality(Used(s)) \in Nat
      BY Zenon, <2>1, UsedFinite DEF Sender, Pooled
    <3> QED BY <2>2, <3>1, Constants
  <2> QED BY SMTT(30), <2>1, <2>2, <2>3, <2>4, <2>5 DEF Payloads
<1> QED BY Zenon, <1>1, <1>2 DEF TypeOK

(* The bytes before a packet are no more than those before a later one.     *)
LEMMA EndsGrow ==
  ASSUME NEW s \in SessionStates, NEW h, Made(s, h), NEW d \in Nat, d <= s.pkts
  PROVE  Ends(h, d) \in Nat /\ Ends(h, d) <= Ends(h, s.pkts)
<1> DEFINE S == {j \in Nat : d <= j /\ j <= s.pkts /\ ~(Ends(h, d) <= Ends(h, j))}
<1>1. s.pkts \in Nat
  BY Zenon DEF SessionStates
<1>2. ASSUME NEW j \in Nat, j <= s.pkts PROVE Ends(h, j) \in Nat
  <2>1. CASE j = 0
    BY Zenon, <2>1 DEF Ends
  <2>2. CASE j # 0
    <3>1. j - 1 \in 0..(s.pkts - 1)
      BY SMTT(30), <1>1, <1>2, <2>2
    <3>2. h[j - 1] \in Payloads
      BY <3>1 DEF Made
    <3>3. h[j - 1].off \in Nat /\ h[j - 1].len \in Nat
      BY SMTT(30), <3>2, Constants DEF Payloads
    <3> QED BY <2>2, <3>3 DEF Ends
  <2> QED BY <2>1, <2>2
<1>3. S = {}
  <2> SUFFICES ASSUME S # {} PROVE FALSE
    BY Zenon
  <2>1. PICK j \in S : \A k \in S : j <= k
    <3>1. PICK k : k \in S
      BY Zenon
    <3>2. Least(S) \in S /\ \A y \in S : Least(S) <= y
      BY Zenon, <3>1, LeastOf
    <3> QED BY Zenon, <3>2
  <2>2. /\ j \in Nat /\ d <= j /\ j <= s.pkts /\ ~(Ends(h, d) <= Ends(h, j))
        /\ Ends(h, d) \in Nat /\ Ends(h, j) \in Nat
    BY Zenon, <1>1, <1>2
  <2>3. j # d
    BY <2>2
  <2>4. j - 1 \in Nat /\ d <= j - 1 /\ j - 1 <= s.pkts /\ ~(j <= j - 1)
    BY <1>1, <2>2, <2>3
  <2>5. Ends(h, d) <= Ends(h, j - 1)
    BY Zenon, <2>1, <2>4
  <2>6. h[j - 1] \in Payloads /\ h[j - 1].off = Ends(h, j - 1) /\ j # 0
    <3>1. j - 1 \in 0..(s.pkts - 1)
      BY SMTT(30), <1>1, <2>2, <2>4
    <3> QED BY <2>4, <3>1 DEF Made
  <2>7. h[j - 1].len \in Nat
    BY <2>6, Constants DEF Payloads
  <2>8. Ends(h, j) = Ends(h, j - 1) + h[j - 1].len
    BY Zenon, <2>6 DEF Ends
  <2>9. Ends(h, j - 1) \in Nat
    BY Zenon, <1>2, <2>4
  <2> QED BY SMTT(30), <2>2, <2>5, <2>7, <2>8, <2>9
<1>4. s.pkts \notin S /\ s.pkts <= s.pkts
  BY <1>1, <1>3
<1> QED BY Zenon, <1>1, <1>2, <1>4

LEMMA OrderIs ==
  ASSUME NEW H, NEW U, StateOK(ses, net, H, U)
  PROVE  InOrder
<1> SUFFICES ASSUME NEW e \in Sessions
             PROVE  Contiguous(ses[e].stream) /\ End(ses[e].stream) <= ses[Peer(e)].sent
  BY Zenon DEF InOrder
<1> DEFINE o == Peer(e)
           str == ses[e].stream
           h == H[o]
           n == ses[o].pkts
<1>1. /\ Receiver(ses[e], h, n) /\ ses[e] \in SessionStates
      /\ ses[o] \in SessionStates /\ Sender(o, ses[o], h, U[o], PoolSize)
  BY Zenon, SessionFacts, Peers
<1>2. /\ str \in Seq(Payloads) /\ Len(str) \in Nat /\ n \in Nat /\ Len(str) <= n
      /\ \A i \in 1..Len(str) : str[i] = h[i - 1]
  BY SMTT(30), <1>1 DEF Receiver, SessionStates
<1>3. /\ \A i \in 0..(n - 1) : h[i] \in Payloads /\ h[i].len > 0 /\ h[i].off = Ends(h, i)
      /\ Ends(h, n) = ses[o].sent /\ Made(ses[o], h)
  BY Zenon, <1>1 DEF Sender, Made
<1>4. Ends(h, Len(str)) <= Ends(h, n)
  BY Zenon, <1>1, <1>2, <1>3, EndsGrow
<1> HIDE DEF str, h, n, o
<1>5. ASSUME NEW i \in 0..Len(str)
      PROVE  End(SubSeq(str, 1, i)) = Ends(h, i)
  <2>1. i \in Nat /\ i <= Len(str)
    BY <1>2
  <2>2. CASE i = 0
    <3>1. SubSeq(str, 1, i) = <<>>
      BY <1>2, <2>2
    <3> QED BY Zenon, <2>2, <3>1 DEF End, Ends
  <2>3. CASE i # 0
    <3>1. Len(SubSeq(str, 1, i)) = i /\ SubSeq(str, 1, i)[i] = str[i]
      BY SMTT(30), <1>2, <2>1, <2>3
    <3>2. SubSeq(str, 1, i) # <<>>
      BY Zenon, <2>3, <3>1
    <3>3. str[i] = h[i - 1]
      BY SMTT(30), <1>2, <2>1, <2>3
    <3> QED BY Zenon, <2>3, <3>1, <3>2, <3>3 DEF End, Ends
  <2> QED BY <2>2, <2>3
<1>6. Contiguous(str)
  <2> SUFFICES ASSUME NEW i \in 1..Len(str)
               PROVE  str[i].len > 0 /\ str[i].off = End(SubSeq(str, 1, i - 1))
    BY Zenon DEF Contiguous
  <2>1. i - 1 \in 0..(n - 1) /\ i - 1 \in 0..Len(str)
    BY <1>2
  <2>2. str[i] = h[i - 1]
    BY Zenon, <1>2
  <2> QED BY Zenon, <1>3, <1>5, <2>1, <2>2
<1>7. End(str) = Ends(h, Len(str))
  <2>1. CASE Len(str) = 0
    <3>1. str = <<>>
      BY SMTT(30), <1>2, <2>1
    <3> QED BY SMTT(30), <2>1, <3>1 DEF End, Ends
  <2>2. CASE Len(str) # 0
    <3>1. str # <<>> /\ str[Len(str)] = h[Len(str) - 1]
      BY SMTT(30), <1>2, <2>2
    <3> QED BY Zenon, <2>2, <3>1 DEF End, Ends
  <2> QED BY Zenon, <2>1, <2>2
<1> QED BY Zenon, <1>3, <1>4, <1>6, <1>7 DEF str, o

LEMMA WindowsAre ==
  ASSUME NEW H, NEW U, StateOK(ses, net, H, U)
  PROVE  WindowsAgree
<1> SUFFICES ASSUME NEW e \in Sessions
             PROVE  LET s == ses[e]
                        d == Len(ses[Peer(e)].stream)
                    IN  /\ s.pkts - InFlight(s) <= d /\ d <= s.pkts
                        /\ InFlight(s) <= Window
                        /\ s.next = s.pkts % SeqMod
                        /\ ses[Peer(e)].base = d % SeqMod
  BY Zenon DEF WindowsAgree
<1>1. /\ Sender(e, ses[e], H[e], U[e], PoolSize) /\ ses[e] \in SessionStates
      /\ U[e] <= Len(ses[Peer(e)].stream) /\ U[e] \in Nat /\ ses[e].pkts \in Nat
  BY Zenon, SessionFacts
<1>2. Receiver(ses[Peer(e)], H[e], ses[e].pkts)
  BY SMTT(30), SessionFacts, Peers
<1>3. Counts(ses[e], U[e])
  BY Zenon, <1>1 DEF Sender
<1>4. InFlight(ses[e]) = ses[e].pkts - U[e]
  BY Zenon, <1>1, <1>3, InFlightIs
<1>5. ses[e].pkts - InFlight(ses[e]) = U[e]
  BY SMTT(30), <1>1, <1>4
<1> QED BY Zenon, <1>1, <1>2, <1>3, <1>4, <1>5 DEF Counts, Receiver

\* Slot i holds the packet with sequence number q and payload x.
InSlot(s, i, q, x) ==
    /\ s.slots[i].used /\ s.slots[i].pkt.seq = q
    /\ x = [off |-> s.slots[i].pkt.off, len |-> s.slots[i].pkt.len]

(* The slot of an unacknowledged packet of an open session.                 *)
LEMMA SlotIs ==
  ASSUME NEW e, NEW s, NEW h, NEW u, NEW m, Sender(e, s, h, u, m), s.open,
         NEW n \in Nat, u <= n, n < s.pkts
  PROVE  n % Window \in Slots /\ InSlot(s, n % Window, n % SeqMod, h[n])
<1> DEFINE i == n % Window
           p == s.slots[i].pkt
<1>1. u \in Nat /\ s.pkts \in Nat
  BY Zenon DEF Sender, Counts, SessionStates
<1>2. i \in Slots
  BY SMTT(30), Constants, ModDef DEF Slots
<1>3. n \in u..(s.pkts - 1) /\ n \in 0..(s.pkts - 1)
  BY <1>1
<1>4. s.slots[i].used /\ p.num = n
  BY Zenon, <1>3 DEF Sender, Holds
<1>5. PacketOK(e, s, h, p) /\ p.len > 0
  BY SMTT(30), <1>2, <1>4 DEF Sender, Holds
<1>6. p.seq = n % SeqMod /\ h[n].off = p.off /\ h[n].len = p.len
  BY Zenon, <1>4, <1>5 DEF PacketOK
<1>7. h[n] \in Payloads
  BY <1>3 DEF Sender, Made
<1> HIDE DEF p, i
<1>8. [off |-> p.off, len |-> p.len] = h[n]
  BY Zenon, <1>6, <1>7 DEF Payloads
<1> QED BY Zenon, <1>2, <1>4, <1>6, <1>8 DEF InSlot, p, i

LEMMA SlotsAre ==
  ASSUME NEW H, NEW U, StateOK(ses, net, H, U)
  PROVE  SlotsMatchWindow
<1> SUFFICES ASSUME NEW e \in Sessions, ses[e].open, NEW s, s = ses[e]
             PROVE  /\ Used(s) = {(s.una + k) % Window : k \in 0..(InFlight(s) - 1)}
                    /\ \A k \in 0..(InFlight(s) - 1) :
                          s.slots[(s.una + k) % Window].pkt.seq = (s.una + k) % SeqMod
  BY Zenon DEF SlotsMatchWindow
<1> DEFINE u == U[e]
<1>1. Sender(e, s, H[e], u, PoolSize) /\ s \in SessionStates /\ u \in Nat /\ s.pkts \in Nat
  BY Zenon, SessionFacts
<1>2. Counts(s, u) /\ Holds(e, s, H[e], u) /\ s.una = u % SeqMod /\ u <= s.pkts
  BY Zenon, <1>1 DEF Sender, Counts
<1>3. InFlight(s) = s.pkts - u
  BY Zenon, <1>1, <1>2, InFlightIs
<1> HIDE DEF u
<1>4. ASSUME NEW k \in Nat
      PROVE  (s.una + k) % Window = (u + k) % Window /\ (s.una + k) % SeqMod = (u + k) % SeqMod
  <2>1. u \in Int /\ k \in Int /\ SeqMod \in Nat \ {0}
    BY SMTT(30), <1>1, Constants
  <2>2. ((u % SeqMod) + k) % Window = (u + k) % Window
    BY Zenon, <2>1, SlotOfSum
  <2>3. ((u % SeqMod) + k) % SeqMod = (u + k) % SeqMod
    BY Zenon, <2>1, ModAdd
  <2> QED BY SMTT(30), <1>2, <2>2, <2>3
<1>5. ASSUME NEW k \in 0..(InFlight(s) - 1)
      PROVE  /\ (s.una + k) % Window \in Used(s)
             /\ s.slots[(s.una + k) % Window].pkt.seq = (s.una + k) % SeqMod
  <2>1. k \in Nat /\ u + k \in Nat /\ u <= u + k /\ u + k < s.pkts
    BY SMTT(30), <1>1, <1>3
  <2>2. /\ (u + k) % Window \in Slots /\ s.slots[(u + k) % Window].used
        /\ s.slots[(u + k) % Window].pkt.seq = (u + k) % SeqMod
    <3>1. (u + k) % Window \in Slots /\ InSlot(s, (u + k) % Window, (u + k) % SeqMod, H[e][u + k])
      BY Zenon, <1>1, <2>1, SlotIs
    <3> QED BY Zenon, <3>1 DEF InSlot
  <2> QED BY Zenon, <1>4, <2>1, <2>2 DEF Used
<1>6. ASSUME NEW i \in Used(s)
      PROVE  \E k \in 0..(InFlight(s) - 1) : i = (s.una + k) % Window
  <2> DEFINE n == s.slots[i].pkt.num
  <2>1. /\ PacketOK(e, s, H[e], s.slots[i].pkt) /\ s.slots[i].pkt.len > 0
        /\ u <= n /\ i = n % Window
    BY Zenon, <1>2 DEF Holds, Used
  <2>2. n \in Nat /\ n < s.pkts
    BY Zenon, <2>1 DEF PacketOK, Packets
  <2> HIDE DEF n
  <2>3. n - u \in 0..(InFlight(s) - 1) /\ n - u \in Nat /\ u + (n - u) = n
    BY SMTT(30), <1>1, <1>3, <2>1, <2>2
  <2>4. (s.una + (n - u)) % Window = n % Window
    BY Zenon, <1>4, <2>3
  <2> QED BY Zenon, <2>1, <2>3, <2>4
<1> QED BY <1>5, <1>6

LEMMA ReassemblyIs ==
  ASSUME NEW H, NEW U, StateOK(ses, net, H, U)
  PROVE  ReassemblyMatchesSender
<1> SUFFICES ASSUME NEW e \in Sessions, ses[Peer(e)].open, NEW d \in ses[e].rcvd
             PROVE  InSlot(ses[Peer(e)], (ses[e].base + d) % Window, (ses[e].base + d) % SeqMod,
                           ses[e].reasm[(ses[e].base + d) % Window])
  BY Zenon DEF ReassemblyMatchesSender, InSlot
<1> DEFINE o == Peer(e)
           r == ses[e]
           s == ses[o]
           b == Len(r.stream)
           n == b + d
<1>0. s.open /\ s = ses[Peer(e)]
  BY Zenon
<1>1. r \in SessionStates /\ Receiver(r, H[o], s.pkts) /\ b \in Nat /\ r.base = b % SeqMod
  BY Zenon, SessionFacts
<1>2. Sender(o, s, H[o], U[o], PoolSize) /\ U[o] <= b /\ U[o] \in Nat /\ s.pkts \in Nat
  BY SMTT(30), SessionFacts, Peers
<1>3. d \in Nat
  <2>1. d \in Slots
    BY Zenon, <1>1 DEF SessionStates
  <2> QED BY <2>1, Constants DEF Slots
<1>4. n < s.pkts /\ r.reasm[n % Window] = H[o][n]
  BY Zenon, <1>1 DEF Receiver
<1> HIDE DEF o, b, s
<1>5. n \in Nat /\ U[o] <= n
  BY SMTT(30), <1>1, <1>2, <1>3
<1>6. (r.base + d) % Window = n % Window /\ (r.base + d) % SeqMod = n % SeqMod
  <2>1. b \in Int /\ d \in Int /\ SeqMod \in Nat \ {0}
    BY SMTT(30), <1>1, <1>3, Constants
  <2>2. ((b % SeqMod) + d) % Window = (b + d) % Window
    BY Zenon, <2>1, SlotOfSum
  <2>3. ((b % SeqMod) + d) % SeqMod = (b + d) % SeqMod
    BY Zenon, <2>1, ModAdd
  <2> QED BY Zenon, <1>1, <2>2, <2>3
<1> HIDE DEF n
<1>7. InSlot(s, n % Window, n % SeqMod, H[o][n])
  BY Zenon, <1>0, <1>2, <1>4, <1>5, SlotIs
<1> QED BY Zenon, <1>0, <1>4, <1>6, <1>7

LEMMA MovesOn ==
  ASSUME NEW H, NEW U, StateOK(ses, net, H, U), Progress(ses, U, ses', net'), NEW e \in Sessions
  PROVE  /\ SignedDiff(ses'[e].una, ses[e].una) \in 0..Window
         /\ SignedDiff(ses'[e].base, ses[e].base) \in 0..Window
<1>1. PICK H2, U2 : StateOK(ses', net', H2, U2) /\ Advances(ses, U, ses', U2)
  BY Zenon DEF Progress
<1>2. /\ U[e] \in Nat /\ Len(ses[e].stream) \in Nat /\ ses[e].base = Len(ses[e].stream) % SeqMod
      /\ Sender(e, ses[e], H[e], U[e], PoolSize)
  BY SessionFacts
<1>3. /\ U2[e] \in Nat /\ Len(ses'[e].stream) \in Nat
      /\ ses'[e].base = Len(ses'[e].stream) % SeqMod
      /\ Sender(e, ses'[e], H2[e], U2[e], PoolSize)
  BY Zenon, <1>1, SessionFacts
<1>4. ses[e].una = U[e] % SeqMod /\ ses'[e].una = U2[e] % SeqMod
  BY <1>2, <1>3 DEF Sender, Counts
<1>5. U2[e] - U[e] \in 0..Window /\ Len(ses'[e].stream) - Len(ses[e].stream) \in 0..Window
  BY Zenon, <1>1 DEF Advances
<1>6. ASSUME NEW x \in Nat, NEW y \in Nat, x - y \in 0..Window
      PROVE  SignedDiff(x % SeqMod, y % SeqMod) \in 0..Window
  <2>1. x \in Int /\ y \in Int /\ y - x <= SeqMod \div 2 /\ x - y < SeqMod \div 2
    BY <1>6, Constants
  <2>2. SignedDiff(x % SeqMod, y % SeqMod) = x - y
    BY Zenon, <2>1, SignedDiffIs
  <2> QED BY SMTT(30), <1>6, <2>2
<1> QED BY Zenon, <1>2, <1>3, <1>4, <1>5, <1>6
----------------------------------------------------------------------------
(* Every state of the two sessions and the network has histories for which  *)
(* the invariant holds: what is made, held in unacked_, on its way, kept in *)
(* reasm_ and delivered is told by one numbering of the packets, though     *)
(* next_seq_, snd_una_ and the receive base wrap.                           *)
THEOREM TcpInvariant == Spec => []TcpInv
<1>1. Init => TcpInv
  BY Zenon, InitOK
<1>2. TcpInv /\ [Next]_vars => TcpInv'
  <2> SUFFICES ASSUME TcpInv, [Next]_vars PROVE TcpInv'
    BY Zenon
  <2>1. PICK H, U : StateOK(ses, net, H, U) /\ lossy \in BOOLEAN
    BY Zenon DEF TcpInv
  <2>2. Progress(ses, U, ses', net') /\ lossy' \in BOOLEAN
    BY Zenon, <2>1, NextStep
  <2> QED BY Zenon, <2>2 DEF Progress, TcpInv
<1> QED BY <1>1, <1>2, PTL DEF Spec

(* Every field of both sessions and of every datagram keeps its range.      *)
THEOREM TypesHold == Spec => []TypeOK
<1>1. TcpInv => TypeOK
  BY Zenon, TypesAre DEF TcpInv
<1> QED BY <1>1, TcpInvariant, PTL

(* Ordered delivery (tcp_lite.h:21): on_data and deliver_in_order hand the  *)
(* data callback the bytes the peer gave to send, each once, in order and   *)
(* without a gap.                                                           *)
THEOREM DeliveredInOrder == Spec => []InOrder
<1>1. TcpInv => InOrder
  BY Zenon, OrderIs DEF TcpInv
<1> QED BY <1>1, TcpInvariant, PTL

(* snd_una_ stays behind what the peer has delivered, that behind next_seq_,*)
(* and next_seq_ within a window of snd_una_ (pump_tx's test).              *)
THEOREM WindowsStayInStep == Spec => []WindowsAgree
<1>1. TcpInv => WindowsAgree
  BY Zenon, WindowsAre DEF TcpInv
<1> QED BY <1>1, TcpInvariant, PTL

(* mark_sent always finds its slot free: the slots of unacked_ hold the     *)
(* packets from snd_una_ to next_seq_, each its own.                        *)
THEOREM SlotsHoldTheWindow == Spec => []SlotsMatchWindow
<1>1. TcpInv => SlotsMatchWindow
  BY Zenon, SlotsAre DEF TcpInv
<1> QED BY <1>1, TcpInvariant, PTL

(* A payload kept in reasm_ beyond a gap is the one the peer still holds in *)
(* unacked_ under the same sequence number.                                 *)
THEOREM ReassemblyIsTheSenders == Spec => []ReassemblyMatchesSender
<1>1. TcpInv => ReassemblyMatchesSender
  BY Zenon, ReassemblyIs DEF TcpInv
<1> QED BY <1>1, TcpInvariant, PTL

(* pump_tx, mark_acked, on_packet_received and the destructor neither lose  *)
(* a buffer of the session's pool nor give one back twice.                  *)
THEOREM PoolStaysConserved == Spec => []PoolConserved
<1>1. TcpInv => PoolConserved
  BY Zenon, SessionFacts DEF TcpInv, PoolConserved, Sender, Pooled
<1> QED BY <1>1, TcpInvariant, PTL

(* No step moves snd_una_ or the receive base back, or on by more than a    *)
(* window, as the signed differences of the code see it.                    *)
THEOREM NeverRetreats == Spec => NoRetreat
<1>1. TcpInv /\ [Next]_vars =>
        [\A e \in Sessions :
            /\ SignedDiff(ses'[e].una, ses[e].una) \in 0..Window
            /\ SignedDiff(ses'[e].base, ses[e].base) \in 0..Window]_vars
  <2> SUFFICES ASSUME TcpInv, [Next]_vars, NEW e \in Sessions
               PROVE  /\ SignedDiff(ses'[e].una, ses[e].una) \in 0..Window
                      /\ SignedDiff(ses'[e].base, ses[e].base) \in 0..Window
    BY Zenon
  <2>1. PICK H, U : StateOK(ses, net, H, U) /\ lossy \in BOOLEAN
    BY Zenon DEF TcpInv
  <2>2. Progress(ses, U, ses', net')
    BY Zenon, <2>1, NextStep
  <2> QED BY Zenon, <2>1, <2>2, MovesOn
<1> QED BY <1>1, TcpInvariant, PTL DEF Spec, NoRetreat
============================================================================
