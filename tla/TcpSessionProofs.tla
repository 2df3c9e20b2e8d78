-------------------------- MODULE TcpSessionProofs --------------------------
(***************************************************************************)
(* What one session of TCP-lite does, for any window, any width of the      *)
(* sequence numbers more than two windows wide, any payload and pool size:  *)
(* the invariant of a session and of the peer it talks to, and the steps    *)
(* of a session that keep it.                                               *)
(***************************************************************************)
EXTENDS TcpLite, ProofBasics, FiniteSetTheorems

LEMMA Constants ==
  /\ Window \in Nat \ {0} /\ SeqMod \in Nat \ {0} /\ MaxPayload \in Nat \ {0}
  /\ SeqMod > 2 * Window /\ Window < SeqMod \div 2 /\ SeqMod \div 2 \in Nat
  /\ SeqMod = 2 * (SeqMod \div 2) /\ PoolSize \in Nat \ {0}
  /\ MaxLag \in Nat /\ MaxLag <= SeqMod \div 2
BY SessionAssumption, TcpAssumption, LagAssumption

(* A slot number may be taken from a sequence number or from the count      *)
(* behind it.                                                               *)
LEMMA SlotOfSeq ==
  ASSUME NEW x \in Int
  PROVE  (x % SeqMod) % Window = x % Window
<1> DEFINE k == SeqMod \div Window
<1>1. SeqMod = Window * k + (SeqMod % Window) /\ k \in Int /\ Window \in Nat \ {0}
  BY SessionAssumption, ModDef
<1>2. SeqMod = Window * k /\ SeqMod > 2 * Window
  BY <1>1, SessionAssumption
<1> HIDE DEF k
<1>3. k \in Nat \ {0}
  <2> SUFFICES ASSUME k <= 0 PROVE FALSE
    BY <1>1
  <2>1. Window * k <= 0
    BY <1>1
  <2> QED BY <1>1, <1>2, <2>1
<1> QED BY Zenon, <1>1, <1>2, <1>3, ModMod

LEMMA SlotOfSum ==
  ASSUME NEW x \in Int, NEW d \in Int
  PROVE  ((x % SeqMod) + d) % Window = (x + d) % Window
<1>1. x % SeqMod \in Int /\ Window \in Nat \ {0}
  BY Constants, ModDef
<1>2. (((x % SeqMod) % Window) + d) % Window = ((x % SeqMod) + d) % Window
  BY Zenon, <1>1, ModAdd
<1>3. ((x % Window) + d) % Window = (x + d) % Window
  BY Zenon, <1>1, ModAdd
<1> QED BY Zenon, <1>2, <1>3, SlotOfSeq

(* The differences of sequence numbers are those of the counts, unsigned    *)
(* within the width and signed within half of it.                           *)
LEMMA SeqDiff ==
  ASSUME NEW x \in Int, NEW y \in Int
  PROVE  ((x % SeqMod) - (y % SeqMod)) % SeqMod = (x - y) % SeqMod
<1>1. x % SeqMod \in Int /\ y % SeqMod \in Int /\ SeqMod \in Nat \ {0}
  BY Constants, ModDef
<1>2. ((x % SeqMod) - (y % SeqMod)) % SeqMod = ((x % SeqMod) - y) % SeqMod
  BY Zenon, <1>1, ModSub
<1>3. ((x % SeqMod) + (0 - y)) % SeqMod = (x + (0 - y)) % SeqMod
  <2>1. 0 - y \in Int
    OBVIOUS
  <2> QED BY Zenon, <1>1, <2>1, ModAdd
<1>4. (x % SeqMod) + (0 - y) = (x % SeqMod) - y /\ x + (0 - y) = x - y
  BY <1>1
<1> QED BY Zenon, <1>2, <1>3, <1>4

LEMMA SeqAdd ==
  ASSUME NEW x \in Int, NEW y \in Int
  PROVE  AddSeq(x % SeqMod, y) = (x + y) % SeqMod /\ (x + y) % SeqMod \in SeqNums
<1>1. SeqMod \in Nat \ {0} /\ x + y \in Int
  BY Constants
<1>2. ((x % SeqMod) + y) % SeqMod = (x + y) % SeqMod
  BY Zenon, <1>1, ModAdd
<1>3. (x + y) % SeqMod \in 0..(SeqMod - 1)
  BY Zenon, <1>1, ModDef
<1> QED BY Zenon, <1>2, <1>3 DEF AddSeq, SeqNums

LEMMA SeqDiffSmall ==
  ASSUME NEW x \in Int, NEW y \in Int, y <= x, x - y < SeqMod
  PROVE  ((x % SeqMod) - (y % SeqMod)) % SeqMod = x - y
<1>1. x - y \in 0..(SeqMod - 1) /\ SeqMod \in Nat \ {0}
  BY Constants
<1>2. (x - y) % SeqMod = x - y
  BY Zenon, <1>1, ModSmall
<1> QED BY Zenon, <1>2, SeqDiff

LEMMA SignedDiffIs ==
  ASSUME NEW x \in Int, NEW y \in Int, y - x <= SeqMod \div 2, x - y < SeqMod \div 2
  PROVE  SignedDiff(x % SeqMod, y % SeqMod) = x - y
<1> DEFINE d == x - y
           m == SeqMod \div 2
<1>1. d \in Int /\ m \in Nat /\ SeqMod = 2 * m /\ SeqMod \in Nat \ {0} /\ 0 - d <= m /\ d < m
  BY Constants
<1>2. SignedDiff(x % SeqMod, y % SeqMod) = IF (d % SeqMod) < m THEN d % SeqMod ELSE (d % SeqMod) - SeqMod
  BY Zenon, SeqDiff DEF SignedDiff
<1> HIDE DEF d, m
<1>3. CASE d >= 0
  <2>1. d \in 0..(SeqMod - 1)
    BY <1>1, <1>3
  <2>2. d % SeqMod = d
    BY Zenon, <1>1, <2>1, ModSmall
  <2> QED BY Zenon, <1>1, <1>2, <2>2 DEF d
<1>4. CASE d < 0
  <2>1. d + SeqMod \in 0..(SeqMod - 1) /\ d + SeqMod >= m
    BY <1>1, <1>4
  <2>2. \A k \in Int : (d + SeqMod * k) % SeqMod = d % SeqMod
    BY Zenon, <1>1, ModShift
  <2>3. 1 \in Int /\ d + SeqMod * 1 = d + SeqMod
    BY <1>1
  <2>4. (d + SeqMod) % SeqMod = d + SeqMod
    BY Zenon, <1>1, <2>1, ModSmall
  <2>5. d % SeqMod = d + SeqMod
    BY Zenon, <2>2, <2>3, <2>4
  <2> QED BY <1>1, <1>2, <2>1, <2>5 DEF d
<1> QED BY <1>1, <1>3, <1>4

LEMMA LeastOf ==
  ASSUME NEW S \in SUBSET Nat, S # {}
  PROVE  Least(S) \in S /\ (\A y \in S : Least(S) <= y)
<1> DEFINE R == OpToRel(<, Nat)
<1>1. IsWellFoundedOn(R, Nat)
  BY Zenon, NatLessThanWellFounded
<1> HIDE DEF R
<1>2. PICK x \in S : \A y \in S : ~ (<<y, x>> \in R)
  <2>1. S \subseteq Nat
    BY Zenon
  <2> QED BY Zenon, <1>1, <2>1, WFMin
<1>3. R = {ss \in Nat \X Nat : ss[1] < ss[2]}
  BY Zenon DEF R, OpToRel
<1>4. ASSUME NEW y \in S PROVE x <= y
  <2> DEFINE yx == <<y, x>>
  <2>1. x \in Nat /\ y \in Nat
    BY Zenon
  <2>2. yx \in Nat \X Nat /\ yx[1] = y /\ yx[2] = x
    BY Zenon, <2>1
  <2>3. ~(yx \in R)
    BY Zenon, <1>2
  <2> HIDE DEF yx
  <2>4. ~(y < x)
    BY Zenon, <1>3, <2>2, <2>3
  <2> QED BY <2>1, <2>4
<1> QED BY Zenon, <1>4 DEF Least

(* Run(s), the packets the receive base can move over: the bits below it    *)
(* are set and the one at it is not.                                        *)
LEMMA RunIs ==
  ASSUME NEW s, s.rcvd \subseteq Slots
  PROVE  /\ Run(s) \in 0..Window /\ Run(s) \notin s.rcvd
         /\ 0..(Run(s) - 1) \subseteq s.rcvd
         /\ (0 \notin s.rcvd => Run(s) = 0)
<1> DEFINE S == (0..Window) \ s.rcvd
<1>1. S \in SUBSET Nat /\ Window \in S
  BY Constants DEF Slots
<1>2. Least(S) \in S /\ (\A y \in S : Least(S) <= y)
  BY Zenon, <1>1, LeastOf
<1>3. Run(s) = Least(S)
  BY Zenon DEF Run
<1>4. Run(s) \in Nat /\ Run(s) \in 0..Window /\ Run(s) \notin s.rcvd
  BY Zenon, <1>1, <1>2, <1>3, Constants
<1>5. ASSUME NEW i \in 0..(Run(s) - 1) PROVE i \in s.rcvd
  <2>1. i \in 0..Window /\ ~(Run(s) <= i)
    BY <1>4, Constants
  <2> QED BY Zenon, <2>1, <1>2, <1>3
<1>6. ASSUME 0 \notin s.rcvd PROVE Run(s) = 0
  <2>1. 0 \in S
    BY <1>6, Constants
  <2> QED BY <2>1, <1>2, <1>3, <1>4
<1> QED BY Zenon, <1>4, <1>5, <1>6
----------------------------------------------------------------------------
(***************************************************************************)
(* The invariant.  It has two histories for each session: h, the payload of *)
(* every packet it has made, by the packet's number, and u, how many of     *)
(* them have been acknowledged.                                             *)
(***************************************************************************)
Payloads == [off : Nat, len : 0..MaxPayload]
SlotStates == {Free} \cup [used : {TRUE}, due : BOOLEAN, pkt : Packets]

SessionStates ==
    [given : Nat, sent : Nat, next : SeqNums, una : SeqNums,
     slots : [Slots -> SlotStates], base : SeqNums, rcvd : SUBSET Slots,
     reasm : [Slots -> Payloads], ack : BOOLEAN, free : Nat,
     out : SUBSET Packets, open : BOOLEAN, pkts : Nat, stream : Seq(Payloads)]

\* next_seq_ and snd_una_ are the counts of packets made and acknowledged.
Counts(s, u) ==
    /\ u \in Nat /\ u <= s.pkts /\ s.pkts - u <= Window
    /\ s.next = s.pkts % SeqMod /\ s.una = u % SeqMod

\* The payloads made are the bytes sent, in order and without a gap.
Ends(h, i) == IF i = 0 THEN 0 ELSE h[i - 1].off + h[i - 1].len

Made(s, h) ==
    /\ \A i \in 0..(s.pkts - 1) :
          h[i] \in Payloads /\ h[i].len > 0 /\ h[i].off = Ends(h, i)
    /\ Ends(h, s.pkts) = s.sent /\ s.sent <= s.given

\* A packet that e has made and may still send, or that is on its way.
PacketOK(e, s, h, p) ==
    /\ p \in Packets /\ p.dst = Peer(e)
    /\ p.seq = p.num % SeqMod /\ p.ack = p.pos % SeqMod
    /\ p.pos <= Len(s.stream) /\ p.num <= s.pkts
    /\ p.len > 0 => p.num < s.pkts /\ h[p.num].off = p.off /\ h[p.num].len = p.len

\* The slots hold the packets made and not acknowledged, each in its place.
Holds(e, s, h, u) ==
    /\ s.open => \A n \in u..(s.pkts - 1) :
                    s.slots[n % Window].used /\ s.slots[n % Window].pkt.num = n
    /\ \A i \in Slots : s.slots[i].used =>
          /\ PacketOK(e, s, h, s.slots[i].pkt) /\ s.slots[i].pkt.len > 0
          /\ u <= s.slots[i].pkt.num /\ i = s.slots[i].pkt.num % Window

\* Of the n buffers that are not being read, each is free or in one slot.
Pooled(s, n) == s.free + Cardinality(Used(s)) = n

Sender(e, s, h, u, n) ==
    /\ s \in SessionStates
    /\ Counts(s, u) /\ Made(s, h) /\ Holds(e, s, h, u) /\ Pooled(s, n)
    /\ \A p \in s.out : PacketOK(e, s, h, p)

\* The receiver of the payloads h, of which n have been made: it has delivered
\* the first ones, and what waits in reasm_ are later ones, in their place.
Receiver(r, h, n) ==
    /\ r.base = Len(r.stream) % SeqMod /\ Len(r.stream) <= n
    /\ \A i \in 1..Len(r.stream) : r.stream[i] = h[i - 1]
    /\ \A d \in r.rcvd :
          /\ Len(r.stream) + d < n
          /\ r.reasm[(Len(r.stream) + d) % Window] = h[Len(r.stream) + d]

LEMMA InFlightIs ==
  ASSUME NEW s \in SessionStates, NEW u, Counts(s, u)
  PROVE  InFlight(s) = s.pkts - u /\ Room(s) = Window - (s.pkts - u)
<1>1. s.pkts \in Int /\ u \in Int /\ u <= s.pkts /\ s.pkts - u < SeqMod /\ s.pkts - u <= Window
  BY SMTT(30), Constants DEF Counts, SessionStates
<1>2. ((s.pkts % SeqMod) - (u % SeqMod)) % SeqMod = s.pkts - u
  BY Zenon, <1>1, SeqDiffSmall
<1>3. InFlight(s) = s.pkts - u
  BY Zenon, <1>2 DEF InFlight, Counts
<1>4. Room(s) = Window - (s.pkts - u)
  BY <1>1, <1>3, Constants DEF Room
<1> QED BY Zenon, <1>3, <1>4

(* What make_data and make_ack write into the header, when the receive base *)
(* is at the first packet not delivered.                                    *)
LEMMA PacketIs ==
  ASSUME NEW e \in Sessions, NEW s \in SessionStates, NEW j \in Nat, NEW off \in Nat,
         NEW len \in 0..MaxPayload,
         s.next = s.pkts % SeqMod, s.base = Len(s.stream) % SeqMod, 0 \notin s.rcvd
  PROVE  LET p == Packet(e, s, j, off, len)
         IN  /\ p \in Packets /\ p.dst = Peer(e) /\ p.off = off /\ p.len = len
             /\ p.num = s.pkts + j /\ p.seq = (s.pkts + j) % SeqMod
             /\ p.pos = Len(s.stream) /\ p.ack = Len(s.stream) % SeqMod
<1> DEFINE p == Packet(e, s, j, off, len)
<1>1. s.pkts \in Nat /\ Len(s.stream) \in Nat /\ s.rcvd \subseteq Slots /\ SeqMod \in Nat \ {0}
  BY SMTT(30), Constants DEF SessionStates
<1>2. Run(s) = 0
  BY Zenon, <1>1, RunIs
<1>3. AddSeq(s.next, j) = (s.pkts + j) % SeqMod /\ AddSeq(s.next, j) \in SeqNums
  <2>1. s.pkts \in Int /\ j \in Int
    BY <1>1
  <2> QED BY Zenon, <2>1, SeqAdd
<1>4. AddSeq(s.base, 0) = (Len(s.stream) + 0) % SeqMod /\ AddSeq(s.base, 0) \in SeqNums
  <2>1. Len(s.stream) \in Int /\ 0 \in Int
    BY <1>1
  <2> QED BY Zenon, <2>1, SeqAdd
<1>5. CumulativeAck(s) = Len(s.stream) % SeqMod /\ CumulativeAck(s) \in SeqNums
  <2>1. Len(s.stream) + 0 = Len(s.stream)
    BY <1>1
  <2> QED BY Zenon, <1>2, <1>4, <2>1 DEF CumulativeAck
<1>6. p = [dst |-> Peer(e), seq |-> AddSeq(s.next, j), ack |-> CumulativeAck(s),
           off |-> off, len |-> len, num |-> s.pkts + j, pos |-> Len(s.stream)]
  BY Zenon DEF Packet
<1>7. /\ Peer(e) \in Sessions /\ AddSeq(s.next, j) \in SeqNums /\ CumulativeAck(s) \in SeqNums
      /\ s.pkts + j \in Nat /\ Len(s.stream) \in Nat
  <2>1. Peer(e) \in Sessions
    BY Zenon DEF Peer, Sessions
  <2>2. \A n \in Nat : n + j \in Nat
    OBVIOUS
  <2> QED BY Zenon, <1>1, <1>3, <1>5, <2>1, <2>2
<1> HIDE DEF p
<1>8. p \in Packets
  BY Zenon, <1>6, <1>7 DEF Packets
<1>9. /\ p.dst = Peer(e) /\ p.off = off /\ p.len = len
       /\ p.num = s.pkts + j /\ p.seq = (s.pkts + j) % SeqMod
       /\ p.pos = Len(s.stream) /\ p.ack = Len(s.stream) % SeqMod
  BY Zenon, <1>3, <1>5, <1>6
<1> QED BY Zenon, <1>8, <1>9 DEF p

\* What a session makes and delivers only grows, and what was made stays.
Grows(s, h, t, h2) ==
    /\ s.pkts <= t.pkts /\ Len(s.stream) <= Len(t.stream)
    /\ \A i \in 0..(s.pkts - 1) : h2[i] = h[i]

SameReceiver(s, t) ==
    /\ t.base = s.base /\ t.rcvd = s.rcvd /\ t.reasm = s.reasm /\ t.stream = s.stream
    /\ t.open = s.open

LEMMA PacketStaysOK ==
  ASSUME NEW e, NEW s \in SessionStates, NEW t \in SessionStates, NEW h, NEW h2, NEW p,
         PacketOK(e, s, h, p), Grows(s, h, t, h2)
  PROVE  PacketOK(e, t, h2, p)
<1>1. p.num \in Nat /\ p.pos \in Nat /\ Len(s.stream) \in Nat /\ Len(t.stream) \in Nat
  BY SMTT(30) DEF PacketOK, Packets, SessionStates
<1>2. s.pkts \in Nat /\ t.pkts \in Nat
  BY Zenon DEF SessionStates
<1>3. p.pos <= Len(t.stream) /\ p.num <= t.pkts
  BY <1>1, <1>2 DEF PacketOK, Grows
<1>4. ASSUME p.len > 0 PROVE p.num < t.pkts /\ h2[p.num] = h[p.num]
  BY <1>1, <1>2, <1>4 DEF PacketOK, Grows
<1> QED BY Zenon, <1>3, <1>4 DEF PacketOK

LEMMA UsedFinite ==
  ASSUME NEW s
  PROVE  /\ Used(s) \subseteq Slots /\ IsFiniteSet(Used(s)) /\ Cardinality(Used(s)) \in Nat
         /\ IsFiniteSet(Slots)
<1>1. Used(s) \in SUBSET Slots
  BY Zenon DEF Used
<1>2. IsFiniteSet(Slots)
  <2>1. 0 \in Int /\ Window - 1 \in Int
    BY Constants
  <2> QED BY Zenon, <2>1, FS_Interval DEF Slots
<1> QED BY Zenon, <1>1, <1>2, FS_Subset, FS_CardinalityType

(* What Holds says of a packet in a slot. *)
HeldIn(s, u, i) ==
    /\ s.slots[i].used = TRUE /\ s.slots[i].pkt \in Packets /\ s.slots[i].due \in BOOLEAN
    /\ s.slots[i].pkt.num \in u..(s.pkts - 1) /\ i = s.slots[i].pkt.num % Window
    /\ s.slots[i].pkt.seq = s.slots[i].pkt.num % SeqMod

LEMMA HeldPacket ==
  ASSUME NEW e, NEW s \in SessionStates, NEW h, NEW u, Counts(s, u), Holds(e, s, h, u),
         NEW i \in Used(s)
  PROVE  HeldIn(s, u, i)
<1>1. i \in Slots /\ s.slots[i].used /\ s.slots[i] \in SlotStates
  BY Zenon DEF Used, SessionStates
<1>2. s.slots[i].used = TRUE /\ s.slots[i].pkt \in Packets /\ s.slots[i].due \in BOOLEAN
  <2>1. s.slots[i] # Free
    BY <1>1 DEF Free
  <2>2. s.slots[i] \in [used : {TRUE}, due : BOOLEAN, pkt : Packets]
    BY Zenon, <1>1, <2>1 DEF SlotStates
  <2> QED BY Zenon, <2>2
<1>3. /\ s.slots[i].pkt.seq = s.slots[i].pkt.num % SeqMod
      /\ s.slots[i].pkt.num < s.pkts /\ u <= s.slots[i].pkt.num
      /\ i = s.slots[i].pkt.num % Window
  BY Zenon, <1>1 DEF Holds, PacketOK
<1>4. s.slots[i].pkt.num \in Nat /\ s.pkts \in Nat /\ u \in Nat
  BY Zenon, <1>2 DEF Packets, SessionStates, Counts
<1> QED BY <1>2, <1>3, <1>4 DEF HeldIn

(* An acknowledgement of the packets below the pos-th: mark_acked frees     *)
(* their slots and no other.                                                *)
LEMMA AckedAre ==
  ASSUME NEW e, NEW s \in SessionStates, NEW h, NEW u, NEW pos \in Nat,
         Counts(s, u), Holds(e, s, h, u), u < pos, pos <= s.pkts
  PROVE  Acked(s, pos % SeqMod) = {i \in Used(s) : s.slots[i].pkt.num < pos}
<1> SUFFICES ASSUME NEW i \in Used(s)
             PROVE  SignedDiff(s.slots[i].pkt.seq, pos % SeqMod) = s.slots[i].pkt.num - pos
  <2>1. \A i \in Used(s) : HeldIn(s, u, i)
    BY Zenon, HeldPacket
  <2>2. \A i \in Used(s) : s.slots[i].pkt.num \in Int
    BY <2>1 DEF HeldIn, Packets
  <2> QED BY <2>2 DEF Acked
<1> DEFINE n == s.slots[i].pkt.num
<1>1. n \in u..(s.pkts - 1) /\ s.slots[i].pkt.seq = n % SeqMod /\ u \in Nat /\ s.pkts \in Nat
  <2>1. HeldIn(s, u, i)
    BY Zenon, HeldPacket
  <2> QED BY Zenon, <2>1 DEF HeldIn, Counts, SessionStates
<1>2. s.pkts - u <= Window
  BY Zenon DEF Counts
<1> HIDE DEF n
<1>3. n \in Int /\ pos - n <= SeqMod \div 2 /\ n - pos < SeqMod \div 2
  BY <1>1, <1>2, Constants
<1>4. SignedDiff(n % SeqMod, pos % SeqMod) = n - pos
  BY <1>3, SignedDiffIs
<1> QED BY Zenon, <1>1, <1>4 DEF n

LEMMA OnAckKeeps ==
  ASSUME NEW e, NEW s, NEW h, NEW u, NEW n \in Nat, NEW pos \in Nat,
         Sender(e, s, h, u, n), u < pos, pos <= s.pkts
  PROVE  LET t == OnAck(s, pos % SeqMod)
         IN  Sender(e, t, h, pos, n) /\ SameReceiver(s, t) /\ Grows(s, h, t, h)
<1> DEFINE done == Acked(s, pos % SeqMod)
           t == OnAck(s, pos % SeqMod)
           sl == [i \in Slots |-> IF i \in done THEN Free ELSE s.slots[i]]
<1>1. s \in SessionStates /\ Counts(s, u) /\ Made(s, h) /\ Holds(e, s, h, u) /\ Pooled(s, n)
  BY Zenon DEF Sender
<1>2. done = {i \in Used(s) : s.slots[i].pkt.num < pos}
  BY <1>1, AckedAre
<1>3. /\ sl \in [Slots -> SlotStates] /\ pos % SeqMod \in SeqNums
      /\ s.free + Cardinality(done) \in Nat /\ IsFiniteSet(done)
  <2>1. sl \in [Slots -> SlotStates]
    BY Zenon, <1>1 DEF SessionStates, SlotStates
  <2>2. pos % SeqMod \in SeqNums
    BY Constants, ModDef DEF SeqNums
  <2>3. done \in SUBSET Used(s) /\ IsFiniteSet(Used(s))
    BY Zenon, <1>2, UsedFinite
  <2>4. IsFiniteSet(done) /\ Cardinality(done) \in Nat
    BY Zenon, <2>3, FS_Subset, FS_CardinalityType
  <2>5. s.free \in Nat
    BY Zenon, <1>1 DEF SessionStates
  <2> QED BY <2>1, <2>2, <2>4, <2>5
<1>4. t = [s EXCEPT !.slots = sl, !.free = s.free + Cardinality(done), !.una = pos % SeqMod]
  BY Zenon DEF OnAck
<1> HIDE DEF done, t, sl
<1>5. t \in SessionStates
  BY Zenon, <1>1, <1>3, <1>4 DEF SessionStates
<1>6. /\ t.slots = sl /\ t.free = s.free + Cardinality(done) /\ t.una = pos % SeqMod
      /\ t.given = s.given /\ t.sent = s.sent /\ t.next = s.next /\ t.base = s.base
      /\ t.rcvd = s.rcvd /\ t.reasm = s.reasm /\ t.out = s.out /\ t.open = s.open
      /\ t.pkts = s.pkts /\ t.stream = s.stream
  BY Zenon, <1>1, <1>4 DEF SessionStates
<1>7. SameReceiver(s, t) /\ Grows(s, h, t, h)
  <2>1. s.pkts \in Nat /\ Len(s.stream) \in Nat
    BY <1>1 DEF SessionStates
  <2> QED BY <1>6, <2>1 DEF SameReceiver, Grows
<1>8. Counts(t, pos)
  <2>1. s.pkts \in Nat /\ u \in Nat /\ s.pkts - u <= Window /\ s.next = s.pkts % SeqMod
    BY Zenon, <1>1 DEF Counts, SessionStates
  <2> QED BY <1>6, <2>1, Constants DEF Counts
<1>9. Made(t, h)
  BY Zenon, <1>1, <1>6 DEF Made
<1>10. \A p : PacketOK(e, s, h, p) => PacketOK(e, t, h, p)
  BY Zenon, <1>6 DEF PacketOK
<1>11. Holds(e, t, h, pos)
  <2>1. u \in Nat /\ s.pkts \in Nat /\ Window \in Nat \ {0}
    BY Zenon, <1>1, Constants DEF Counts, SessionStates
  <2>2. ASSUME NEW i \in Slots, t.slots[i].used
        PROVE  i \notin done /\ i \in Used(s) /\ t.slots[i] = s.slots[i]
    <3>1. t.slots[i] = IF i \in done THEN Free ELSE s.slots[i]
      BY Zenon, <1>6 DEF sl
    <3>2. i \notin done
      BY <2>2, <3>1 DEF Free
    <3> QED BY Zenon, <2>2, <3>1, <3>2 DEF Used
  <2>3. ASSUME NEW i \in Slots, t.slots[i].used
        PROVE  /\ PacketOK(e, t, h, t.slots[i].pkt) /\ t.slots[i].pkt.len > 0
               /\ pos <= t.slots[i].pkt.num /\ i = t.slots[i].pkt.num % Window
    <3>1. i \notin done /\ i \in Used(s) /\ t.slots[i] = s.slots[i]
      BY Zenon, <2>2, <2>3
    <3>2. s.slots[i].used /\ s.slots[i].pkt.num \in Int
      <4>1. HeldIn(s, u, i)
        BY Zenon, <1>1, <3>1, HeldPacket
      <4> QED BY <4>1 DEF HeldIn, Packets
    <3>3. pos <= s.slots[i].pkt.num
      BY SMTT(30), <1>2, <3>1, <3>2
    <3> QED BY Zenon, <1>1, <1>10, <3>1, <3>2, <3>3 DEF Holds
  <2>4. ASSUME t.open, NEW m \in pos..(t.pkts - 1)
        PROVE  t.slots[m % Window].used /\ t.slots[m % Window].pkt.num = m
    <3>1. m \in u..(s.pkts - 1) /\ m \in Int /\ ~(m < pos)
      BY <1>6, <2>1, <2>4
    <3>2. m % Window \in Slots
      BY Zenon, <2>1, <3>1, ModDef DEF Slots
    <3>3. s.slots[m % Window].used /\ s.slots[m % Window].pkt.num = m
      BY Zenon, <1>1, <1>6, <2>4, <3>1 DEF Holds
    <3>4. m % Window \notin done
      BY Zenon, <1>2, <3>1, <3>3
    <3> QED BY <1>6, <3>2, <3>3, <3>4 DEF sl
  <2> QED BY Zenon, <2>3, <2>4 DEF Holds
<1>12. Pooled(t, n)
  <2>1. Used(t) = Used(s) \ done
    BY <1>6 DEF Used, sl, Free
  <2>2. Used(s) \cap done = done /\ IsFiniteSet(Used(s)) /\ Cardinality(Used(s)) \in Nat
    BY Zenon, <1>2, UsedFinite
  <2>3. Cardinality(Used(t)) = Cardinality(Used(s)) - Cardinality(done)
    BY Zenon, <2>1, <2>2, FS_Difference
  <2>4. Cardinality(done) \in Nat /\ s.free \in Nat
    BY Zenon, <1>1, <1>3, FS_CardinalityType DEF SessionStates
  <2> QED BY SMTT(30), <1>1, <1>6, <2>2, <2>3, <2>4 DEF Pooled
<1>13. \A p \in t.out : PacketOK(e, t, h, p)
  BY Zenon, <1>6, <1>10 DEF Sender
<1>14. Sender(e, t, h, pos, n)
  BY Zenon, <1>5, <1>8, <1>9, <1>11, <1>12, <1>13 DEF Sender
<1> QED BY Zenon, <1>7, <1>14 DEF t

----------------------------------------------------------------------------
(* pump_tx, piece by piece: what is left to send, how many packets it makes *)
(* of it, and the j-th of them.                                             *)
Pending(s) == s.given - s.sent
PumpCount(s) == Least({(Pending(s) + MaxPayload - 1) \div MaxPayload, Room(s), s.free})
PumpLen(s, j) == Least({MaxPayload, Pending(s) - j * MaxPayload})
PumpPacket(e, s, j) == Packet(e, s, j, s.sent + j * MaxPayload, PumpLen(s, j))
PumpNew(e, s) == {PumpPacket(e, s, j) : j \in 0..(PumpCount(s) - 1)}
PumpSent(s) == s.sent + Least({PumpCount(s) * MaxPayload, Pending(s)})

\* The history of payloads after it.
PumpMade(s, h) ==
    [n \in Nat |-> IF n < s.pkts THEN h[n]
                   ELSE [off |-> s.sent + (n - s.pkts) * MaxPayload,
                         len |-> PumpLen(s, n - s.pkts)]]

LEMMA Multiples ==
  ASSUME NEW i \in Nat, NEW j \in Nat
  PROVE  /\ j * MaxPayload \in Nat
         /\ (j + 1) * MaxPayload = j * MaxPayload + MaxPayload
         /\ i <= j => i * MaxPayload <= j * MaxPayload
<1>1. MaxPayload \in Nat
  BY Zenon, Constants
<1>2. j * MaxPayload \in Nat /\ (j + 1) * MaxPayload = j * MaxPayload + MaxPayload
  BY <1>1
<1>3. ASSUME i <= j PROVE i * MaxPayload <= j * MaxPayload
  <2>1. j - i \in Nat
    BY <1>3
  <2>2. (j - i) * MaxPayload \in Nat
    BY <1>1, <2>1
  <2>3. j * MaxPayload = i * MaxPayload + (j - i) * MaxPayload
    BY <1>1
  <2>4. i * MaxPayload \in Nat
    BY <1>1
  <2> QED BY <1>2, <2>2, <2>3, <2>4
<1> QED BY Zenon, <1>2, <1>3

(* Rounding up makes no empty packet. *)
LEMMA PacketsOf ==
  ASSUME NEW b \in Nat
  PROVE  LET c == (b + MaxPayload - 1) \div MaxPayload
         IN  c \in Nat /\ (\A j \in Nat : j < c => j * MaxPayload < b)
<1> DEFINE M == MaxPayload
           a == b + M - 1
           c == a \div M
           r == a % M
<1>1. M \in Nat \ {0} /\ a \in Nat
  BY Constants
<1> HIDE DEF M, a
<1>2. c \in Int /\ r \in 0..(M - 1) /\ a = M * c + r
  BY <1>1, ModDef
<1> HIDE DEF c, r
<1>3. c \in Nat
  <2> SUFFICES ASSUME c <= 0 - 1 PROVE FALSE
    BY <1>2
  <2>1. (0 - 1) - c \in Nat
    BY <1>2
  <2>2. M * ((0 - 1) - c) \in Nat
    BY <1>1, <2>1
  <2>3. M * ((0 - 1) - c) = (0 - M) - M * c /\ M * c \in Int
    BY <1>1, <1>2
  <2> QED BY SMTT(30), <1>1, <1>2, <2>2, <2>3
<1>4. ASSUME NEW j \in Nat, j < c PROVE j * M < b
  <2>1. c - (j + 1) \in Nat
    BY <1>3, <1>4
  <2>2. M * (c - (j + 1)) \in Nat
    BY <1>1, <2>1
  <2>3. M * (c - (j + 1)) = M * c - (j * M + M) /\ M * c \in Int /\ j * M \in Int
    BY <1>1, <1>3
  <2>4. a = b + M - 1
    BY Zenon DEF a
  <2> QED BY <1>1, <1>2, <2>2, <2>3, <2>4
<1> QED BY Zenon, <1>3, <1>4 DEF c, a, M

LEMMA PumpCountIs ==
  ASSUME NEW s \in SessionStates, NEW u, Counts(s, u), s.sent <= s.given
  PROVE  /\ PumpCount(s) \in Nat /\ PumpCount(s) <= s.free
         /\ s.pkts + PumpCount(s) - u <= Window
         /\ \A j \in 0..(PumpCount(s) - 1) : j * MaxPayload < Pending(s)
<1> DEFINE c == (Pending(s) + MaxPayload - 1) \div MaxPayload
           S == {c, Room(s), s.free}
<1>1. Pending(s) \in Nat /\ s.free \in Nat /\ s.pkts \in Nat
  BY DEF Pending, SessionStates
<1>2. c \in Nat /\ (\A j \in Nat : j < c => j * MaxPayload < Pending(s))
  BY Zenon, <1>1, PacketsOf
<1> HIDE DEF c
<1>3. Room(s) = Window - (s.pkts - u) /\ u \in Nat /\ s.pkts - u <= Window
  BY Zenon, InFlightIs DEF Counts
<1>4. Room(s) \in Nat
  BY <1>1, <1>3, Constants
<1>5. S \in SUBSET Nat /\ S # {}
  BY Zenon, <1>1, <1>2, <1>4
<1>6. Least(S) \in S /\ \A y \in S : Least(S) <= y
  BY Zenon, <1>5, LeastOf
<1>7. PumpCount(s) = Least(S)
  BY Zenon DEF PumpCount, c
<1>8. PumpCount(s) \in Nat /\ PumpCount(s) <= s.free /\ PumpCount(s) <= Room(s) /\ PumpCount(s) <= c
  BY Zenon, <1>5, <1>6, <1>7
<1>9. s.pkts + PumpCount(s) - u <= Window
  BY <1>1, <1>3, <1>8, Constants
<1>10. ASSUME NEW j \in 0..(PumpCount(s) - 1) PROVE j * MaxPayload < Pending(s)
  <2>1. j \in Nat /\ j < c
    BY <1>2, <1>8
  <2> QED BY Zenon, <1>2, <2>1
<1> QED BY Zenon, <1>8, <1>9, <1>10

LEMMA PumpLenIs ==
  ASSUME NEW s \in SessionStates, s.sent <= s.given, NEW j \in Nat, j * MaxPayload < Pending(s)
  PROVE  /\ PumpLen(s, j) \in 1..MaxPayload
         /\ PumpLen(s, j) = IF (j + 1) * MaxPayload <= Pending(s) THEN MaxPayload
                            ELSE Pending(s) - j * MaxPayload
<1> DEFINE S == {MaxPayload, Pending(s) - j * MaxPayload}
           m == j * MaxPayload
<1>1. Pending(s) \in Nat /\ MaxPayload \in Nat \ {0}
  BY Constants DEF Pending, SessionStates
<1>2. m \in Nat /\ (j + 1) * MaxPayload = m + MaxPayload /\ m < Pending(s)
  BY Zenon, Multiples
<1> HIDE DEF m
<1>3. S = {MaxPayload, Pending(s) - m}
  BY Zenon DEF m
<1>4. S \in SUBSET Nat /\ S # {}
  BY <1>1, <1>2, <1>3
<1>5. Least(S) \in S /\ \A y \in S : Least(S) <= y
  BY Zenon, <1>4, LeastOf
<1>6. PumpLen(s, j) = Least(S)
  BY Zenon DEF PumpLen
<1> HIDE DEF S
<1>7. /\ PumpLen(s, j) \in 1..MaxPayload
      /\ PumpLen(s, j) = IF m + MaxPayload <= Pending(s) THEN MaxPayload ELSE Pending(s) - m
  BY SMTT(30), <1>1, <1>2, <1>3, <1>4, <1>5, <1>6
<1> QED BY Zenon, <1>2, <1>7 DEF m

LEMMA PumpPacketIs ==
  ASSUME NEW e \in Sessions, NEW s \in SessionStates, NEW u, Counts(s, u), s.sent <= s.given,
         s.base = Len(s.stream) % SeqMod, 0 \notin s.rcvd,
         NEW j \in 0..(PumpCount(s) - 1)
  PROVE  LET p == PumpPacket(e, s, j)
         IN  /\ p \in Packets /\ p.dst = Peer(e)
             /\ p.off = s.sent + j * MaxPayload /\ p.len = PumpLen(s, j) /\ p.len > 0
             /\ p.num = s.pkts + j /\ p.seq = (s.pkts + j) % SeqMod
             /\ p.pos = Len(s.stream) /\ p.ack = Len(s.stream) % SeqMod
<1> DEFINE off == s.sent + j * MaxPayload
           len == PumpLen(s, j)
<1>1. PumpCount(s) \in Nat /\ j * MaxPayload < Pending(s)
  BY Zenon, PumpCountIs
<1>2. j \in Nat /\ s.sent \in Nat
  BY <1>1 DEF SessionStates
<1>3. len \in 1..MaxPayload /\ off \in Nat
  <2>1. j * MaxPayload \in Nat
    BY <1>2, Constants
  <2> QED BY SMTT(30), <1>1, <1>2, <2>1, PumpLenIs
<1>4. len \in 0..MaxPayload /\ len > 0
  BY <1>3, Constants
<1>5. s.next = s.pkts % SeqMod
  BY Zenon DEF Counts
<1> HIDE DEF off, len
<1>6. LET p == Packet(e, s, j, off, len)
      IN  /\ p \in Packets /\ p.dst = Peer(e) /\ p.off = off /\ p.len = len
          /\ p.num = s.pkts + j /\ p.seq = (s.pkts + j) % SeqMod
          /\ p.pos = Len(s.stream) /\ p.ack = Len(s.stream) % SeqMod
  BY SMTT(30), <1>2, <1>3, <1>4, <1>5, PacketIs
<1>7. PumpPacket(e, s, j) = Packet(e, s, j, off, len)
  BY Zenon DEF PumpPacket, off, len
<1> QED BY Zenon, <1>4, <1>6, <1>7 DEF off, len

(* The payloads pump_tx makes follow those made before, and end with what   *)
(* is counted as sent.                                                      *)
LEMMA PumpMakes ==
  ASSUME NEW s \in SessionStates, NEW h, NEW u, Counts(s, u), Made(s, h)
  PROVE  LET h2 == PumpMade(s, h)
             n == s.pkts + PumpCount(s)
         IN  /\ \A i \in 0..(n - 1) :
                   h2[i] \in Payloads /\ h2[i].len > 0 /\ h2[i].off = Ends(h2, i)
             /\ Ends(h2, n) = PumpSent(s)
             /\ PumpSent(s) \in Nat /\ PumpSent(s) <= s.given
             /\ \A i \in 0..(s.pkts - 1) : h2[i] = h[i]
<1> DEFINE h2 == PumpMade(s, h)
           k == PumpCount(s)
           n == s.pkts + k
           m(j) == j * MaxPayload
<1>1. /\ s.pkts \in Nat /\ s.sent \in Nat /\ s.given \in Nat /\ s.sent <= s.given
      /\ MaxPayload \in Nat \ {0}
  BY Zenon, Constants DEF SessionStates, Made
<1>2. k \in Nat /\ (\A j \in 0..(k - 1) : m(j) < Pending(s))
  BY Zenon, <1>1, PumpCountIs
<1>3. \A j \in Nat : m(j) \in Nat /\ m(j + 1) = m(j) + MaxPayload
  BY Zenon, Multiples
<1>4. Pending(s) = s.given - s.sent /\ Pending(s) \in Nat
  BY <1>1 DEF Pending
<1>5. ASSUME NEW j \in 0..(k - 1)
      PROVE  /\ PumpLen(s, j) \in 1..MaxPayload
             /\ PumpLen(s, j) = IF m(j) + MaxPayload <= Pending(s) THEN MaxPayload
                                ELSE Pending(s) - m(j)
  <2>1. j \in Nat /\ m(j) < Pending(s)
    BY <1>2
  <2> QED BY Zenon, <1>1, <1>3, <2>1, PumpLenIs
<1>6. ASSUME NEW i \in Nat, i < s.pkts PROVE h2[i] = h[i]
  BY Zenon, <1>6 DEF PumpMade
<1>7. ASSUME NEW j \in 0..(k - 1)
      PROVE  h2[s.pkts + j] = [off |-> s.sent + m(j), len |-> PumpLen(s, j)]
  <2>1. s.pkts + j \in Nat /\ ~(s.pkts + j < s.pkts) /\ (s.pkts + j) - s.pkts = j
    BY <1>1, <1>2
  <2> QED BY Zenon, <2>1 DEF PumpMade
<1>8. PumpSent(s) = s.sent + (IF m(k) <= Pending(s) THEN m(k) ELSE Pending(s))
  <2> DEFINE S == {m(k), Pending(s)}
  <2>1. S \in SUBSET Nat /\ S # {}
    BY Zenon, <1>2, <1>3, <1>4
  <2>2. Least(S) \in S /\ \A y \in S : Least(S) <= y
    BY Zenon, <2>1, LeastOf
  <2>3. PumpSent(s) = s.sent + Least(S)
    BY Zenon DEF PumpSent
  <2>4. m(k) \in Nat
    BY Zenon, <1>2, <1>3
  <2> HIDE DEF m, k
  <2>5. Least(S) = IF m(k) <= Pending(s) THEN m(k) ELSE Pending(s)
    BY SMTT(30), <1>4, <2>2, <2>4
  <2> QED BY Zenon, <2>3, <2>5
<1> HIDE DEF h2, k, m
<1>9. \A i \in 0..s.pkts : Ends(h2, i) = Ends(h, i)
  BY <1>1, <1>6 DEF Ends
<1>10. ASSUME NEW j \in 0..k PROVE Ends(h2, s.pkts + j) = s.sent + (IF m(j) <= Pending(s) THEN m(j) ELSE Pending(s))
  <2>1. CASE j = 0
    <3>1. s.pkts + j = s.pkts /\ s.pkts \in 0..s.pkts
      BY <1>1, <2>1
    <3>2. Ends(h2, s.pkts + j) = s.sent
      BY Zenon, <1>9, <3>1 DEF Made
    <3>3. m(0) = 0
      BY Constants DEF m
    <3> QED BY SMTT(30), <1>1, <1>4, <2>1, <3>2, <3>3
  <2>2. CASE j # 0
    <3> DEFINE i == j - 1
    <3>1. i \in 0..(k - 1) /\ i \in Nat /\ j = i + 1
      BY <1>2, <2>2
    <3> HIDE DEF i
    <3>2. s.pkts + j # 0 /\ (s.pkts + j) - 1 = s.pkts + i
      BY <1>1, <3>1
    <3>3. Ends(h2, s.pkts + j) = h2[s.pkts + i].off + h2[s.pkts + i].len
      BY Zenon, <3>2 DEF Ends
    <3>4. h2[s.pkts + i].off = s.sent + m(i) /\ h2[s.pkts + i].len = PumpLen(s, i)
      <4>1. i \in 0..(k - 1)
        BY Zenon, <3>1
      <4>2. h2[s.pkts + i] = [off |-> s.sent + m(i), len |-> PumpLen(s, i)]
        BY Zenon, <1>7, <4>1
      <4> QED BY <4>2
    <3>5. m(i) \in Nat /\ m(j) = m(i) + MaxPayload /\ m(i) < Pending(s)
      BY Zenon, <1>2, <1>3, <3>1
    <3> QED BY SMTT(30), <1>1, <1>4, <1>5, <3>1, <3>3, <3>4, <3>5
  <2> QED BY Zenon, <2>1, <2>2
<1>11. ASSUME NEW i \in 0..(n - 1)
       PROVE  h2[i] \in Payloads /\ h2[i].len > 0 /\ h2[i].off = Ends(h2, i)
  <2>1. CASE i < s.pkts
    <3>1. i \in 0..(s.pkts - 1) /\ i \in 0..s.pkts /\ i \in Nat
      BY <1>1, <2>1
    <3>2. h2[i] = h[i] /\ Ends(h2, i) = Ends(h, i)
      BY Zenon, <1>6, <1>9, <2>1, <3>1
    <3> QED BY Zenon, <3>1, <3>2 DEF Made
  <2>2. CASE ~(i < s.pkts)
    <3> DEFINE j == i - s.pkts
    <3>1. j \in 0..(k - 1) /\ j \in 0..k /\ j \in Nat /\ i = s.pkts + j
      BY SMTT(30), <1>1, <1>2, <2>2
    <3> HIDE DEF j
    <3>2. m(j) \in Nat /\ m(j) < Pending(s) /\ PumpLen(s, j) \in 1..MaxPayload
      BY Zenon, <1>2, <1>3, <1>5, <3>1
    <3>3. Ends(h2, i) = s.sent + m(j)
      BY SMTT(30), <1>4, <1>10, <3>1, <3>2
    <3>4. h2[i] = [off |-> s.sent + m(j), len |-> PumpLen(s, j)]
      BY Zenon, <1>7, <3>1
    <3>5. s.sent + m(j) \in Nat /\ PumpLen(s, j) \in 0..MaxPayload /\ PumpLen(s, j) > 0
      BY <1>1, <3>2
    <3> QED BY SMTT(30), <3>3, <3>4, <3>5 DEF Payloads
  <2> QED BY Zenon, <2>1, <2>2
<1>12. Ends(h2, n) = PumpSent(s)
  <2>1. k \in 0..k
    BY <1>2
  <2> QED BY Zenon, <1>8, <1>10, <2>1
<1>13. PumpSent(s) \in Nat /\ PumpSent(s) <= s.given
  <2>1. m(k) \in Nat
    BY Zenon, <1>2, <1>3
  <2> QED BY SMTT(30), <1>1, <1>4, <1>8, <2>1
<1>14. \A i \in 0..(s.pkts - 1) : h2[i] = h[i]
  BY <1>1, <1>6
<1> QED BY Zenon, <1>11, <1>12, <1>13, <1>14 DEF h2, k

(* mark_sent finds the slot of every new packet free, and puts each in a    *)
(* slot of its own.                                                         *)
PumpHit(e, s) == {p.seq % Window : p \in PumpNew(e, s)}
PumpPut(e, s, i) == CHOOSE p \in PumpNew(e, s) : p.seq % Window = i

LEMMA PumpSlots ==
  ASSUME NEW e \in Sessions, NEW s \in SessionStates, NEW h, NEW u, Counts(s, u),
         Holds(e, s, h, u), s.sent <= s.given, s.base = Len(s.stream) % SeqMod,
         0 \notin s.rcvd
  PROVE  /\ PumpHit(e, s) \subseteq Slots /\ PumpHit(e, s) \cap Used(s) = {}
         /\ IsFiniteSet(PumpHit(e, s)) /\ Cardinality(PumpHit(e, s)) = PumpCount(s)
         /\ \A j \in 0..(PumpCount(s) - 1) :
               /\ (s.pkts + j) % Window \in PumpHit(e, s)
               /\ PumpPut(e, s, (s.pkts + j) % Window) = PumpPacket(e, s, j)
         /\ \A i \in PumpHit(e, s) :
               \E j \in 0..(PumpCount(s) - 1) : i = (s.pkts + j) % Window
<1> DEFINE k == PumpCount(s)
           hit == PumpHit(e, s)
           g(j) == (s.pkts + j) % Window
<1>1. /\ k \in Nat /\ s.pkts + k - u <= Window /\ s.pkts \in Nat /\ u \in Nat /\ u <= s.pkts
      /\ Window \in Nat \ {0}
  BY Zenon, PumpCountIs, Constants DEF Counts, SessionStates
<1>2. ASSUME NEW j \in 0..(k - 1) PROVE PumpPacket(e, s, j).seq % Window = g(j)
  <2>1. PumpPacket(e, s, j).seq = (s.pkts + j) % SeqMod
    BY Zenon, PumpPacketIs
  <2>2. s.pkts + j \in Int
    BY <1>1
  <2> QED BY Zenon, <2>1, <2>2, SlotOfSeq
<1>3. hit = {g(j) : j \in 0..(k - 1)}
  <2>1. hit = {PumpPacket(e, s, j).seq % Window : j \in 0..(k - 1)}
    BY Zenon DEF PumpHit, PumpNew
  <2> QED BY Zenon, <1>2, <2>1
<1>4. ASSUME NEW j \in 0..(k - 1) PROVE g(j) \in Slots
  <2>1. s.pkts + j \in Int
    BY <1>1
  <2> QED BY Zenon, <1>1, <2>1, ModDef DEF Slots
<1>5. ASSUME NEW i \in 0..(k - 1), NEW j \in 0..(k - 1), i < j PROVE g(i) # g(j)
  <2> DEFINE x == s.pkts + i
             y == s.pkts + j
  <2>1. x \in Int /\ y \in Int /\ x < y /\ y - x < Window
    BY SMTT(30), <1>1, <1>5
  <2> HIDE DEF x, y
  <2>2. x % Window # y % Window
    BY Zenon, <1>1, <2>1, ModDistinct
  <2> QED BY Zenon, <2>2 DEF x, y
<1>6. ASSUME NEW i \in 0..(k - 1), NEW j \in 0..(k - 1), g(i) = g(j) PROVE i = j
  <2>1. ~(i < j) /\ ~(j < i)
    BY Zenon, <1>5, <1>6
  <2> QED BY <1>1, <2>1
<1>7. ASSUME NEW i \in Used(s) PROVE i \notin hit
  <2>1. SUFFICES ASSUME NEW j \in 0..(k - 1), i = g(j) PROVE FALSE
    BY Zenon, <1>3
  <2>2. HeldIn(s, u, i)
    BY Zenon, HeldPacket
  <2> DEFINE x == s.slots[i].pkt.num
             y == s.pkts + j
  <2>3. x \in u..(s.pkts - 1)
    BY Zenon, <2>2 DEF HeldIn
  <2>4. i = x % Window
    BY Zenon, <2>2 DEF HeldIn
  <2> HIDE DEF x
  <2>5. x \in Int /\ y \in Int /\ x < y /\ y - x < Window
    <3> HIDE DEF k
    <3>1. u <= x /\ x <= s.pkts - 1 /\ x \in Int /\ j \in Int /\ 0 <= j /\ j <= k - 1
      BY <1>1, <2>3
    <3> QED BY SMTT(30), <1>1, <3>1
  <2> HIDE DEF y
  <2>6. x % Window # y % Window
    BY Zenon, <1>1, <2>5, ModDistinct
  <2> QED BY Zenon, <2>1, <2>4, <2>6 DEF y
<1> HIDE DEF k, hit, g
<1>8. IsFiniteSet(hit) /\ Cardinality(hit) = k
  <2> DEFINE f == [j \in 0..(k - 1) |-> g(j)]
  <2>1. f \in [0..(k - 1) -> hit] /\ (\A i \in hit : \E j \in 0..(k - 1) : f[j] = i)
    BY Zenon, <1>3
  <2>2. \A i, j \in 0..(k - 1) : f[i] = f[j] => i = j
    BY Zenon, <1>6
  <2>3. ExistsBijection(0..(k - 1), hit)
    BY Zenon, <2>1, <2>2 DEF ExistsBijection, Bijection, Injection, IsInjective, Surjection
  <2>4. IsFiniteSet(0..(k - 1)) /\ Cardinality(0..(k - 1)) = k
    <3>1. 0 \in Int /\ k - 1 \in Int
      BY <1>1
    <3>2. IsFiniteSet(0..(k - 1)) /\ Cardinality(0..(k - 1)) = IF 0 > k - 1 THEN 0 ELSE (k - 1) - 0 + 1
      BY Zenon, <3>1, FS_Interval
    <3> QED BY SMTT(30), <1>1, <3>2
  <2> QED BY Zenon, <2>3, <2>4, FS_Bijection
<1>9. ASSUME NEW j \in 0..(k - 1)
      PROVE  g(j) \in hit /\ PumpPut(e, s, g(j)) = PumpPacket(e, s, j)
  <2>1. PumpPacket(e, s, j) \in PumpNew(e, s) /\ PumpPacket(e, s, j).seq % Window = g(j)
    BY Zenon, <1>2 DEF PumpNew, k
  <2>2. ASSUME NEW p \in PumpNew(e, s), p.seq % Window = g(j) PROVE p = PumpPacket(e, s, j)
    <3>1. PICK i \in 0..(k - 1) : p = PumpPacket(e, s, i)
      BY Zenon DEF PumpNew, k
    <3>2. g(i) = g(j)
      BY Zenon, <1>2, <2>2, <3>1
    <3> QED BY Zenon, <1>6, <3>1, <3>2
  <2>3. PumpPut(e, s, g(j)) = PumpPacket(e, s, j)
    BY Zenon, <2>1, <2>2 DEF PumpPut
  <2> QED BY Zenon, <1>3, <2>3
<1>10. hit \subseteq Slots /\ hit \cap Used(s) = {}
  BY Zenon, <1>3, <1>4, <1>7
<1>11. \A i \in hit : \E j \in 0..(k - 1) : i = g(j)
  BY Zenon, <1>3
<1> QED BY Zenon, <1>8, <1>9, <1>10, <1>11 DEF k, hit, g

(* What pump_tx leaves behind, field by field. *)
PumpSlot(e, s, i) ==
    IF i \in PumpHit(e, s) THEN [used |-> TRUE, due |-> FALSE, pkt |-> PumpPut(e, s, i)]
    ELSE s.slots[i]

LEMMA PumpFields ==
  ASSUME NEW e \in Sessions, NEW s, NEW h, NEW u, NEW n \in Nat, Sender(e, s, h, u, n),
         s.base = Len(s.stream) % SeqMod, 0 \notin s.rcvd
  PROVE  LET t == PumpTx(e, s)
             k == PumpCount(s)
         IN  /\ t \in SessionStates
             /\ t.slots = [i \in Slots |-> PumpSlot(e, s, i)] /\ t.free = s.free - k
             /\ t.out = s.out \cup PumpNew(e, s) /\ t.sent = PumpSent(s)
             /\ t.next = (s.pkts + k) % SeqMod /\ t.pkts = s.pkts + k
             /\ t.given = s.given /\ t.una = s.una /\ t.base = s.base /\ t.rcvd = s.rcvd
             /\ t.reasm = s.reasm /\ t.ack = s.ack /\ t.open = s.open /\ t.stream = s.stream
<1> DEFINE k == PumpCount(s)
           new == PumpNew(e, s)
           hit == PumpHit(e, s)
           sl == [i \in Slots |-> PumpSlot(e, s, i)]
           fr == s.free + Cardinality(hit \cap Used(s))
           m == [s EXCEPT !.slots = sl, !.free = fr]
           sent == PumpSent(s)
           next == AddSeq(s.next, k)
           pkts == s.pkts + k
           out == s.out \cup new
           t == [m EXCEPT !.free = fr - k, !.out = out, !.sent = sent, !.next = next, !.pkts = pkts]
<1>1. /\ s \in SessionStates /\ Counts(s, u) /\ Made(s, h) /\ Holds(e, s, h, u)
      /\ s.sent <= s.given /\ s.next = s.pkts % SeqMod
  BY Zenon DEF Sender, Made, Counts
<1>2. /\ k \in Nat /\ k <= s.free /\ s.free \in Nat /\ s.pkts \in Nat /\ s.out \in SUBSET Packets
      /\ s.slots \in [Slots -> SlotStates]
  BY Zenon, <1>1, PumpCountIs DEF SessionStates
<1>3. MarkSent(s, new) = m
  BY Zenon DEF MarkSent, PumpSlot, PumpHit, PumpPut
<1>4. PumpTx(e, s) = [MarkSent(s, new) EXCEPT !.free = @ - k, !.out = @ \cup new,
                        !.sent = @ + Least({k * MaxPayload, Pending(s)}),
                        !.next = AddSeq(@, k), !.pkts = @ + k]
  BY Zenon DEF PumpTx, PumpNew, PumpPacket, PumpLen, PumpCount, Pending
<1>5. fr = s.free
  <2>1. hit \cap Used(s) = {}
    BY Zenon, <1>1, PumpSlots
  <2>2. Cardinality(hit \cap Used(s)) = 0
    BY Zenon, <2>1, FS_EmptySet
  <2> QED BY <1>2, <2>2
<1>6. \A p \in new : p \in Packets
  <2>1. \A j \in 0..(k - 1) : PumpPacket(e, s, j) \in Packets
    BY Zenon, <1>1, PumpPacketIs
  <2> QED BY Zenon, <2>1 DEF PumpNew
<1>7. sl \in [Slots -> SlotStates]
  <2> SUFFICES ASSUME NEW i \in Slots PROVE PumpSlot(e, s, i) \in SlotStates
    BY Zenon
  <2>1. CASE i \in hit
    <3>1. PICK j \in 0..(k - 1) : i = (s.pkts + j) % Window
      BY Zenon, <1>1, <2>1, PumpSlots
    <3>2. PumpPut(e, s, i) = PumpPacket(e, s, j)
      BY Zenon, <1>1, <3>1, PumpSlots
    <3>3. PumpPut(e, s, i) \in Packets
      BY Zenon, <1>6, <3>2 DEF PumpNew
    <3> QED BY Zenon, <2>1, <3>3 DEF PumpSlot, SlotStates
  <2>2. CASE i \notin hit
    BY Zenon, <1>2, <2>2 DEF PumpSlot
  <2> QED BY Zenon, <2>1, <2>2
<1>8. sent \in Nat
  BY Zenon, <1>1, PumpMakes
<1>9. next = (s.pkts + k) % SeqMod /\ next \in SeqNums
  <2>1. s.pkts \in Int /\ k \in Int
    BY <1>2
  <2> QED BY Zenon, <1>1, <2>1, SeqAdd
<1>10. pkts \in Nat /\ out \in SUBSET Packets /\ s.free - k \in Nat
  BY <1>2, <1>6
<1> HIDE DEF k, new, hit, sl, fr, sent, next, pkts, out
<1>11. /\ m \in SessionStates /\ m.free = s.free /\ m.slots = sl /\ m.out = s.out
       /\ m.sent = s.sent /\ m.next = s.next /\ m.pkts = s.pkts /\ m.given = s.given
       /\ m.una = s.una /\ m.base = s.base /\ m.rcvd = s.rcvd /\ m.reasm = s.reasm
       /\ m.ack = s.ack /\ m.open = s.open /\ m.stream = s.stream
  BY Zenon, <1>1, <1>2, <1>5, <1>7 DEF SessionStates
<1> HIDE DEF m
<1>12. PumpTx(e, s) = t
  <2>1. /\ s.sent + Least({k * MaxPayload, Pending(s)}) = sent /\ AddSeq(s.next, k) = next
        /\ s.pkts + k = pkts /\ s.out \cup new = out
    BY Zenon DEF sent, PumpSent, next, pkts, out, k
  <2> QED BY Zenon, <1>3, <1>4, <1>5, <1>11, <2>1 DEF SessionStates
<1>13. /\ t \in SessionStates
       /\ t.slots = sl /\ t.free = s.free - k /\ t.out = out /\ t.sent = sent
       /\ t.next = next /\ t.pkts = pkts
       /\ t.given = s.given /\ t.una = s.una /\ t.base = s.base /\ t.rcvd = s.rcvd
       /\ t.reasm = s.reasm /\ t.ack = s.ack /\ t.open = s.open /\ t.stream = s.stream
  BY Zenon, <1>5, <1>8, <1>9, <1>10, <1>11 DEF SessionStates
<1> HIDE DEF t
<1> QED BY Zenon, <1>9, <1>12, <1>13 DEF k, sl, out, new, sent, pkts

LEMMA PumpKeeps ==
  ASSUME NEW e \in Sessions, NEW s, NEW h, NEW u, NEW n \in Nat, Sender(e, s, h, u, n),
         s.base = Len(s.stream) % SeqMod, 0 \notin s.rcvd
  PROVE  LET t == PumpTx(e, s)
             h2 == PumpMade(s, h)
         IN  Sender(e, t, h2, u, n) /\ SameReceiver(s, t) /\ Grows(s, h, t, h2)
<1> DEFINE t == PumpTx(e, s)
           h2 == PumpMade(s, h)
           k == PumpCount(s)
           hit == PumpHit(e, s)
<1>1. /\ s \in SessionStates /\ Counts(s, u) /\ Made(s, h) /\ Holds(e, s, h, u)
      /\ Pooled(s, n) /\ s.sent <= s.given
  BY Zenon DEF Sender, Made
<1>2. /\ t \in SessionStates
      /\ t.slots = [i \in Slots |-> PumpSlot(e, s, i)] /\ t.free = s.free - k
      /\ t.out = s.out \cup PumpNew(e, s) /\ t.sent = PumpSent(s)
      /\ t.next = (s.pkts + k) % SeqMod /\ t.pkts = s.pkts + k
      /\ t.given = s.given /\ t.una = s.una /\ t.base = s.base /\ t.rcvd = s.rcvd
      /\ t.reasm = s.reasm /\ t.ack = s.ack /\ t.open = s.open /\ t.stream = s.stream
  BY Zenon, PumpFields
<1>3. /\ k \in Nat /\ s.pkts + k - u <= Window /\ u \in Nat /\ u <= s.pkts
      /\ s.pkts \in Nat /\ s.free \in Nat /\ Len(s.stream) \in Nat /\ Window \in Nat \ {0}
  <2>1. k \in Nat /\ s.pkts + k - u <= Window
    BY Zenon, <1>1, PumpCountIs
  <2>2. u \in Nat /\ u <= s.pkts
    BY Zenon, <1>1 DEF Counts
  <2>3. s.pkts \in Nat /\ s.free \in Nat /\ Len(s.stream) \in Nat
    BY <1>1 DEF SessionStates
  <2> QED BY Zenon, <2>1, <2>2, <2>3, Constants
<1>4. /\ hit \cap Used(s) = {} /\ IsFiniteSet(hit) /\ Cardinality(hit) = k
      /\ hit \subseteq Slots
  BY Zenon, <1>1, PumpSlots
<1>5. ASSUME NEW j \in 0..(k - 1)
      PROVE  (s.pkts + j) % Window \in hit /\ PumpPut(e, s, (s.pkts + j) % Window) = PumpPacket(e, s, j)
  BY Zenon, <1>1, PumpSlots
<1>6. ASSUME NEW i \in hit PROVE \E j \in 0..(k - 1) : i = (s.pkts + j) % Window
  BY Zenon, <1>1, PumpSlots
<1>7. /\ \A i \in 0..((s.pkts + k) - 1) :
            h2[i] \in Payloads /\ h2[i].len > 0 /\ h2[i].off = Ends(h2, i)
      /\ Ends(h2, s.pkts + k) = PumpSent(s) /\ PumpSent(s) <= s.given
      /\ \A i \in 0..(s.pkts - 1) : h2[i] = h[i]
  BY Zenon, <1>1, PumpMakes
<1>8. ASSUME NEW j \in 0..(k - 1)
      PROVE  LET p == PumpPacket(e, s, j)
             IN  /\ p \in Packets /\ p.dst = Peer(e)
                 /\ p.off = s.sent + j * MaxPayload /\ p.len = PumpLen(s, j) /\ p.len > 0
                 /\ p.num = s.pkts + j /\ p.seq = (s.pkts + j) % SeqMod
                 /\ p.pos = Len(s.stream) /\ p.ack = Len(s.stream) % SeqMod
  BY Zenon, <1>1, PumpPacketIs
<1>9. ASSUME NEW j \in 0..(k - 1)
      PROVE  /\ h2[s.pkts + j].off = s.sent + j * MaxPayload
             /\ h2[s.pkts + j].len = PumpLen(s, j)
  <2>1. s.pkts + j \in Nat /\ ~(s.pkts + j < s.pkts) /\ (s.pkts + j) - s.pkts = j
    BY SMTT(30), <1>3
  <2> QED BY Zenon, <2>1 DEF PumpMade
<1> HIDE DEF t, h2, k, hit
<1>10. SameReceiver(s, t) /\ Grows(s, h, t, h2)
  BY <1>2, <1>3, <1>7 DEF SameReceiver, Grows
<1>11. Counts(t, u)
  BY SMTT(30), <1>1, <1>2, <1>3 DEF Counts
<1>12. Made(t, h2)
  BY Zenon, <1>2, <1>7 DEF Made
<1>13. \A p : PacketOK(e, s, h, p) => PacketOK(e, t, h2, p)
  BY Zenon, <1>1, <1>2, <1>10, PacketStaysOK
<1>14. ASSUME NEW j \in 0..(k - 1) PROVE PacketOK(e, t, h2, PumpPacket(e, s, j))
  <2> DEFINE p == PumpPacket(e, s, j)
  <2>1. p.num < t.pkts /\ p.num <= t.pkts
    <3>1. p.num = s.pkts + j
      BY Zenon, <1>8
    <3> HIDE DEF p
    <3> QED BY SMTT(30), <1>2, <1>3, <3>1
  <2>2. h2[p.num].off = p.off /\ h2[p.num].len = p.len
    BY Zenon, <1>8, <1>9
  <2>3. p.pos <= Len(t.stream)
    BY SMTT(30), <1>2, <1>3, <1>8
  <2> QED BY SMTT(30), <1>8, <2>1, <2>2, <2>3 DEF PacketOK
<1>15. \A p \in t.out : PacketOK(e, t, h2, p)
  <2>1. \A p \in s.out : PacketOK(e, t, h2, p)
    BY Zenon, <1>13 DEF Sender
  <2>2. \A p \in PumpNew(e, s) : PacketOK(e, t, h2, p)
    BY Zenon, <1>14 DEF PumpNew, k
  <2> QED BY Zenon, <1>2, <2>1, <2>2
<1>16. ASSUME NEW j \in 0..(k - 1)
       PROVE  t.slots[(s.pkts + j) % Window] = [used |-> TRUE, due |-> FALSE, pkt |-> PumpPacket(e, s, j)]
  BY Zenon, <1>2, <1>4, <1>5 DEF PumpSlot, hit
<1>17. ASSUME NEW i \in Slots, i \notin hit PROVE t.slots[i] = s.slots[i]
  BY Zenon, <1>2, <1>17 DEF PumpSlot, hit
<1>18. ASSUME NEW i \in Slots, t.slots[i].used
       PROVE  /\ PacketOK(e, t, h2, t.slots[i].pkt) /\ t.slots[i].pkt.len > 0
              /\ u <= t.slots[i].pkt.num /\ i = t.slots[i].pkt.num % Window
  <2>1. CASE i \in hit
    <3>1. PICK j \in 0..(k - 1) : i = (s.pkts + j) % Window
      BY Zenon, <1>6, <2>1
    <3>2. t.slots[i].pkt = PumpPacket(e, s, j)
      <4>1. t.slots[i] = [used |-> TRUE, due |-> FALSE, pkt |-> PumpPacket(e, s, j)]
        BY Zenon, <1>16, <3>1
      <4> QED BY <4>1
    <3>3. PumpPacket(e, s, j).num = s.pkts + j /\ PumpPacket(e, s, j).len > 0
      BY Zenon, <1>8
    <3>4. u <= s.pkts + j
      BY <1>3
    <3> QED BY Zenon, <1>14, <3>1, <3>2, <3>3, <3>4
  <2>2. CASE i \notin hit
    BY Zenon, <1>1, <1>13, <1>17, <1>18, <2>2 DEF Holds
  <2> QED BY <2>1, <2>2
<1>19. ASSUME t.open, NEW m \in u..(t.pkts - 1)
       PROVE  t.slots[m % Window].used /\ t.slots[m % Window].pkt.num = m
  <2>1. CASE m < s.pkts
    <3>1. m \in u..(s.pkts - 1) /\ m \in Int
      BY <1>3, <2>1
    <3>2. s.slots[m % Window].used /\ s.slots[m % Window].pkt.num = m
      BY Zenon, <1>1, <1>2, <1>19, <3>1 DEF Holds
    <3>3. m % Window \in Slots
      BY Zenon, <1>3, <3>1, ModDef DEF Slots
    <3>4. m % Window \notin hit
      BY Zenon, <1>4, <3>2, <3>3 DEF Used
    <3> QED BY Zenon, <1>17, <3>2, <3>3, <3>4
  <2>2. CASE ~(m < s.pkts)
    <3> DEFINE j == m - s.pkts
    <3>1. j \in 0..(k - 1) /\ m = s.pkts + j
      BY SMTT(30), <1>2, <1>3, <2>2
    <3> HIDE DEF j
    <3>2. PumpPacket(e, s, j).num = s.pkts + j
      BY Zenon, <1>8, <3>1
    <3>3. t.slots[m % Window] = [used |-> TRUE, due |-> FALSE, pkt |-> PumpPacket(e, s, j)]
      BY Zenon, <1>16, <3>1
    <3> QED BY SMTT(30), <3>1, <3>2, <3>3
  <2> QED BY Zenon, <2>1, <2>2
<1>20. Holds(e, t, h2, u)
  BY SMTT(30), <1>18, <1>19 DEF Holds
<1>21. Pooled(t, n)
  <2>1. Used(t) = Used(s) \cup hit
    <3>1. ASSUME NEW i \in hit PROVE i \in Slots /\ t.slots[i].used
      <4>1. PICK j \in 0..(k - 1) : i = (s.pkts + j) % Window
        BY Zenon, <1>6
      <4>2. t.slots[i] = [used |-> TRUE, due |-> FALSE, pkt |-> PumpPacket(e, s, j)]
        BY Zenon, <1>16, <4>1
      <4> QED BY <1>4, <4>2
    <3> QED BY Zenon, <1>17, <3>1 DEF Used
  <2>2. IsFiniteSet(Used(s)) /\ Cardinality(Used(s)) \in Nat
    BY Zenon, UsedFinite
  <2>3. Used(s) \cap hit = {} /\ Cardinality({}) = 0
    BY Zenon, <1>4, FS_EmptySet
  <2>4. Cardinality(Used(t)) = Cardinality(Used(s)) + k
    <3>1. Cardinality(Used(s) \cup hit)
            = Cardinality(Used(s)) + Cardinality(hit) - Cardinality(Used(s) \cap hit)
      BY Zenon, <1>4, <2>2, FS_Union
    <3>2. Cardinality(Used(t)) = Cardinality(Used(s)) + k - 0
      BY Zenon, <1>4, <2>1, <2>3, <3>1
    <3> QED BY SMTT(30), <1>3, <2>2, <3>2
  <2> QED BY SMTT(30), <1>1, <1>2, <1>3, <2>2, <2>4 DEF Pooled
<1>22. Sender(e, t, h2, u, n)
  BY Zenon, <1>2, <1>11, <1>12, <1>15, <1>20, <1>21 DEF Sender
<1> QED BY Zenon, <1>10, <1>22 DEF t, h2

----------------------------------------------------------------------------
(* Steps that leave the sending half of a session alone. *)
SameSender(s, t) ==
    /\ s.given <= t.given /\ t.sent = s.sent /\ t.next = s.next /\ t.una = s.una
    /\ t.slots = s.slots /\ t.out \subseteq s.out /\ t.open = s.open /\ t.pkts = s.pkts
    /\ Len(s.stream) <= Len(t.stream)

LEMMA SenderStays ==
  ASSUME NEW e, NEW s, NEW t \in SessionStates, NEW h, NEW u, NEW n \in Nat, NEW n2 \in Nat,
         Sender(e, s, h, u, n), SameSender(s, t), n2 - n = t.free - s.free
  PROVE  Sender(e, t, h, u, n2) /\ Grows(s, h, t, h)
<1> USE DEF SameSender
<1>1. /\ s \in SessionStates /\ Counts(s, u) /\ Made(s, h) /\ Holds(e, s, h, u)
      /\ Pooled(s, n) /\ \A p \in s.out : PacketOK(e, s, h, p)
  BY Zenon DEF Sender
<1>2. /\ s.pkts \in Nat /\ s.sent \in Nat /\ s.given \in Nat /\ t.given \in Nat
      /\ s.free \in Nat /\ t.free \in Nat
  BY Zenon, <1>1 DEF SessionStates
<1>3. Grows(s, h, t, h)
  BY <1>2 DEF Grows
<1>4. \A p : PacketOK(e, s, h, p) => PacketOK(e, t, h, p)
  BY Zenon, <1>1, <1>3, PacketStaysOK
<1>5. Counts(t, u)
  BY Zenon, <1>1 DEF Counts
<1>6. Made(t, h)
  <2>1. t.sent <= t.given
    BY <1>1, <1>2 DEF Made
  <2>2. t.pkts = s.pkts /\ t.sent = s.sent
    BY Zenon
  <2> QED BY Zenon, <1>1, <2>1, <2>2 DEF Made
<1>7. Holds(e, t, h, u)
  BY Zenon, <1>1, <1>4 DEF Holds
<1>8. Pooled(t, n2)
  <2>1. Used(t) = Used(s) /\ Cardinality(Used(s)) \in Nat
    BY Zenon, UsedFinite DEF Used
  <2> DEFINE c == Cardinality(Used(s))
             a == s.free
             b == t.free
  <2>2. a + c = n /\ n2 - n = b - a /\ a \in Int /\ b \in Int /\ c \in Int
    BY <1>1, <1>2, <2>1 DEF Pooled
  <2> HIDE DEF a, b, c
  <2>3. b + c = n2
    BY <2>2
  <2> QED BY Zenon, <2>1, <2>3 DEF Pooled, b, c
<1> QED BY Zenon, <1>1, <1>3, <1>4, <1>5, <1>6, <1>7, <1>8 DEF Sender

LEMMA ReceiverStays ==
  ASSUME NEW r \in SessionStates, NEW h, NEW n \in Nat, NEW h2, NEW n2 \in Nat,
         Receiver(r, h, n), n <= n2, \A i \in 0..(n - 1) : h2[i] = h[i]
  PROVE  Receiver(r, h2, n2)
<1>1. Len(r.stream) \in Nat /\ r.rcvd \subseteq Slots /\ Window \in Nat
  BY Constants DEF SessionStates
<1>2. ASSUME NEW i \in 1..Len(r.stream) PROVE h2[i - 1] = h[i - 1]
  <2>1. i - 1 \in 0..(n - 1)
    BY <1>1 DEF Receiver
  <2> QED BY Zenon, <2>1
<1>3. ASSUME NEW d \in r.rcvd
      PROVE  Len(r.stream) + d < n2 /\ h2[Len(r.stream) + d] = h[Len(r.stream) + d]
  <2>1. d \in Nat /\ Len(r.stream) + d < n
    BY <1>1 DEF Receiver, Slots
  <2>2. Len(r.stream) + d \in 0..(n - 1)
    BY <1>1, <2>1
  <2> QED BY <1>1, <2>1, <2>2
<1>4. Len(r.stream) <= n2
  BY <1>1 DEF Receiver
<1> QED BY Zenon, <1>2, <1>3, <1>4 DEF Receiver

(* The receiving half depends on four fields. *)
LEMMA ReceiverSame ==
  ASSUME NEW r, NEW t, NEW h, NEW n, Receiver(r, h, n), SameReceiver(r, t)
  PROVE  Receiver(t, h, n)
BY Zenon DEF Receiver, SameReceiver

(* A packet of the peer, not delayed beyond MaxLag, is told apart from all  *)
(* others by its sequence number: mark_received takes it for the packet it  *)
(* is.                                                                      *)
LEMMA BitsAre ==
  ASSUME NEW r \in SessionStates, NEW n \in Nat, NEW num \in Nat,
         r.base = Len(r.stream) % SeqMod, n - Len(r.stream) <= Window, Len(r.stream) <= n,
         num < n, n - num <= MaxLag
  PROVE  MarkReceived(r, num % SeqMod) = ({num - Len(r.stream)} \cap Slots) \ r.rcvd
<1>1. Len(r.stream) \in Nat
  BY DEF SessionStates
<1> DEFINE D == Len(r.stream)
<1> HIDE DEF D
<1>2. D \in Nat /\ n - D <= Window /\ D <= n
  BY Zenon, <1>1 DEF D
<1>3. num \in Int /\ D \in Int /\ D - num <= SeqMod \div 2 /\ num - D < SeqMod \div 2
  BY <1>2, Constants
<1>4. SignedDiff(num % SeqMod, D % SeqMod) = num - D
  BY Zenon, <1>3, SignedDiffIs
<1>5. MarkReceived(r, num % SeqMod) = {d \in Slots : num - D = d} \ r.rcvd
  BY Zenon, <1>4 DEF MarkReceived, D
<1> QED BY Zenon, <1>5 DEF D

LEMMA OnDataKeeps ==
  ASSUME NEW r \in SessionStates, NEW h, NEW n \in Nat, NEW p \in Packets,
         Receiver(r, h, n), n - Len(r.stream) <= Window,
         p.seq = p.num % SeqMod, p.num < n, n - p.num <= MaxLag,
         h[p.num] = [off |-> p.off, len |-> p.len]
  PROVE  LET t == OnData(r, p)
         IN  /\ t \in SessionStates /\ Receiver(t, h, n)
             /\ t.given = r.given /\ t.sent = r.sent /\ t.next = r.next /\ t.una = r.una
             /\ t.slots = r.slots /\ t.free = r.free /\ t.out = r.out /\ t.open = r.open
             /\ t.pkts = r.pkts /\ t.stream = r.stream /\ t.base = r.base
<1> DEFINE t == OnData(r, p)
           D == Len(r.stream)
           bits == MarkReceived(r, p.seq)
           pay == [off |-> p.off, len |-> p.len]
           rc == r.rcvd \cup bits
           re == IF bits = {} THEN r.reasm ELSE [r.reasm EXCEPT ![p.seq % Window] = pay]
<1>1. /\ D \in Nat /\ r.rcvd \subseteq Slots /\ r.reasm \in [Slots -> Payloads] /\ r.ack \in BOOLEAN
      /\ Window \in Nat \ {0} /\ r.base = D % SeqMod /\ D <= n
  <2>1. D \in Nat /\ r.rcvd \subseteq Slots /\ r.reasm \in [Slots -> Payloads] /\ r.ack \in BOOLEAN
    BY DEF SessionStates
  <2>2. r.base = D % SeqMod /\ D <= n
    BY Zenon DEF Receiver
  <2> QED BY Zenon, <2>1, <2>2, Constants
<1>2. p.num \in Nat /\ pay \in Payloads
  BY Zenon DEF Packets, Payloads
<1>3. bits = ({p.num - D} \cap Slots) \ r.rcvd
  BY Zenon, <1>1, <1>2, BitsAre
<1>4. p.seq % Window = p.num % Window /\ p.num % Window \in Slots
  <2>1. p.num \in Int
    BY <1>2
  <2> QED BY Zenon, <1>1, <2>1, SlotOfSeq, ModDef DEF Slots
<1>5. rc \in SUBSET Slots /\ re \in [Slots -> Payloads]
  BY Zenon, <1>1, <1>2, <1>3, <1>4
<1>6. t = [r EXCEPT !.rcvd = rc, !.reasm = re, !.ack = r.ack \/ TRUE]
  BY Zenon DEF OnData, AsksForAck
<1>7. (r.ack \/ TRUE) \in BOOLEAN
  BY Zenon
<1> HIDE DEF t, bits, pay, rc, re
<1>8. t \in SessionStates
  BY Zenon, <1>5, <1>6, <1>7 DEF SessionStates
<1>9. /\ t.rcvd = rc /\ t.reasm = re
      /\ t.given = r.given /\ t.sent = r.sent /\ t.next = r.next /\ t.una = r.una
      /\ t.slots = r.slots /\ t.free = r.free /\ t.out = r.out /\ t.open = r.open
      /\ t.pkts = r.pkts /\ t.stream = r.stream /\ t.base = r.base
  BY Zenon, <1>6 DEF SessionStates
<1> HIDE DEF D
<1>10. ASSUME NEW d \in r.rcvd PROVE d \in Slots /\ D + d < n /\ r.reasm[(D + d) % Window] = h[D + d]
  BY Zenon, <1>1 DEF Receiver, D
<1>11. ASSUME NEW d \in rc PROVE D + d < n /\ re[(D + d) % Window] = h[D + d]
  <2>1. CASE bits = {}
    BY Zenon, <1>10, <2>1 DEF rc, re
  <2>2. CASE bits # {}
    <3> DEFINE b == p.num - D
    <3>1. bits = {b} /\ b \in Slots /\ b \notin r.rcvd
      BY Zenon, <1>3, <2>2
    <3>2. D + b = p.num
      BY <1>1, <1>2
    <3> HIDE DEF b
    <3>3. re = [r.reasm EXCEPT ![p.num % Window] = pay]
      BY Zenon, <1>4, <2>2 DEF re
    <3>4. CASE d = b
      <4>1. re[p.num % Window] = pay
        BY Zenon, <1>1, <1>4, <3>3
      <4> QED BY Zenon, <3>2, <3>4, <4>1 DEF pay
    <3>5. CASE d # b
      <4>1. d \in r.rcvd /\ d \in Slots
        BY SMTT(30), <1>10, <3>1, <3>5 DEF rc
      <4> DEFINE x == D + d
                 y == D + b
      <4>2. /\ x \in Int /\ y \in Int /\ (x < y \/ y < x) /\ y - x < Window
            /\ x - y < Window
        BY <1>1, <3>1, <3>5, <4>1 DEF Slots
      <4> HIDE DEF x, y
      <4>3. x % Window # y % Window
        BY Zenon, <1>1, <4>2, ModDistinct
      <4>4. x % Window \in Slots
        BY Zenon, <1>1, <4>2, ModDef DEF Slots
      <4>5. re[x % Window] = r.reasm[x % Window]
        BY SMTT(30), <1>1, <3>2, <3>3, <4>3, <4>4 DEF y
      <4> QED BY Zenon, <1>10, <4>1, <4>5 DEF x
    <3> QED BY Zenon, <3>4, <3>5
  <2> QED BY Zenon, <2>1, <2>2
<1>12. Receiver(t, h, n)
  <2>1. Len(t.stream) = D
    BY Zenon, <1>9 DEF D
  <2>2. t.base = D % SeqMod /\ (\A i \in 1..D : t.stream[i] = h[i - 1])
    BY Zenon, <1>1, <1>9 DEF Receiver, D
  <2> QED BY Zenon, <1>1, <1>9, <1>11, <2>1, <2>2 DEF Receiver
<1> QED BY Zenon, <1>8, <1>9, <1>12 DEF t

(* deliver_in_order hands on the payloads that come next, and no other.     *)
LEMMA DeliverKeeps ==
  ASSUME NEW r \in SessionStates, NEW h, NEW n \in Nat, Receiver(r, h, n)
  PROVE  LET t == DeliverInOrder(r)
         IN  /\ t \in SessionStates /\ Receiver(t, h, n) /\ 0 \notin t.rcvd
             /\ Len(t.stream) - Len(r.stream) \in 0..Window
             /\ t.given = r.given /\ t.sent = r.sent /\ t.next = r.next /\ t.una = r.una
             /\ t.slots = r.slots /\ t.free = r.free /\ t.out = r.out /\ t.open = r.open
             /\ t.pkts = r.pkts
<1> DEFINE t == DeliverInOrder(r)
           D == Len(r.stream)
           m == Run(r)
           q == [k \in 1..m |-> r.reasm[(r.base + (k - 1)) % Window]]
           st == r.stream \o q
           re == [i \in Slots |-> IF \E k \in 0..(m - 1) : (r.base + k) % Window = i
                                  THEN Nothing ELSE r.reasm[i]]
           rc == Advance(r, m)
           ba == AddSeq(r.base, m)
<1>1. D \in Nat /\ r.rcvd \subseteq Slots /\ r.reasm \in [Slots -> Payloads] /\ r.stream \in Seq(Payloads)
  BY DEF SessionStates
<1>2. r.base = D % SeqMod /\ D <= n /\ Window \in Nat \ {0}
  BY Zenon, Constants DEF Receiver
<1>3. m \in 0..Window /\ m \in Nat /\ m \notin r.rcvd /\ 0..(m - 1) \subseteq r.rcvd
  BY <1>1, <1>2, RunIs
<1>4. t = [r EXCEPT !.stream = st, !.reasm = re, !.rcvd = rc, !.base = ba]
  BY Zenon DEF DeliverInOrder
<1> HIDE DEF m, t
<1>5. ASSUME NEW k \in Int PROVE (r.base + k) % Window = (D + k) % Window /\ (D + k) % Window \in Slots
  <2>1. D \in Int /\ D + k \in Int
    BY <1>1
  <2> HIDE DEF D
  <2>2. ((D % SeqMod) + k) % Window = (D + k) % Window
    BY Zenon, <2>1, SlotOfSum
  <2>3. (D + k) % Window \in Slots
    BY Zenon, <1>2, <2>1, ModDef DEF Slots
  <2> QED BY Zenon, <1>2, <2>2, <2>3
<1>6. ASSUME NEW d \in r.rcvd PROVE d \in Slots /\ D + d < n /\ r.reasm[(D + d) % Window] = h[D + d]
  BY Zenon, <1>1 DEF Receiver
<1>7. q \in Seq(Payloads) /\ Len(q) = m /\ \A k \in 1..m : q[k] = h[D + (k - 1)]
  <2>1. ASSUME NEW k \in 1..m
        PROVE  /\ r.reasm[(r.base + (k - 1)) % Window] = h[D + (k - 1)]
               /\ r.reasm[(r.base + (k - 1)) % Window] \in Payloads
    <3> DEFINE j == k - 1
    <3>1. j \in 0..(m - 1) /\ j \in Int
      BY <1>3
    <3> HIDE DEF j
    <3>2. (r.base + j) % Window = (D + j) % Window /\ (D + j) % Window \in Slots
      BY Zenon, <1>5, <3>1
    <3>3. r.reasm[(D + j) % Window] = h[D + j]
      BY Zenon, <1>3, <1>6, <3>1
    <3> QED BY Zenon, <1>1, <3>2, <3>3 DEF j
  <2>2. q \in [1..m -> Payloads]
    BY Zenon, <2>1
  <2> QED BY <1>3, <2>1, <2>2
<1> HIDE DEF q
<1>8. /\ st \in Seq(Payloads) /\ Len(st) = D + m
      /\ \A i \in 1..(D + m) : st[i] = h[i - 1]
  <2>1. st \in Seq(Payloads) /\ Len(st) = D + m
    BY Zenon, <1>1, <1>7, JoinOf
  <2>2. ASSUME NEW i \in 1..(D + m) PROVE st[i] = h[i - 1]
    <3>1. st[i] = IF i <= D THEN r.stream[i] ELSE q[i - D]
      BY Zenon, <1>1, <1>7, <2>1, JoinOf
    <3>2. CASE i <= D
      <4>1. i \in 1..D
        BY <1>1, <3>2
      <4> QED BY Zenon, <3>1, <3>2, <4>1 DEF Receiver
    <3>3. CASE ~(i <= D)
      <4>1. i - D \in 1..m /\ D + ((i - D) - 1) = i - 1
        BY <1>1, <1>3, <3>3
      <4> QED BY Zenon, <1>7, <3>1, <3>3, <4>1
    <3> QED BY Zenon, <3>2, <3>3
  <2> QED BY Zenon, <2>1, <2>2
<1>9. re \in [Slots -> Payloads]
  <2>1. Nothing \in Payloads
    BY Constants DEF Nothing, Payloads
  <2> QED BY Zenon, <1>1, <2>1
<1>10. ASSUME NEW x \in rc PROVE x \in Slots /\ x + m \in r.rcvd
  <2>1. PICK d \in r.rcvd : d >= m /\ x = d - m
    BY Zenon DEF Advance
  <2>2. d \in Slots
    BY Zenon, <1>1
  <2> HIDE DEF rc
  <2>3. d \in Int /\ 0 <= d /\ d <= Window - 1 /\ d >= m /\ x = d - m /\ m \in Nat
    BY SMTT(30), <1>2, <1>3, <2>1, <2>2 DEF Slots
  <2>4. x + m = d /\ x \in Int /\ 0 <= x /\ x <= Window - 1
    BY <1>2, <2>3
  <2> QED BY <1>2, <2>4 DEF Slots
<1>11. rc \in SUBSET Slots
  BY Zenon, <1>10
<1>12. 0 \notin rc
  <2>1. 0 + m = m
    BY <1>3
  <2> QED BY Zenon, <1>3, <1>10, <2>1
<1>13. ba = (D + m) % SeqMod /\ ba \in SeqNums
  <2>1. D \in Int /\ m \in Int
    BY <1>1, <1>3
  <2> HIDE DEF D
  <2> QED BY Zenon, <1>2, <2>1, SeqAdd
<1>14. ASSUME NEW x \in rc
       PROVE  (D + m) + x < n /\ re[((D + m) + x) % Window] = h[(D + m) + x]
  <2> DEFINE d == x + m
             y == D + d
  <2>1. d \in r.rcvd /\ x \in Slots /\ d \in Slots
    BY Zenon, <1>1, <1>10
  <2> HIDE DEF rc
  <2>2. y = (D + m) + x /\ y \in Int /\ d \in Nat /\ x \in Int /\ 0 <= x /\ d <= Window - 1
    <3> HIDE DEF D
    <3>1. x \in Int /\ 0 <= x /\ d \in Nat /\ d <= Window - 1
      BY <1>2, <2>1 DEF Slots
    <3> QED BY <1>1, <1>3, <3>1
  <2>3. y < n /\ r.reasm[y % Window] = h[y]
    BY Zenon, <1>6, <2>1
  <2>4. y % Window \in Slots
    BY Zenon, <1>2, <2>2, ModDef DEF Slots
  <2>5. ASSUME NEW k \in 0..(m - 1) PROVE (r.base + k) % Window # y % Window
    <3> DEFINE z == D + k
    <3>1. k \in Int /\ z \in Int /\ z < y /\ y - z < Window
      <4> HIDE DEF D
      <4>1. D \in Nat /\ m \in Nat /\ Window \in Nat /\ k \in Int /\ 0 <= k /\ k <= m - 1
        BY <1>1, <1>2, <1>3
      <4> QED BY <2>2, <4>1
    <3> HIDE DEF z, y
    <3>2. z % Window # y % Window
      BY Zenon, <1>2, <2>2, <3>1, ModDistinct
    <3>3. (r.base + k) % Window = z % Window
      BY Zenon, <1>5, <3>1 DEF z
    <3> QED BY Zenon, <3>2, <3>3
  <2> HIDE DEF y
  <2>6. re[y % Window] = r.reasm[y % Window]
    BY Zenon, <2>4, <2>5
  <2> QED BY Zenon, <2>2, <2>3, <2>6
<1> HIDE DEF st, re, rc, ba
<1>15. t \in SessionStates
  BY Zenon, <1>4, <1>8, <1>9, <1>11, <1>13 DEF SessionStates
<1>16. /\ t.stream = st /\ t.reasm = re /\ t.rcvd = rc /\ t.base = ba
       /\ t.given = r.given /\ t.sent = r.sent /\ t.next = r.next /\ t.una = r.una
       /\ t.slots = r.slots /\ t.free = r.free /\ t.out = r.out /\ t.open = r.open
       /\ t.pkts = r.pkts
  BY Zenon, <1>4 DEF SessionStates
<1>17. D + m <= n
  <2>1. CASE m = 0
    BY SMTT(30), <1>1, <1>2, <2>1
  <2>2. CASE m # 0
    <3>1. m - 1 \in 0..(m - 1)
      BY <1>3, <2>2
    <3>2. D + (m - 1) < n
      BY Zenon, <1>3, <1>6, <3>1
    <3> QED BY SMTT(30), <1>1, <1>3, <3>2
  <2> QED BY Zenon, <2>1, <2>2
<1>18. Receiver(t, h, n)
  BY Zenon, <1>8, <1>13, <1>14, <1>16, <1>17 DEF Receiver
<1>19. Len(t.stream) - D \in 0..Window
  BY SMTT(30), <1>1, <1>3, <1>8, <1>16
<1> QED BY Zenon, <1>12, <1>15, <1>16, <1>18, <1>19 DEF t

----------------------------------------------------------------------------
LEMMA RetransmitKeeps ==
  ASSUME NEW e, NEW s, NEW h, NEW u, NEW n \in Nat, Sender(e, s, h, u, n)
  PROVE  LET t == Retransmit(s)
         IN  Sender(e, t, h, u, n) /\ SameReceiver(s, t) /\ Grows(s, h, t, h)
<1> DEFINE t == Retransmit(s)
           due == {i \in Used(s) : s.slots[i].due}
           sl == [i \in Slots |-> IF i \in due THEN [s.slots[i] EXCEPT !.due = FALSE] ELSE s.slots[i]]
           out == {s.slots[i].pkt : i \in due}
<1>1. /\ s \in SessionStates /\ Counts(s, u) /\ Made(s, h) /\ Holds(e, s, h, u) /\ Pooled(s, n)
  BY Zenon DEF Sender
<1>2. /\ s.pkts \in Nat /\ Len(s.stream) \in Nat /\ s.slots \in [Slots -> SlotStates]
  BY <1>1 DEF SessionStates
<1>3. t = [s EXCEPT !.slots = sl, !.out = out]
  BY Zenon DEF Retransmit
<1>4. ASSUME NEW i \in Used(s)
      PROVE  s.slots[i] \in [used : {TRUE}, due : BOOLEAN, pkt : Packets] /\ i \in Slots
  <2>1. i \in Slots /\ s.slots[i].used /\ s.slots[i] \in SlotStates
    BY Zenon, <1>2 DEF Used
  <2>2. s.slots[i] # Free
    BY <2>1 DEF Free
  <2> QED BY Zenon, <2>1, <2>2 DEF SlotStates
<1>5. ASSUME NEW i \in Slots
      PROVE  sl[i] \in SlotStates /\ sl[i].used = s.slots[i].used /\ sl[i].pkt = s.slots[i].pkt
  <2>1. CASE i \in due
    <3>1. s.slots[i] \in [used : {TRUE}, due : BOOLEAN, pkt : Packets]
      BY Zenon, <1>4, <2>1
    <3>2. sl[i] = [s.slots[i] EXCEPT !.due = FALSE]
      BY Zenon, <2>1
    <3> HIDE DEF sl
    <3>3. /\ sl[i] \in [used : {TRUE}, due : BOOLEAN, pkt : Packets]
          /\ sl[i].used = s.slots[i].used /\ sl[i].pkt = s.slots[i].pkt
      BY Zenon, <3>1, <3>2
    <3> QED BY Zenon, <3>3 DEF SlotStates
  <2>2. CASE i \notin due
    BY Zenon, <1>2, <2>2
  <2> QED BY Zenon, <2>1, <2>2
<1>6. sl \in [Slots -> SlotStates] /\ out \in SUBSET Packets
  BY Zenon, <1>4, <1>5
<1> HIDE DEF t, sl, out
<1>7. t \in SessionStates
  BY Zenon, <1>1, <1>3, <1>6 DEF SessionStates
<1>8. /\ t.slots = sl /\ t.out = out /\ t.free = s.free /\ t.una = s.una
      /\ t.given = s.given /\ t.sent = s.sent /\ t.next = s.next /\ t.base = s.base
      /\ t.rcvd = s.rcvd /\ t.reasm = s.reasm /\ t.open = s.open
      /\ t.pkts = s.pkts /\ t.stream = s.stream
  BY Zenon, <1>1, <1>3 DEF SessionStates
<1>9. SameReceiver(s, t) /\ Grows(s, h, t, h)
  BY <1>2, <1>8 DEF SameReceiver, Grows
<1>10. Counts(t, u) /\ Made(t, h)
  BY Zenon, <1>1, <1>8 DEF Counts, Made
<1>11. \A p : PacketOK(e, s, h, p) => PacketOK(e, t, h, p)
  BY Zenon, <1>8 DEF PacketOK
<1>12. \A m \in Int : m % Window \in Slots
  BY Zenon, Constants, ModDef DEF Slots
<1>13. Holds(e, t, h, u)
  <2>1. \A i \in Slots : t.slots[i].used = s.slots[i].used /\ t.slots[i].pkt = s.slots[i].pkt
    BY Zenon, <1>5, <1>8
  <2>2. \A m \in u..(s.pkts - 1) : m % Window \in Slots
    BY <1>12
  <2> QED BY Zenon, <1>1, <1>8, <1>11, <2>1, <2>2 DEF Holds
<1>14. Pooled(t, n)
  <2>1. Used(t) = Used(s)
    BY Zenon, <1>5, <1>8 DEF Used
  <2> QED BY Zenon, <1>1, <1>8, <2>1 DEF Pooled
<1>15. \A p \in t.out : PacketOK(e, t, h, p)
  <2>1. \A i \in due : i \in Slots /\ s.slots[i].used
    BY Zenon DEF Used
  <2>2. \A i \in due : PacketOK(e, s, h, s.slots[i].pkt)
    BY Zenon, <1>1, <2>1 DEF Holds
  <2> QED BY Zenon, <1>8, <1>11, <2>2 DEF out
<1> QED BY Zenon, <1>7, <1>9, <1>10, <1>13, <1>14, <1>15 DEF Sender, t

LEMMA SendAckKeeps ==
  ASSUME NEW e \in Sessions, NEW s, NEW h, NEW u, NEW n \in Nat, Sender(e, s, h, u, n),
         s.base = Len(s.stream) % SeqMod, 0 \notin s.rcvd
  PROVE  LET t == SendAck(e, s)
         IN  Sender(e, t, h, u, n) /\ SameReceiver(s, t) /\ Grows(s, h, t, h)
<1> DEFINE t == SendAck(e, s)
           p == Packet(e, s, 0, 0, 0)
<1>1. /\ s \in SessionStates /\ Counts(s, u) /\ Made(s, h) /\ Holds(e, s, h, u) /\ Pooled(s, n)
      /\ \A a \in s.out : PacketOK(e, s, h, a)
  BY Zenon DEF Sender
<1>2. s.pkts \in Nat /\ Len(s.stream) \in Nat /\ s.next = s.pkts % SeqMod /\ s.out \in SUBSET Packets
  BY SMTT(30), <1>1 DEF SessionStates, Counts
<1>3. CASE ~s.ack
  <2>1. t = s
    BY Zenon, <1>3 DEF SendAck
  <2> QED BY <1>2, <2>1 DEF SameReceiver, Grows
<1>4. CASE s.ack
  <2>1. /\ p \in Packets /\ p.dst = Peer(e) /\ p.len = 0 /\ p.num = s.pkts + 0
        /\ p.seq = (s.pkts + 0) % SeqMod /\ p.pos = Len(s.stream) /\ p.ack = Len(s.stream) % SeqMod
    <3>1. 0 \in Nat /\ 0 \in 0..MaxPayload
      BY Constants
    <3> QED BY SMTT(30), <1>1, <1>2, <3>1, PacketIs
  <2>2. s.pkts + 0 = s.pkts
    BY <1>2
  <2>3. t = [s EXCEPT !.out = s.out \cup {p}, !.ack = FALSE]
    BY Zenon, <1>4 DEF SendAck
  <2> HIDE DEF t, p
  <2>4. PacketOK(e, s, h, p)
    BY SMTT(30), <1>2, <2>1, <2>2 DEF PacketOK
  <2>5. t \in SessionStates
    BY Zenon, <1>1, <1>2, <2>1, <2>3 DEF SessionStates
  <2>6. /\ t.slots = s.slots /\ t.out = s.out \cup {p} /\ t.free = s.free /\ t.una = s.una
        /\ t.given = s.given /\ t.sent = s.sent /\ t.next = s.next /\ t.base = s.base
        /\ t.rcvd = s.rcvd /\ t.reasm = s.reasm /\ t.open = s.open
        /\ t.pkts = s.pkts /\ t.stream = s.stream
    BY Zenon, <1>1, <2>3 DEF SessionStates
  <2>7. SameReceiver(s, t) /\ Grows(s, h, t, h)
    BY <1>2, <2>6 DEF SameReceiver, Grows
  <2>8. Counts(t, u) /\ Made(t, h)
    BY Zenon, <1>1, <2>6 DEF Counts, Made
  <2>9. \A a : PacketOK(e, s, h, a) => PacketOK(e, t, h, a)
    BY Zenon, <2>6 DEF PacketOK
  <2>10. Holds(e, t, h, u)
    BY Zenon, <1>1, <2>6, <2>9 DEF Holds
  <2>11. Pooled(t, n)
    BY Zenon, <1>1, <2>6 DEF Pooled, Used
  <2>12. \A a \in t.out : PacketOK(e, t, h, a)
    BY Zenon, <1>1, <2>4, <2>6, <2>9
  <2> QED BY Zenon, <2>5, <2>7, <2>8, <2>10, <2>11, <2>12 DEF Sender, t
<1>5. s.ack \in BOOLEAN
  BY Zenon, <1>1 DEF SessionStates
<1> QED BY Zenon, <1>3, <1>4, <1>5

LEMMA ReleaseKeeps ==
  ASSUME NEW e, NEW s, NEW h, NEW u, NEW n \in Nat, Sender(e, s, h, u, n), s.out = {}
  PROVE  LET t == [ReleaseAll(s) EXCEPT !.open = FALSE]
         IN  /\ Sender(e, t, h, u, n) /\ Grows(s, h, t, h) /\ t.out = {}
             /\ t.base = s.base /\ t.rcvd = s.rcvd /\ t.reasm = s.reasm /\ t.stream = s.stream
<1> DEFINE sl == [i \in Slots |-> Free]
           fr == s.free + Cardinality(Used(s))
           m == [s EXCEPT !.slots = sl, !.free = fr]
           t == [m EXCEPT !.open = FALSE]
<1>1. /\ s \in SessionStates /\ Counts(s, u) /\ Made(s, h) /\ Pooled(s, n)
  BY Zenon DEF Sender
<1>2. /\ s.pkts \in Nat /\ Len(s.stream) \in Nat /\ sl \in [Slots -> SlotStates] /\ fr \in Nat
      /\ Cardinality(Used(s)) \in Nat /\ s.free \in Nat
  BY <1>1, UsedFinite DEF SessionStates, SlotStates
<1>3. ReleaseAll(s) = m
  BY Zenon DEF ReleaseAll
<1> HIDE DEF sl, fr
<1>4. /\ m \in SessionStates /\ m.slots = sl /\ m.free = fr /\ m.una = s.una /\ m.out = s.out
      /\ m.given = s.given /\ m.sent = s.sent /\ m.next = s.next /\ m.base = s.base
      /\ m.rcvd = s.rcvd /\ m.reasm = s.reasm /\ m.pkts = s.pkts /\ m.stream = s.stream
  BY Zenon, <1>1, <1>2 DEF SessionStates
<1> HIDE DEF m
<1>5. /\ t \in SessionStates /\ t.slots = sl /\ t.free = fr /\ t.una = s.una /\ t.out = s.out
      /\ t.given = s.given /\ t.sent = s.sent /\ t.next = s.next /\ t.base = s.base
      /\ t.rcvd = s.rcvd /\ t.reasm = s.reasm /\ t.pkts = s.pkts /\ t.stream = s.stream
      /\ t.open = FALSE
  BY Zenon, <1>4 DEF SessionStates
<1> HIDE DEF t
<1>6. Grows(s, h, t, h)
  BY <1>2, <1>5 DEF Grows
<1>7. Counts(t, u) /\ Made(t, h)
  BY Zenon, <1>1, <1>5 DEF Counts, Made
<1>8. \A i \in Slots : t.slots[i].used = FALSE
  BY <1>5 DEF sl, Free
<1>9. Holds(e, t, h, u)
  BY Zenon, <1>5, <1>8 DEF Holds
<1>10. Pooled(t, n)
  <2>1. Used(t) = {}
    BY Zenon, <1>8 DEF Used
  <2>2. Cardinality(Used(t)) = 0
    BY Zenon, <2>1, FS_EmptySet
  <2>3. fr = n
    BY Zenon, <1>1 DEF Pooled, fr
  <2> QED BY SMTT(30), <1>5, <2>2, <2>3 DEF Pooled
<1>11. Sender(e, t, h, u, n)
  BY Zenon, <1>5, <1>7, <1>9, <1>10 DEF Sender
<1> QED BY Zenon, <1>3, <1>5, <1>6, <1>11 DEF t
=============================================================================
