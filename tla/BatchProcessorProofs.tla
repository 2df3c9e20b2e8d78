------------------------ MODULE BatchProcessorProofs ------------------------
(***************************************************************************)
(* For any number of buffers, any batch size, any ports and handlers and    *)
(* any number of packets: run_once keeps every buffer in one place, hands   *)
(* the packets over in order, keeps a view alive until its handler has been *)
(* flushed, and flushes each handler it used once.                          *)
(***************************************************************************)
EXTENDS BatchProcessor, ProofBasics

Packets == [port : Ports \cup {None}, num : Nat]

BatchTypeOK ==
  /\ list \in Seq(Buffers) /\ queue \in Seq(Buffers) /\ batch \in Seq(Buffers)
  /\ out \subseteq Buffers /\ content \in [Buffers -> Packets \cup {None}]
  /\ submitted \in Nat /\ at \in Nat /\ touched \in Seq(Handlers)
  /\ pc \in {"pop", "dispatch", "flush", "release"}
  /\ udp_handlers \in [Ports -> Handlers \cup {None}]
  /\ default_handler \in Handlers \cup {None}
  /\ handled \in Seq(Nat) /\ unflushed \in [Handlers -> SUBSET (Buffers \X Packets)]

(* Where run_once is in its batch, and when it has handlers to flush. *)
Phases ==
  /\ pc \in {"pop", "flush"} => at = 1
  /\ pc # "pop" => at \in 1..Len(batch)
  /\ pc \in {"pop", "release"} => touched = <<>>

(* The part of the batch not yet given back, and the part of it whose       *)
(* packets have not been looked at.                                         *)
First == IF pc = "release" THEN at ELSE 1
Held == First..Len(batch)
Left == IF pc = "pop" THEN 1..Len(batch)
        ELSE IF pc = "dispatch" THEN at..Len(batch) ELSE {}

(* No buffer is twice in the pool, the queue or the batch, nor in two of    *)
(* these; the pool's account of what is out is right; none is missing.      *)
ListPlaced ==
  /\ \A i, j \in 1..Len(list) : list[i] = list[j] => i = j
  /\ \A i \in 1..Len(list) : list[i] \notin out
QueuePlaced ==
  /\ \A i, j \in 1..Len(queue) : queue[i] = queue[j] => i = j
  /\ \A i \in 1..Len(queue) : queue[i] \in out
HeldPlaced ==
  /\ \A i, j \in Held : batch[i] = batch[j] => i = j
  /\ \A i \in Held : batch[i] \in out
  /\ \A i \in 1..Len(queue), j \in Held : queue[i] # batch[j]
NoneMissing ==
  \A b \in Buffers : \/ \E i \in 1..Len(list) : list[i] = b
                     \/ \E i \in 1..Len(queue) : queue[i] = b
                     \/ \E i \in Held : batch[i] = b
AllCounted == Len(list) + Len(queue) + (Len(batch) - First + 1) = BufferCount
Placed == ListPlaced /\ QueuePlaced /\ HeldPlaced /\ NoneMissing /\ AllCounted

Filled == \A b \in out : content[b] \in Packets /\ content[b].num <= submitted

Waits(q, h) == \E i \in 1..Len(q) : q[i] = h

(* The handlers to flush are those with views, none twice. *)
Marked ==
  /\ \A i, j \in 1..Len(touched) : touched[i] = touched[j] => i = j
  /\ \A h \in Handlers : Waits(touched, h) <=> unflushed[h] # {}

(* Handled, left in the batch, queued: the numbers increase. *)
HandledSorted ==
  /\ \A i, j \in 1..Len(handled) : i < j => handled[i] < handled[j]
  /\ \A i \in 1..Len(handled) : handled[i] <= submitted
LeftSorted ==
  /\ \A i, j \in Left : i < j => content[batch[i]].num < content[batch[j]].num
  /\ \A i \in 1..Len(handled), j \in Left : handled[i] < content[batch[j]].num
QueueSorted ==
  /\ \A i, j \in 1..Len(queue) : i < j => content[queue[i]].num < content[queue[j]].num
  /\ \A i \in 1..Len(handled), j \in 1..Len(queue) : handled[i] < content[queue[j]].num
  /\ \A i \in Left, j \in 1..Len(queue) : content[batch[i]].num < content[queue[j]].num
Sorted == HandledSorted /\ LeftSorted /\ QueueSorted

BatchInv ==
  BatchTypeOK /\ Phases /\ Placed /\ Filled /\ Marked /\ ViewsLiveUntilFlush /\ Sorted
-----------------------------------------------------------------------------
(* A sequence after a pop at its end, a pop at its head and an append. *)
LEMMA FrontOf ==
  ASSUME NEW S, NEW s \in Seq(S), s # <<>>
  PROVE  LET t == SubSeq(s, 1, Len(s) - 1)
         IN  /\ t \in Seq(S) /\ Len(t) = Len(s) - 1 /\ Len(s) \in 1..Len(s)
             /\ \A i \in 1..Len(t) : i \in 1..Len(s) /\ i # Len(s) /\ t[i] = s[i]
             /\ \A i \in 1..Len(s) : i = Len(s) \/ i \in 1..Len(t)
<1> DEFINE n == Len(s)
           t == SubSeq(s, 1, n - 1)
<1>1. n \in Nat \ {0} /\ \A i \in 1..(n - 1) : s[i] \in S
  OBVIOUS
<1>2. Len(t) = IF 1 <= n - 1 THEN n - 1 - 1 + 1 ELSE 0
  BY <1>1, PartOf
<1>3. t \in Seq(S)
  BY <1>1, PartOf
<1>4. \A i \in 1..(n - 1) : t[i] = s[i]
  OBVIOUS
<1>5. n = Len(s)
  BY Zenon
<1> HIDE DEF n, t
<1>6. Len(t) = n - 1
  BY <1>1, <1>2
<1>7. \A i \in 1..(n - 1) : i \in 1..n /\ i # n
  BY <1>1
<1>8. \A i \in 1..n : i = n \/ i \in 1..(n - 1)
  BY <1>1
<1>9. n \in 1..n
  BY <1>1
<1>10. /\ t \in Seq(S) /\ Len(t) = n - 1 /\ n \in 1..n
       /\ \A i \in 1..Len(t) : i \in 1..n /\ i # n /\ t[i] = s[i]
       /\ \A i \in 1..n : i = n \/ i \in 1..Len(t)
  BY Zenon, <1>3, <1>4, <1>6, <1>7, <1>8, <1>9
<1> QED BY Zenon, <1>10 DEF n, t

LEMMA TailOf ==
  ASSUME NEW S, NEW s \in Seq(S), s # <<>>
  PROVE  /\ Tail(s) \in Seq(S) /\ Len(Tail(s)) = Len(s) - 1 /\ 1 \in 1..Len(s)
         /\ Head(s) = s[1] /\ Head(s) \in S
         /\ \A i \in 1..Len(Tail(s)) : i + 1 \in 1..Len(s) /\ i + 1 # 1 /\ Tail(s)[i] = s[i + 1]
         /\ \A i \in 1..Len(s) : i = 1 \/ (i - 1 \in 1..Len(Tail(s)) /\ Tail(s)[i - 1] = s[i])
<1> DEFINE n == Len(s)
           t == Tail(s)
<1>1. n \in Nat \ {0} /\ Head(s) = s[1] /\ Head(s) \in S
  OBVIOUS
<1>2. t \in Seq(S) /\ Len(t) = n - 1
  OBVIOUS
<1>3. \A i \in 1..(n - 1) : t[i] = s[i + 1]
  OBVIOUS
<1>4. n = Len(s)
  BY Zenon
<1> HIDE DEF n, t
<1>5. \A i \in 1..(n - 1) : i + 1 \in 1..n /\ i + 1 # 1
  BY <1>1
<1>6. \A i \in 1..n : i = 1 \/ (i - 1 \in 1..(n - 1) /\ (i - 1) + 1 = i)
  BY <1>1
<1>7. \A i \in 1..n : i = 1 \/ (i - 1 \in 1..(n - 1) /\ t[i - 1] = s[i])
  BY Zenon, <1>3, <1>6
<1>8. 1 \in 1..n
  BY <1>1
<1> QED BY Zenon, <1>1, <1>2, <1>3, <1>4, <1>5, <1>7, <1>8 DEF t

LEMMA AppendTo ==
  ASSUME NEW S, NEW s \in Seq(S), NEW x \in S
  PROVE  LET t == Append(s, x)
         IN  /\ t \in Seq(S) /\ Len(t) = Len(s) + 1 /\ Len(t) \in 1..Len(t) /\ t[Len(t)] = x
             /\ \A i \in 1..Len(s) : i \in 1..Len(t) /\ i < Len(t) /\ t[i] = s[i]
             /\ \A i \in 1..Len(t) : i = Len(t) \/ i \in 1..Len(s)
OBVIOUS
-----------------------------------------------------------------------------
LEMMA InitInv ==
  ASSUME Init
  PROVE  BatchInv
<1>1. list = [i \in 1..BufferCount |-> i] /\ BufferCount \in Nat
  BY Zenon, BatchAssumption DEF Init, Buffers
<1>2. list \in Seq(Buffers) /\ Len(list) = BufferCount
  BY <1>1 DEF Buffers
<1>3. BatchTypeOK
  BY <1>2 DEF Init, BatchTypeOK
<1>4. Phases /\ Filled /\ ViewsLiveUntilFlush
  BY Zenon DEF Init, Phases, Filled, ViewsLiveUntilFlush
<1>5. Len(queue) = 0 /\ Len(batch) = 0 /\ Len(handled) = 0 /\ Len(touched) = 0
  BY Zenon DEF Init
<1>6. Held = {} /\ Left = {} /\ First = 1
  BY <1>5 DEF Init, Held, First, Left
<1>7. Placed
  BY <1>1, <1>2, <1>5, <1>6 DEF Init, Placed, Buffers, ListPlaced, QueuePlaced, HeldPlaced, NoneMissing, AllCounted
<1>8. Marked
  BY <1>5 DEF Init, Marked, Waits
<1>9. Sorted
  BY <1>5, <1>6 DEF Sorted, HandledSorted, LeftSorted, QueueSorted
<1> QED BY Zenon, <1>3, <1>4, <1>7, <1>8, <1>9 DEF BatchInv

(* What is left to look at is still held, and the packets that are out have *)
(* numbers.                                                                 *)
LEMMA LeftIsHeld ==
  ASSUME BatchInv
  PROVE  Left \subseteq Held
BY DEF Left, Held, First, BatchInv, Phases, BatchTypeOK

LEMMA OutIsNumbered ==
  ASSUME BatchInv, NEW b \in out
  PROVE  b \in Buffers /\ content[b] \in Packets /\ content[b].num \in 0..submitted
<1>1. b \in Buffers /\ content[b] \in Packets /\ content[b].num <= submitted /\ submitted \in Nat
  BY Zenon DEF BatchInv, Filled, BatchTypeOK
<1>2. content[b].num \in Nat
  BY Zenon, <1>1 DEF Packets
<1> QED BY <1>1, <1>2

(* A packet submitted: its buffer leaves the pool for the end of the queue. *)
LEMMA SubmitInv ==
  ASSUME BatchInv, NEW port \in Ports \cup {None}, Submit(port)
  PROVE  BatchInv'
<1> DEFINE n == Len(list)
           b == list[n]
           m == Len(queue')
           p == [port |-> port, num |-> submitted + 1]
<1>1. /\ list \in Seq(Buffers) /\ list # <<>> /\ list' = SubSeq(list, 1, Len(list) - 1)
      /\ out' = out \cup {b} /\ queue \in Seq(Buffers) /\ queue' = Append(queue, b)
      /\ content' = [content EXCEPT ![b] = p] /\ submitted' = submitted + 1
      /\ UNCHANGED <<pc, batch, at, touched, udp_handlers, default_handler, handled, unflushed>>
  BY Zenon DEF Submit, Pool!Acquire, BatchInv, BatchTypeOK, config, history
<1>2. b \in Buffers /\ submitted \in Nat /\ p \in Packets
  BY <1>1 DEF BatchInv, BatchTypeOK, Packets
<1>3. list' \in Seq(Buffers) /\ Len(list') = n - 1 /\ n \in Nat /\ n \in 1..n
  BY <1>1, FrontOf
<1>4. /\ \A i \in 1..Len(list') : i \in 1..n /\ i # n /\ list'[i] = list[i]
      /\ \A i \in 1..n : i = n \/ i \in 1..Len(list')
  BY Zenon, <1>1, FrontOf
<1>5. queue' \in Seq(Buffers) /\ m = Len(queue) + 1 /\ Len(queue) \in Nat /\ m \in 1..m
  BY <1>1, <1>2, AppendTo
<1>6. /\ queue'[m] = b
      /\ \A i \in 1..Len(queue) : i \in 1..m /\ i < m /\ queue'[i] = queue[i]
      /\ \A i \in 1..m : i = m \/ i \in 1..Len(queue)
  BY <1>1, <1>2, AppendTo
<1>7. content'[b] = p /\ p.num = submitted + 1
      /\ \A c \in Buffers : c # b => content'[c] = content[c]
  BY Zenon, <1>1, <1>2 DEF BatchInv, BatchTypeOK
<1>8. b \notin out
  BY Zenon, <1>3 DEF BatchInv, Placed, ListPlaced
<1>9. Held' = Held /\ Left' = Left /\ First' = First
  BY Zenon, <1>1 DEF Held, Left, First
<1>10. n = Len(list) /\ m = Len(queue') /\ b = list[n]
  BY Zenon
<1> HIDE DEF n, m, b, p
<1>11. \A c \in out : content'[c] = content[c] /\ content[c] \in Packets
                     /\ content[c].num < submitted' /\ content[c].num <= submitted'
  BY <1>1, <1>2, <1>7, <1>8, OutIsNumbered
<1>12. BatchTypeOK'
  BY <1>1, <1>2, <1>3, <1>5 DEF BatchInv, BatchTypeOK
<1>13. Phases'
  BY Zenon, <1>1 DEF BatchInv, Phases
<1>14. Placed'
  <2>1. ListPlaced'
    <3>1. \A i \in 1..Len(list') : list'[i] # b /\ list'[i] \notin out
      BY Zenon, <1>3, <1>4, <1>10 DEF BatchInv, Placed, ListPlaced
    <3>2. \A i, j \in 1..Len(list') : list'[i] = list'[j] => i = j
      BY Zenon, <1>4, <1>10 DEF BatchInv, Placed, ListPlaced
    <3> QED BY Zenon, <1>1, <3>1, <3>2 DEF ListPlaced
  <2>2. QueuePlaced'
    <3>1. \A i \in 1..Len(queue) : queue[i] # b /\ queue[i] \in out
      BY Zenon, <1>8 DEF BatchInv, Placed, QueuePlaced
    <3>2. \A i, j \in 1..m : queue'[i] = queue'[j] => i = j
      BY Zenon, <1>6, <3>1 DEF BatchInv, Placed, QueuePlaced
    <3>3. \A i \in 1..m : queue'[i] \in out'
      BY Zenon, <1>1, <1>6, <3>1
    <3> QED BY Zenon, <1>10, <3>2, <3>3 DEF QueuePlaced
  <2>3. HeldPlaced'
    <3>1. \A i \in Held : batch[i] # b /\ batch[i] \in out
      BY Zenon, <1>8 DEF BatchInv, Placed, HeldPlaced
    <3>2. \A i \in 1..m, j \in Held : queue'[i] # batch[j]
      BY Zenon, <1>6, <3>1 DEF BatchInv, Placed, HeldPlaced
    <3> QED BY <1>1, <1>9, <1>10, <3>1, <3>2 DEF BatchInv, Placed, HeldPlaced
  <2>4. NoneMissing'
    <3> SUFFICES ASSUME NEW c \in Buffers
                 PROVE  \/ \E i \in 1..Len(list') : list'[i] = c
                        \/ \E i \in 1..m : queue'[i] = c
                        \/ \E i \in Held : batch[i] = c
      BY <1>1, <1>9, <1>10, Zenon DEF NoneMissing
    <3>1. CASE c = b
      BY Zenon, <1>5, <1>6, <3>1
    <3>2. CASE c # b /\ \E i \in 1..Len(list) : list[i] = c
      BY Zenon, <1>4, <1>10, <3>2
    <3>3. CASE \E i \in 1..Len(queue) : queue[i] = c
      BY Zenon, <1>6, <3>3
    <3> QED BY Zenon, <3>1, <3>2, <3>3 DEF BatchInv, Placed, NoneMissing
  <2>5. AllCounted'
    <3>1. Len(list') + Len(queue') = Len(list) + Len(queue)
      BY SMTT(30), <1>3, <1>5, <1>10
    <3> QED BY Zenon, <1>1, <1>9, <3>1 DEF BatchInv, Placed, AllCounted
  <2> QED BY Zenon, <2>1, <2>2, <2>3, <2>4, <2>5 DEF Placed
<1>15. Filled'
  BY <1>1, <1>2, <1>7, <1>11 DEF Filled
<1>16. Marked'
  BY Zenon, <1>1 DEF BatchInv, Marked
<1>17. ViewsLiveUntilFlush'
  BY Zenon, <1>1, <1>11 DEF BatchInv, ViewsLiveUntilFlush
<1>18. \A i \in Left : content'[batch[i]].num = content[batch[i]].num /\ content[batch[i]].num < submitted'
  BY Zenon, <1>11, LeftIsHeld DEF BatchInv, Placed, HeldPlaced
<1>19. \A i \in 1..Len(queue) : content'[queue[i]].num = content[queue[i]].num
                               /\ content[queue[i]].num < submitted'
  BY Zenon, <1>11 DEF BatchInv, Placed, QueuePlaced
<1>20. \A i \in 1..Len(handled) : handled[i] <= submitted' /\ handled[i] < submitted'
  BY SMTT(30), <1>1, <1>2 DEF BatchInv, Sorted, HandledSorted, BatchTypeOK
<1>21. content'[queue'[m]].num = submitted'
  BY Zenon, <1>1, <1>6, <1>7
<1>22. HandledSorted'
  BY Zenon, <1>1, <1>20 DEF BatchInv, Sorted, HandledSorted
<1>23. LeftSorted'
  BY <1>1, <1>9, <1>18 DEF BatchInv, Sorted, LeftSorted
<1>24. ~ (m < m) /\ \A j \in 1..Len(queue) : ~ (m < j)
  BY SMTT(30), <1>5
<1>25. QueueSorted'
  <2>1. /\ \A i, j \in 1..Len(queue) : i < j => content[queue[i]].num < content[queue[j]].num
        /\ \A i \in 1..Len(handled), j \in 1..Len(queue) : handled[i] < content[queue[j]].num
        /\ \A i \in Left, j \in 1..Len(queue) : content[batch[i]].num < content[queue[j]].num
    BY Zenon DEF BatchInv, Sorted, QueueSorted
  <2>2. \A j \in 1..Len(queue) : content'[queue'[j]].num = content[queue[j]].num
    BY Zenon, <1>6, <1>19
  <2>3. \A i, j \in 1..m : i < j => content'[queue'[i]].num < content'[queue'[j]].num
    <3> SUFFICES ASSUME NEW i \in 1..m, NEW j \in 1..m, i < j
                 PROVE  content'[queue'[i]].num < content'[queue'[j]].num
      BY Zenon
    <3>1. i \in 1..Len(queue)
      BY Zenon, <1>6, <1>24
    <3>2. CASE j = m
      BY Zenon, <1>19, <1>21, <2>2, <3>1, <3>2
    <3>3. CASE j \in 1..Len(queue)
      BY Zenon, <2>1, <2>2, <3>1, <3>3
    <3> QED BY Zenon, <1>6, <3>2, <3>3
  <2>4. \A i \in 1..Len(handled), j \in 1..m : handled[i] < content'[queue'[j]].num
    BY Zenon, <1>6, <1>20, <1>21, <2>1, <2>2
  <2>5. \A i \in Left, j \in 1..m : content'[batch[i]].num < content'[queue'[j]].num
    BY Zenon, <1>6, <1>18, <1>21, <2>1, <2>2
  <2> QED BY ZenonT(30), <1>1, <1>9, <1>10, <2>3, <2>4, <2>5 DEF QueueSorted
<1> QED BY Zenon, <1>12, <1>13, <1>14, <1>15, <1>16, <1>17, <1>22, <1>23, <1>25 DEF BatchInv, Sorted

(* Every other step that moves no buffer: run_once goes on in its batch and *)
(* the handlers are marked, used and flushed.                               *)
LEMMA StayPlaced ==
  ASSUME Placed, UNCHANGED <<list, out, queue, batch>>, First' = First, Held' = Held
  PROVE  Placed'
<1>1. ListPlaced'
  BY Zenon DEF Placed, ListPlaced
<1>2. QueuePlaced'
  BY Zenon DEF Placed, QueuePlaced
<1>3. HeldPlaced'
  BY Zenon DEF Placed, HeldPlaced
<1>4. NoneMissing'
  BY Zenon DEF Placed, NoneMissing
<1>5. AllCounted'
  BY Zenon DEF Placed, AllCounted
<1> QED BY Zenon, <1>1, <1>2, <1>3, <1>4, <1>5 DEF Placed

LEMMA RegisterInv ==
  ASSUME BatchInv,
         \/ \E port \in Ports, h \in Handlers \cup {None} : RegisterUdpHandler(port, h)
         \/ \E h \in Handlers \cup {None} : SetDefaultHandler(h)
         \/ UNCHANGED vars
  PROVE  BatchInv'
<1>1. UNCHANGED <<list, out, content, queue, submitted, pc, batch, at, touched, handled, unflushed>>
  BY Zenon DEF RegisterUdpHandler, SetDefaultHandler, vars, poolVars, history
<1>2. udp_handlers' \in [Ports -> Handlers \cup {None}] /\ default_handler' \in Handlers \cup {None}
  BY Zenon DEF RegisterUdpHandler, SetDefaultHandler, vars, config, BatchInv, BatchTypeOK
<1>3. First' = First /\ Held' = Held /\ Left' = Left
  BY Zenon, <1>1 DEF First, Held, Left
<1>4. BatchTypeOK'
  BY Zenon, <1>1, <1>2 DEF BatchInv, BatchTypeOK
<1>5. Placed'
  BY Zenon, <1>1, <1>3, StayPlaced DEF BatchInv
<1>6. Phases' /\ Filled' /\ Marked' /\ ViewsLiveUntilFlush'
  BY <1>1 DEF BatchInv, Phases, Filled, Marked, ViewsLiveUntilFlush
<1>7. HandledSorted' /\ LeftSorted' /\ QueueSorted'
  BY Zenon, <1>1, <1>3 DEF BatchInv, Sorted, HandledSorted, LeftSorted, QueueSorted
<1> QED BY Zenon, <1>4, <1>5, <1>6, <1>7 DEF BatchInv, Sorted

(* A buffer moves from the head of the queue to the end of the batch. *)
LEMMA PopInv ==
  ASSUME BatchInv, Pop
  PROVE  BatchInv'
<1> DEFINE b == queue[1]
           m == Len(batch')
<1>1. /\ pc = "pop" /\ queue \in Seq(Buffers) /\ queue # <<>> /\ batch \in Seq(Buffers)
      /\ batch' = Append(batch, Head(queue)) /\ queue' = Tail(queue)
      /\ UNCHANGED <<list, out, content, submitted, pc, at, touched, udp_handlers, default_handler,
                     handled, unflushed>>
  BY Zenon DEF Pop, BatchInv, BatchTypeOK, poolVars, config, history
<1>2. b \in Buffers /\ Head(queue) = b /\ 1 \in 1..Len(queue)
  BY Zenon, <1>1, TailOf
<1>3. queue' \in Seq(Buffers) /\ Len(queue') = Len(queue) - 1 /\ Len(queue) \in Nat
  BY <1>1, TailOf
<1>4. /\ \A i \in 1..Len(queue') : i + 1 \in 1..Len(queue) /\ i + 1 # 1 /\ queue'[i] = queue[i + 1]
      /\ \A i \in 1..Len(queue) : i = 1 \/ (i - 1 \in 1..Len(queue') /\ queue'[i - 1] = queue[i])
  BY Zenon, <1>1, TailOf
<1>5. batch' \in Seq(Buffers) /\ m = Len(batch) + 1 /\ Len(batch) \in Nat /\ m \in 1..m
  BY <1>1, <1>2, AppendTo
<1>6. /\ batch'[m] = b
      /\ \A i \in 1..Len(batch) : i \in 1..m /\ i < m /\ batch'[i] = batch[i]
      /\ \A i \in 1..m : i = m \/ i \in 1..Len(batch)
  BY <1>1, <1>2, AppendTo
<1>7. /\ First = 1 /\ First' = 1 /\ Held = 1..Len(batch) /\ Left = 1..Len(batch)
      /\ Held' = 1..m /\ Left' = 1..m
  BY Zenon, <1>1 DEF First, Held, Left
<1>8. m = Len(batch') /\ b = queue[1]
  BY Zenon
<1>9. \A i, j \in 1..Len(queue') : (i + 1 = j + 1 => i = j) /\ (i < j => i + 1 < j + 1) /\ 1 < i + 1
  BY <1>3
<1> HIDE DEF m, b
<1>10. BatchTypeOK'
  BY Zenon, <1>1, <1>3, <1>5 DEF BatchInv, BatchTypeOK
<1>11. Phases'
  BY Zenon, <1>1 DEF BatchInv, Phases
<1>12. Placed'
  <2>1. ListPlaced'
    BY Zenon, <1>1 DEF BatchInv, Placed, ListPlaced
  <2>2. QueuePlaced'
    BY <1>1, <1>4, <1>9 DEF BatchInv, Placed, QueuePlaced
  <2>3. HeldPlaced'
    <3>1. \A i \in 1..m : batch'[i] \in out
      BY Zenon, <1>2, <1>6, <1>7, <1>8 DEF BatchInv, Placed, QueuePlaced, HeldPlaced
    <3>2. \A i \in 1..Len(batch) : batch[i] # b
      BY Zenon, <1>2, <1>7, <1>8 DEF BatchInv, Placed, HeldPlaced
    <3>3. \A i, j \in 1..m : batch'[i] = batch'[j] => i = j
      BY Zenon, <1>6, <1>7, <3>2 DEF BatchInv, Placed, HeldPlaced
    <3>4. \A i \in 1..Len(queue') : queue'[i] # b
      <4>1. \A i \in 1..Len(queue) : i # 1 => queue[i] # b
        BY Zenon, <1>2, <1>8 DEF BatchInv, Placed, QueuePlaced
      <4> QED BY ZenonT(30), <1>4, <4>1
    <3>5. \A i \in 1..Len(queue'), j \in 1..m : queue'[i] # batch'[j]
      <4>1. \A i \in 1..Len(queue), j \in 1..Len(batch) : queue[i] # batch[j]
        BY Zenon, <1>7 DEF BatchInv, Placed, HeldPlaced
      <4>2. \A i \in 1..Len(queue'), j \in 1..Len(batch) : queue'[i] # batch[j]
        BY <1>4, <4>1
      <4> QED BY Zenon, <1>6, <3>4, <4>2
    <3> QED BY Zenon, <1>1, <1>7, <3>1, <3>3, <3>5 DEF HeldPlaced
  <2>4. NoneMissing'
    <3> SUFFICES ASSUME NEW c \in Buffers
                 PROVE  \/ \E i \in 1..Len(list) : list[i] = c
                        \/ \E i \in 1..Len(queue') : queue'[i] = c
                        \/ \E i \in 1..m : batch'[i] = c
      BY Zenon, <1>1, <1>7 DEF NoneMissing
    <3>1. CASE c = b
      BY Zenon, <1>5, <1>6, <3>1
    <3>2. CASE c # b /\ \E i \in 1..Len(queue) : queue[i] = c
      BY <1>4, <1>8, <3>2
    <3>3. CASE \E i \in 1..Len(batch) : batch[i] = c
      BY Zenon, <1>6, <3>3
    <3> QED BY Zenon, <1>7, <3>1, <3>2, <3>3 DEF BatchInv, Placed, NoneMissing
  <2>5. AllCounted'
    <3>1. Len(queue') + (m - 1 + 1) = Len(queue) + (Len(batch) - 1 + 1)
      BY <1>3, <1>5
    <3>2. Len(list) \in Nat /\ Len(list') = Len(list)
      BY <1>1 DEF BatchInv, BatchTypeOK
    <3>3. Len(list) + Len(queue) + (Len(batch) - 1 + 1) = BufferCount
      BY Zenon, <1>7 DEF BatchInv, Placed, AllCounted
    <3>4. Len(list) + Len(queue') + (m - 1 + 1) = BufferCount
      BY <1>3, <1>5, <3>1, <3>2, <3>3
    <3> QED BY Zenon, <1>7, <1>8, <3>2, <3>4 DEF AllCounted
  <2> QED BY Zenon, <2>1, <2>2, <2>3, <2>4, <2>5 DEF Placed
<1>13. Filled' /\ Marked' /\ ViewsLiveUntilFlush'
  BY Zenon, <1>1 DEF BatchInv, Filled, Marked, ViewsLiveUntilFlush
<1>14. HandledSorted'
  BY Zenon, <1>1 DEF BatchInv, Sorted, HandledSorted
<1>15. ~ (m < m) /\ \A j \in 1..Len(batch) : ~ (m < j)
  BY <1>5
<1>16. LeftSorted'
  BY SMTT(30), <1>1, <1>2, <1>6, <1>7, <1>8, <1>15 DEF BatchInv, Sorted, LeftSorted, QueueSorted
<1>17. QueueSorted'
  BY <1>1, <1>2, <1>4, <1>6, <1>7, <1>8, <1>9 DEF BatchInv, Sorted, QueueSorted
<1> QED BY Zenon, <1>10, <1>11, <1>12, <1>13, <1>14, <1>16, <1>17 DEF BatchInv, Sorted

LEMMA ParseInv ==
  ASSUME BatchInv, Parse
  PROVE  BatchInv'
<1>1. /\ pc = "pop" /\ pc' = "dispatch" /\ batch # <<>>
      /\ UNCHANGED <<list, out, content, queue, submitted, batch, at, touched, udp_handlers,
                     default_handler, handled, unflushed>>
  BY Zenon DEF Parse, poolVars, config, history
<1>2. at = 1 /\ batch \in Seq(Buffers)
  BY Zenon, <1>1 DEF BatchInv, Phases, BatchTypeOK
<1>3. First' = First /\ Held' = Held /\ Left' = Left
  BY Zenon, <1>1, <1>2 DEF First, Held, Left
<1>4. BatchTypeOK'
  BY Zenon, <1>1 DEF BatchInv, BatchTypeOK
<1>5. Phases'
  BY <1>1, <1>2 DEF Phases
<1>6. Placed'
  BY Zenon, <1>1, <1>3, StayPlaced DEF BatchInv
<1>7. Filled' /\ Marked' /\ ViewsLiveUntilFlush'
  BY ZenonT(30), <1>1 DEF BatchInv, Filled, Marked, ViewsLiveUntilFlush
<1>8. HandledSorted' /\ LeftSorted' /\ QueueSorted'
  BY Zenon, <1>1, <1>3 DEF BatchInv, Sorted, HandledSorted, LeftSorted, QueueSorted
<1> QED BY Zenon, <1>4, <1>5, <1>6, <1>7, <1>8 DEF BatchInv, Sorted

(* One packet looked at, and its handler, if it has one, called. *)
LEMMA DispatchInv ==
  ASSUME BatchInv, Dispatch
  PROVE  BatchInv'
<1> DEFINE b == batch[at]
           p == content[b]
           h == HandlerOf(p)
<1>1. /\ pc = "dispatch" /\ batch \in Seq(Buffers) /\ at \in 1..Len(batch) /\ Step
      /\ UNCHANGED <<list, out, content, queue, submitted, batch, udp_handlers, default_handler>>
  BY Zenon DEF Dispatch, BatchInv, BatchTypeOK, Phases, poolVars, config
<1>2. Len(batch) \in Nat /\ at \in Nat
  BY <1>1
<1>3. \/ at < Len(batch) /\ at' = at + 1 /\ pc' = "dispatch"
      \/ at = Len(batch) /\ at' = 1 /\ pc' = "flush"
  BY <1>1, <1>2 DEF Step, PhaseAfter
<1>4. /\ First = 1 /\ First' = 1 /\ Held' = Held /\ Left = at..Len(batch) /\ at \in Left
      /\ Left' \subseteq Left /\ \A j \in Left' : at < j
  BY <1>1, <1>2, <1>3 DEF First, Held, Left
<1>5. b \in out /\ b \in Buffers /\ p \in Packets /\ p.num \in Nat /\ p.num <= submitted
  <2>1. b \in out
    BY Zenon, <1>4, LeftIsHeld DEF BatchInv, Placed, HeldPlaced
  <2>2. submitted \in Nat
    BY Zenon DEF BatchInv, BatchTypeOK
  <2> QED BY <2>1, <2>2, OutIsNumbered
<1>6. h \in Handlers \cup {None}
  BY Zenon, <1>5 DEF HandlerOf, Packets, BatchInv, BatchTypeOK
<1>7. \/ h = None /\ UNCHANGED <<touched, handled, unflushed>>
      \/ /\ h # None /\ handled' = Append(handled, p.num) /\ touched' = Mark(h)
         /\ unflushed' = [unflushed EXCEPT ![h] = @ \cup {<<b, p>>}]
  BY Zenon DEF Dispatch, history
<1>8. None \notin Handlers /\ touched \in Seq(Handlers) /\ handled \in Seq(Nat)
      /\ unflushed \in [Handlers -> SUBSET (Buffers \X Packets)]
  BY Zenon, BatchAssumption DEF BatchInv, BatchTypeOK
<1>9. b = batch[at] /\ p = content[batch[at]]
  BY Zenon
<1>10. Phases'
  BY <1>1, <1>2, <1>3 DEF Phases
<1>11. Placed'
  BY Zenon, <1>1, <1>4, StayPlaced DEF BatchInv
<1>12. Filled'
  BY Zenon, <1>1 DEF BatchInv, Filled
<1>13. at' \in Nat /\ pc' \in {"pop", "dispatch", "flush", "release"}
  BY <1>2, <1>3
<1> HIDE DEF b, p, h
<1>14. CASE h = None
  <2>1. UNCHANGED <<touched, handled, unflushed>>
    BY Zenon, <1>7, <1>14
  <2>2. BatchTypeOK'
    BY Zenon, <1>1, <1>13, <2>1 DEF BatchInv, BatchTypeOK
  <2>3. Marked' /\ ViewsLiveUntilFlush'
    BY ZenonT(30), <1>1, <2>1 DEF BatchInv, Marked, ViewsLiveUntilFlush
  <2>4. HandledSorted' /\ LeftSorted' /\ QueueSorted'
    BY Zenon, <1>1, <1>4, <2>1 DEF BatchInv, Sorted, HandledSorted, LeftSorted, QueueSorted
  <2> QED BY Zenon, <1>10, <1>11, <1>12, <2>2, <2>3, <2>4 DEF BatchInv, Sorted
<1>15. CASE h # None
  <2>1. /\ h \in Handlers /\ handled' = Append(handled, p.num) /\ touched' = Mark(h)
        /\ unflushed' = [unflushed EXCEPT ![h] = @ \cup {<<b, p>>}]
    BY Zenon, <1>6, <1>7, <1>15
  <2>2. /\ unflushed'[h] = unflushed[h] \cup {<<b, p>>}
        /\ \A g \in Handlers : g # h => unflushed'[g] = unflushed[g]
        /\ unflushed' \in [Handlers -> SUBSET (Buffers \X Packets)]
    BY <1>5, <1>8, <2>1
  <2> DEFINE m == Len(handled')
  <2>3. handled' \in Seq(Nat) /\ m = Len(handled) + 1 /\ Len(handled) \in Nat /\ m \in 1..m
    BY <1>5, <1>8, <2>1, AppendTo
  <2>4. /\ handled'[m] = p.num
        /\ \A i \in 1..Len(handled) : i \in 1..m /\ i < m /\ handled'[i] = handled[i]
        /\ \A i \in 1..m : i = m \/ i \in 1..Len(handled)
    BY <1>5, <1>8, <2>1, AppendTo
  <2>5. Marked' /\ touched' \in Seq(Handlers)
    <3>0. h \in Range(touched) <=> Waits(touched, h)
      BY <1>8 DEF Range, Waits
    <3>1. CASE Waits(touched, h)
      <4>1. touched' = touched
        BY Zenon, <2>1, <3>0, <3>1 DEF Mark
      <4>2. \A g \in Handlers : unflushed'[g] # {} <=> unflushed[g] # {}
        BY Zenon, <2>2, <3>1 DEF BatchInv, Marked
      <4> QED BY Zenon, <1>8, <4>1, <4>2 DEF BatchInv, Marked, Waits
    <3>2. CASE ~ Waits(touched, h)
      <4> DEFINE k == Len(touched')
      <4>1. touched' = Append(touched, h)
        BY Zenon, <2>1, <3>0, <3>2 DEF Mark
      <4>2. /\ touched' \in Seq(Handlers) /\ k \in 1..k /\ touched'[k] = h
            /\ \A i \in 1..Len(touched) : i \in 1..k /\ touched'[i] = touched[i]
            /\ \A i \in 1..k : i = k \/ i \in 1..Len(touched)
        BY <1>8, <2>1, <4>1, AppendTo
      <4>3. k = Len(touched')
        BY Zenon
      <4>4. \A i \in 1..Len(touched) : touched[i] # h
        BY Zenon, <3>2 DEF Waits
      <4> HIDE DEF k
      <4>5. \A i, j \in 1..k : touched'[i] = touched'[j] => i = j
        BY ZenonT(30), <4>2, <4>4 DEF BatchInv, Marked
      <4>6. \A g \in Handlers : (\E i \in 1..k : touched'[i] = g) <=> unflushed'[g] # {}
        <5>1. \A g \in Handlers : (\E i \in 1..Len(touched) : touched[i] = g) <=> unflushed[g] # {}
          BY Zenon DEF BatchInv, Marked, Waits
        <5>2. (\E i \in 1..k : touched'[i] = h) /\ unflushed'[h] # {}
          BY Zenon, <2>2, <4>2
        <5>3. \A g \in Handlers \ {h} :
                (\E i \in 1..k : touched'[i] = g) <=> \E i \in 1..Len(touched) : touched[i] = g
          BY Zenon, <4>2
        <5> QED BY Zenon, <2>2, <5>1, <5>2, <5>3
      <4> QED BY Zenon, <4>2, <4>3, <4>5, <4>6 DEF Marked, Waits
    <3> QED BY Zenon, <3>1, <3>2
  <2>6. ViewsLiveUntilFlush'
    BY <1>1, <1>5, <1>9, <2>2 DEF BatchInv, ViewsLiveUntilFlush, p
  <2>7. BatchTypeOK'
    BY Zenon, <1>1, <1>13, <2>2, <2>3, <2>5 DEF BatchInv, BatchTypeOK
  <2>8. m = Len(handled') /\ ~ (m < m) /\ \A j \in 1..Len(handled) : ~ (m < j)
    BY <2>3
  <2> HIDE DEF m
  <2>9. \A i \in 1..Len(handled) : handled[i] < p.num
    BY Zenon, <1>4, <1>9 DEF BatchInv, Sorted, LeftSorted
  <2>10. HandledSorted'
    BY Zenon, <1>1, <1>5, <2>4, <2>8, <2>9 DEF BatchInv, Sorted, HandledSorted
  <2>11. LeftSorted'
    BY ZenonT(30), <1>1, <1>4, <1>9, <2>4, <2>8 DEF BatchInv, Sorted, LeftSorted
  <2>12. QueueSorted'
    BY SMTT(30), <1>1, <1>4, <1>9, <2>4, <2>8 DEF BatchInv, Sorted, QueueSorted
  <2> QED BY Zenon, <1>10, <1>11, <1>12, <2>5, <2>6, <2>7, <2>10, <2>11, <2>12 DEF BatchInv, Sorted
<1> QED BY Zenon, <1>14, <1>15

(* One handler flushed, or all of them are. *)
LEMMA FlushInv ==
  ASSUME BatchInv, Flush
  PROVE  BatchInv'
<1>1. /\ pc = "flush" /\ at = 1 /\ at' = 1 /\ at \in 1..Len(batch)
      /\ UNCHANGED <<list, out, content, queue, submitted, batch, udp_handlers, default_handler,
                     handled>>
  BY Zenon DEF Flush, BatchInv, Phases, poolVars, config
<1>2. touched \in Seq(Handlers) /\ unflushed \in [Handlers -> SUBSET (Buffers \X Packets)]
  BY Zenon DEF BatchInv, BatchTypeOK
<1>3. pc' \in {"flush", "release"} /\ (pc' = "release" => touched' = <<>>)
  BY <1>1 DEF Flush, PhaseAfter
<1>4. /\ First' = First /\ Held' = Held /\ Left = {} /\ Left' = {}
  BY Zenon, <1>1, <1>3 DEF First, Held, Left
<1>5. /\ touched' \in Seq(Handlers) /\ unflushed' \in [Handlers -> SUBSET (Buffers \X Packets)]
      /\ Marked' /\ ViewsLiveUntilFlush'
  <2>1. CASE touched = <<>>
    <3>1. touched' = touched /\ unflushed' = unflushed
      BY Zenon, <2>1 DEF Flush
    <3> QED BY <1>1, <1>2, <3>1 DEF BatchInv, Marked, ViewsLiveUntilFlush, Waits
  <2>2. CASE touched # <<>>
    <3> DEFINE h == touched[1]
    <3>1. /\ h \in Handlers /\ Head(touched) = h /\ 1 \in 1..Len(touched)
          /\ touched' = Tail(touched) /\ touched' \in Seq(Handlers)
      <4>1. touched' = Tail(touched)
        BY Zenon, <2>2 DEF Flush
      <4>2. h \in Handlers /\ Head(touched) = h /\ 1 \in 1..Len(touched) /\ Tail(touched) \in Seq(Handlers)
        BY <1>2, <2>2, TailOf
      <4> QED BY Zenon, <4>1, <4>2
    <3>2. /\ \A i \in 1..Len(touched') :
               i + 1 \in 1..Len(touched) /\ i + 1 # 1 /\ touched'[i] = touched[i + 1]
          /\ \A i \in 1..Len(touched) :
               i = 1 \/ (i - 1 \in 1..Len(touched') /\ touched'[i - 1] = touched[i])
      BY Zenon, <1>2, <2>2, <3>1, TailOf
    <3>3. /\ unflushed' = [unflushed EXCEPT ![h] = {}] /\ unflushed'[h] = {}
          /\ \A g \in Handlers : g # h => unflushed'[g] = unflushed[g]
      BY Zenon, <1>1, <1>2, <2>2, <3>1 DEF Flush
    <3>4. \A i, j \in 1..Len(touched') : i + 1 = j + 1 => i = j
      OBVIOUS
    <3>5. h = touched[1]
      BY Zenon
    <3> HIDE DEF h
    <3>6. \A i, j \in 1..Len(touched') : touched'[i] = touched'[j] => i = j
      BY <3>2, <3>4 DEF BatchInv, Marked
    <3>7. \A i \in 1..Len(touched) : i # 1 => touched[i] # h
      BY Zenon, <3>1, <3>5 DEF BatchInv, Marked
    <3>8. \A i \in 1..Len(touched') : touched'[i] # h
      BY Zenon, <3>2, <3>7
    <3>9. \A g \in Handlers : g # h =>
            ((\E i \in 1..Len(touched') : touched'[i] = g) <=> \E i \in 1..Len(touched) : touched[i] = g)
      <4> SUFFICES ASSUME NEW g \in Handlers, g # h
                   PROVE  (\E i \in 1..Len(touched') : touched'[i] = g)
                            <=> \E i \in 1..Len(touched) : touched[i] = g
        BY Zenon
      <4>1. ASSUME NEW i \in 1..Len(touched'), touched'[i] = g
            PROVE  \E j \in 1..Len(touched) : touched[j] = g
        BY Zenon, <3>2, <4>1
      <4>2. ASSUME NEW i \in 1..Len(touched), touched[i] = g
            PROVE  \E j \in 1..Len(touched') : touched'[j] = g
        BY Zenon, <3>2, <3>5, <4>2
      <4> QED BY Zenon, <4>1, <4>2
    <3>10. \A g \in Handlers : Waits(touched', g) <=> unflushed'[g] # {}
      <4>1. \A g \in Handlers : (\E i \in 1..Len(touched) : touched[i] = g) <=> unflushed[g] # {}
        BY Zenon DEF BatchInv, Marked, Waits
      <4> QED BY Zenon, <3>3, <3>8, <3>9, <4>1 DEF Waits
    <3>11. Marked'
      BY Zenon, <3>6, <3>10 DEF Marked, Waits
    <3>12. ViewsLiveUntilFlush'
      BY Zenon, <1>1, <3>3 DEF BatchInv, ViewsLiveUntilFlush
    <3>13. unflushed' \in [Handlers -> SUBSET (Buffers \X Packets)]
      BY Zenon, <1>2, <3>3
    <3> QED BY Zenon, <3>1, <3>11, <3>12, <3>13
  <2> QED BY Zenon, <2>1, <2>2
<1>6. BatchTypeOK'
  BY Zenon, <1>1, <1>3, <1>5 DEF BatchInv, BatchTypeOK
<1>7. Phases'
  BY Zenon, <1>1, <1>3 DEF Phases
<1>8. Placed'
  BY Zenon, <1>1, <1>4, StayPlaced DEF BatchInv
<1>9. Filled'
  BY Zenon, <1>1 DEF BatchInv, Filled
<1>10. HandledSorted' /\ LeftSorted' /\ QueueSorted'
  BY Zenon, <1>1, <1>4 DEF BatchInv, Sorted, HandledSorted, LeftSorted, QueueSorted
<1> QED BY Zenon, <1>5, <1>6, <1>7, <1>8, <1>9, <1>10 DEF BatchInv, Sorted

(* One buffer of the batch back in the pool. *)
LEMMA ReleaseInv ==
  ASSUME BatchInv, Release
  PROVE  BatchInv'
<1> DEFINE b == batch[at]
           n == Len(batch)
           m == Len(list')
<1>1. /\ pc = "release" /\ list \in Seq(Buffers) /\ batch \in Seq(Buffers) /\ at \in 1..n /\ Step
      /\ b \in out /\ list' = Append(list, b) /\ out' = out \ {b} /\ out \subseteq Buffers
      /\ UNCHANGED <<content, queue, submitted, touched, udp_handlers, default_handler, handled,
                     unflushed>>
  BY Zenon DEF Release, Pool!Release, BatchInv, BatchTypeOK, Phases, config, history
<1>2. n \in Nat /\ at \in Nat /\ at <= n /\ b \in Buffers
  BY <1>1
<1>3. \/ at < n /\ at' = at + 1 /\ pc' = "release" /\ batch' = batch
      \/ at = n /\ at' = 1 /\ pc' = "pop" /\ batch' = <<>>
  BY <1>1, <1>2 DEF Release, Step, PhaseAfter, StartOver
<1>4. /\ First = at /\ Held = at..n /\ at \in Held /\ Left = {} /\ Left' = {}
  BY <1>1, <1>2, <1>3 DEF First, Held, Left
<1>5. /\ Held' = (at + 1)..n /\ Held' \subseteq Held /\ at \notin Held'
      /\ \A i \in Held : i = at \/ i \in Held'
      /\ \A i \in Held' : batch'[i] = batch[i]
      /\ Len(batch') - First' + 1 = n - at
  BY <1>2, <1>3, <1>4 DEF First, Held
<1>6. list' \in Seq(Buffers) /\ m = Len(list) + 1 /\ Len(list) \in Nat /\ m \in 1..m
  BY <1>1, <1>2, AppendTo
<1>7. /\ list'[m] = b
      /\ \A i \in 1..Len(list) : i \in 1..m /\ i < m /\ list'[i] = list[i]
      /\ \A i \in 1..m : i = m \/ i \in 1..Len(list)
  BY <1>1, <1>2, AppendTo
<1>8. b = batch[at] /\ n = Len(batch) /\ m = Len(list')
  BY Zenon
<1> HIDE DEF b, n, m
<1>9. touched = <<>> /\ \A h \in Handlers : unflushed[h] = {}
  <2>1. touched = <<>>
    BY Zenon, <1>1 DEF BatchInv, Phases
  <2>2. \A h \in Handlers : ~ Waits(touched, h)
    BY <2>1 DEF Waits
  <2> QED BY Zenon, <2>1, <2>2 DEF BatchInv, Marked
<1>10. BatchTypeOK'
  <2>1. batch' \in Seq(Buffers) /\ at' \in Nat /\ pc' \in {"pop", "dispatch", "flush", "release"}
    <3>1. <<>> \in Seq(Buffers)
      OBVIOUS
    <3>2. batch' = batch \/ batch' = <<>>
      BY Zenon, <1>3
    <3>3. batch' \in Seq(Buffers)
      BY Zenon, <1>1, <3>1, <3>2
    <3> HIDE DEF Buffers
    <3>4. at' \in Nat /\ pc' \in {"pop", "dispatch", "flush", "release"}
      BY <1>2, <1>3
    <3> QED BY Zenon, <3>3, <3>4
  <2> QED BY Zenon, <1>1, <1>6, <2>1 DEF BatchInv, BatchTypeOK
<1>11. Phases'
  BY <1>1, <1>2, <1>3, <1>8, <1>9 DEF Phases
<1>12. Placed'
  <2>1. ListPlaced'
    <3>1. \A i \in 1..Len(list) : list[i] # b /\ list[i] \notin out
      BY Zenon, <1>1 DEF BatchInv, Placed, ListPlaced
    <3>2. \A i, j \in 1..m : list'[i] = list'[j] => i = j
      BY Zenon, <1>7, <3>1 DEF BatchInv, Placed, ListPlaced
    <3>3. \A i \in 1..m : list'[i] \notin out'
      BY Zenon, <1>1, <1>7, <3>1
    <3> QED BY Zenon, <1>8, <3>2, <3>3 DEF ListPlaced
  <2>2. QueuePlaced'
    <3>1. \A i \in 1..Len(queue) : queue[i] # b
      BY Zenon, <1>4, <1>8 DEF BatchInv, Placed, HeldPlaced
    <3> QED BY Zenon, <1>1, <3>1 DEF BatchInv, Placed, QueuePlaced
  <2>3. HeldPlaced'
    <3>1. \A i \in Held' : batch[i] # b
      BY Zenon, <1>4, <1>5, <1>8 DEF BatchInv, Placed, HeldPlaced
    <3>2. \A i, j \in Held' : batch'[i] = batch'[j] => i = j
      BY <1>5 DEF BatchInv, Placed, HeldPlaced
    <3>3. \A i \in Held' : batch'[i] \in out'
      BY Zenon, <1>1, <1>5, <3>1 DEF BatchInv, Placed, HeldPlaced
    <3>4. \A i \in 1..Len(queue), j \in Held' : queue[i] # batch'[j]
      BY ZenonT(30), <1>5 DEF BatchInv, Placed, HeldPlaced
    <3> QED BY Zenon, <1>1, <3>2, <3>3, <3>4 DEF HeldPlaced
  <2>4. NoneMissing'
    <3> SUFFICES ASSUME NEW c \in Buffers
                 PROVE  \/ \E i \in 1..m : list'[i] = c
                        \/ \E i \in 1..Len(queue) : queue[i] = c
                        \/ \E i \in Held' : batch'[i] = c
      BY Zenon, <1>1, <1>8 DEF NoneMissing
    <3>1. CASE c = b
      BY Zenon, <1>6, <1>7, <3>1
    <3>2. CASE c # b /\ \E i \in Held : batch[i] = c
      BY Zenon, <1>5, <1>8, <3>2
    <3>3. CASE \E i \in 1..Len(list) : list[i] = c
      BY Zenon, <1>7, <3>3
    <3> QED BY Zenon, <3>1, <3>2, <3>3 DEF BatchInv, Placed, NoneMissing
  <2>5. AllCounted'
    <3>1. Len(list) + Len(queue) + (n - at + 1) = BufferCount
      BY Zenon, <1>4, <1>8 DEF BatchInv, Placed, AllCounted
    <3>2. Len(queue) \in Nat /\ queue' = queue
      BY <1>1 DEF BatchInv, BatchTypeOK
    <3>3. m + Len(queue) + (n - at) = BufferCount
      BY <1>2, <1>6, <3>1, <3>2
    <3> QED BY Zenon, <1>5, <1>8, <3>2, <3>3 DEF AllCounted
  <2> QED BY Zenon, <2>1, <2>2, <2>3, <2>4, <2>5 DEF Placed
<1>13. Filled'
  BY Zenon, <1>1 DEF BatchInv, Filled
<1>14. Marked' /\ ViewsLiveUntilFlush'
  BY <1>1, <1>9 DEF BatchInv, Marked, ViewsLiveUntilFlush
<1>15. HandledSorted' /\ LeftSorted' /\ QueueSorted'
  BY Zenon, <1>1, <1>4 DEF BatchInv, Sorted, HandledSorted, LeftSorted, QueueSorted
<1> QED BY Zenon, <1>10, <1>11, <1>12, <1>13, <1>14, <1>15 DEF BatchInv, Sorted

(* Two sequences in one. *)
LEMMA ConcatOf ==
  ASSUME NEW S, NEW s \in Seq(S), NEW t \in Seq(S)
  PROVE  /\ s \o t \in Seq(S) /\ Len(s \o t) = Len(s) + Len(t)
         /\ \A i \in 1..Len(s) : i \in 1..Len(s \o t) /\ (s \o t)[i] = s[i]
         /\ \A i \in 1..Len(t) : Len(s) + i \in 1..Len(s \o t) /\ (s \o t)[Len(s) + i] = t[i]
<1> DEFINE u == s \o t
           k == Len(s)
           n == Len(t)
<1>1. k \in Nat /\ n \in Nat
  OBVIOUS
<1>2. /\ u \in Seq(S) /\ Len(u) = k + n
      /\ \A i \in 1..(k + n) : u[i] = IF i <= k THEN s[i] ELSE t[i - k]
  BY Zenon, JoinOf
<1> HIDE DEF u, k, n
<1>3. \A i \in 1..k : i \in 1..(k + n) /\ i <= k
  BY <1>1
<1>4. \A i \in 1..n : k + i \in 1..(k + n) /\ ~ (k + i <= k) /\ (k + i) - k = i
  BY <1>1
<1>5. /\ \A i \in 1..k : i \in 1..Len(u) /\ u[i] = s[i]
      /\ \A i \in 1..n : k + i \in 1..Len(u) /\ u[k + i] = t[i]
  BY Zenon, <1>2, <1>3, <1>4
<1> QED BY Zenon, <1>2, <1>5 DEF u, k, n

(* The inductive invariant. *)
THEOREM BatchInvariant == Spec => []BatchInv
<1>1. Init => BatchInv
  BY Zenon, InitInv
<1>2. BatchInv /\ [Next]_vars => BatchInv'
  BY Zenon, SubmitInv, RegisterInv, PopInv, ParseInv, DispatchInv, FlushInv, ReleaseInv DEF Next, RunOnce
<1> QED BY <1>1, <1>2, PTL DEF Spec
-----------------------------------------------------------------------------
(* What a handler got in this batch is not back in the pool and not written *)
(* over before its flush: run_once releases no buffer of the batch before   *)
(* the last flush, and submit writes only into buffers from the pool.       *)
THEOREM ViewsStayLive == Spec => []ViewsLiveUntilFlush
BY BatchInvariant, PTL DEF BatchInv

(* The packets handed over were submitted in that order, none twice. *)
THEOREM HandledStaysInOrder == Spec => []HandledInOrder
<1>1. ASSUME BatchInv PROVE HandledInOrder
  <2> SUFFICES ASSUME NEW i \in 1..(Len(handled) - 1)
               PROVE  handled[i] < handled[i + 1]
    BY Zenon DEF HandledInOrder
  <2>1. Len(handled) \in Nat
    BY <1>1 DEF BatchInv, BatchTypeOK
  <2>2. i \in 1..Len(handled) /\ i + 1 \in 1..Len(handled) /\ i < i + 1
    BY <2>1
  <2> QED BY Zenon, <1>1, <2>2 DEF BatchInv, Sorted, HandledSorted
<1> QED BY <1>1, BatchInvariant, PTL

(* The handlers left to flush are those that hold views, each of them once, *)
(* and none is left between two calls of run_once.                          *)
THEOREM EachHandlerFlushedOnce == Spec => []FlushedOncePerBatch
<1>1. ASSUME BatchInv PROVE FlushedOncePerBatch
  <2> DEFINE n == Len(touched)
             S == Range(touched)
  <2>1. touched \in Seq(Handlers) /\ n \in Nat
    BY <1>1 DEF BatchInv, BatchTypeOK
  <2>2. S = {touched[i] : i \in 1..n}
    BY <2>1 DEF Range
  <2>3. S = {h \in Handlers : unflushed[h] # {}}
    <3>1. \A h \in Handlers : (\E i \in 1..n : touched[i] = h) <=> unflushed[h] # {}
      BY Zenon, <1>1 DEF BatchInv, Marked, Waits
    <3>2. \A i \in 1..n : touched[i] \in Handlers
      BY <2>1
    <3> QED BY <2>2, <3>1, <3>2
  <2>4. IsInjective(touched)
    <3>1. \A i, j \in 1..n : touched[i] = touched[j] => i = j
      BY Zenon, <1>1 DEF BatchInv, Marked
    <3>2. DOMAIN touched = 1..n
      BY <2>1
    <3> QED BY Zenon, <3>1, <3>2 DEF IsInjective
  <2>5. Returned => touched = <<>>
    BY Zenon, <1>1 DEF BatchInv, Phases, Returned
  <2> QED BY Zenon, <2>3, <2>4, <2>5 DEF FlushedOncePerBatch
<1> QED BY <1>1, BatchInvariant, PTL

(* No buffer is lost and none is in two places, whatever submit and         *)
(* run_once do at a time.                                                   *)
THEOREM BuffersStayConserved == Spec => []BuffersConserved
<1>1. ASSUME BatchInv PROVE BuffersConserved
  <2> DEFINE f == First
             n == Len(batch)
             held == SubSeq(batch, f, n)
             lq == list \o queue
             all == lq \o held
  <2>1. list \in Seq(Buffers) /\ queue \in Seq(Buffers) /\ batch \in Seq(Buffers)
    BY Zenon, <1>1 DEF BatchInv, BatchTypeOK
  <2>2. f \in Nat \ {0} /\ n \in Nat /\ f <= n + 1 /\ Held = f..n
    BY <1>1, <2>1 DEF BatchInv, BatchTypeOK, Phases, First, Held
  <2>3. \A i \in f..n : batch[i] \in Buffers
    BY <2>1, <2>2
  <2> HIDE DEF f, n
  <2>4. /\ held \in Seq(Buffers) /\ Len(held) = IF f <= n THEN n - f + 1 ELSE 0
        /\ \A i \in 1..(n - f + 1) : held[i] = batch[f + i - 1]
    BY SMTT(30), <2>1, <2>2, PartOf DEF n
  <2> HIDE DEF held
  <2>5. Len(held) = n - f + 1
    BY <2>2, <2>4
  <2>6. \A i \in f..n : i - f + 1 \in 1..(n - f + 1) /\ f + (i - f + 1) - 1 = i
    BY <2>2
  <2>7. \A i \in f..n : i - f + 1 \in 1..Len(held) /\ held[i - f + 1] = batch[i]
    BY Zenon, <2>4, <2>5, <2>6
  <2>8. /\ lq \in Seq(Buffers) /\ Len(lq) = Len(list) + Len(queue)
        /\ \A i \in 1..Len(list) : i \in 1..Len(lq) /\ lq[i] = list[i]
        /\ \A i \in 1..Len(queue) : Len(list) + i \in 1..Len(lq) /\ lq[Len(list) + i] = queue[i]
    <3>1. list \in Seq(Buffers) /\ queue \in Seq(Buffers)
      BY Zenon, <2>1
    <3>2. lq \in Seq(Buffers) /\ Len(lq) = Len(list) + Len(queue)
      BY Zenon, <3>1, ConcatOf
    <3>3. \A i \in 1..Len(list) : i \in 1..Len(lq) /\ lq[i] = list[i]
      BY ZenonT(30), <3>1, ConcatOf
    <3>4. \A i \in 1..Len(queue) : Len(list) + i \in 1..Len(lq) /\ lq[Len(list) + i] = queue[i]
      <4> SUFFICES ASSUME NEW i \in 1..Len(queue)
                   PROVE  Len(list) + i \in 1..Len(lq) /\ lq[Len(list) + i] = queue[i]
        BY Zenon
      <4> QED BY SMTT(30), <3>1, ConcatOf
    <3> QED BY Zenon, <3>2, <3>3, <3>4
  <2>9. Len(list) \in Nat /\ Len(queue) \in Nat
    BY <2>1
  <2>10. held \in Seq(Buffers) /\ lq \in Seq(Buffers)
    BY Zenon, <2>4, <2>8
  <2> HIDE DEF lq
  <2>11. /\ all \in Seq(Buffers) /\ Len(all) = Len(lq) + Len(held)
         /\ \A i \in 1..Len(lq) : i \in 1..Len(all) /\ all[i] = lq[i]
         /\ \A i \in 1..Len(held) : Len(lq) + i \in 1..Len(all) /\ all[Len(lq) + i] = held[i]
    BY SMTT(30), <2>10, ConcatOf
  <2>12. all \in Seq(Buffers)
    BY Zenon, <2>10, ConcatOf
  <2> HIDE DEF all
  <2>13. Len(all) = BufferCount
    <3>1. Len(list) + Len(queue) + (n - f + 1) = BufferCount
      BY Zenon, <1>1 DEF BatchInv, Placed, AllCounted, f, n
    <3> QED BY Zenon, <2>5, <2>8, <2>11, <3>1
  <2>14. Range(all) = {all[i] : i \in 1..Len(all)}
    BY <2>12 DEF Range
  <2>15. \A i \in 1..Len(all) : all[i] \in Buffers
    BY <2>12
  <2>16. ASSUME NEW b \in Buffers PROVE \E i \in 1..Len(all) : all[i] = b
    <3>1. CASE \E i \in 1..Len(list) : list[i] = b
      BY Zenon, <2>8, <2>11, <3>1
    <3>2. CASE \E i \in 1..Len(queue) : queue[i] = b
      BY ZenonT(30), <2>8, <2>11, <3>2
    <3>3. CASE \E i \in Held : batch[i] = b
      BY ZenonT(30), <2>2, <2>7, <2>11, <3>3
    <3> QED BY ZenonT(30), <1>1, <3>1, <3>2, <3>3 DEF BatchInv, Placed, NoneMissing
  <2>17. Range(all) = Buffers
    BY Zenon, <2>14, <2>15, <2>16
  <2> QED BY Zenon, <2>13, <2>17 DEF BuffersConserved, all, lq, held, f, n, First
<1> QED BY <1>1, BatchInvariant, PTL
=============================================================================
