--------------------------- MODULE PipelineProofs ---------------------------
(***************************************************************************)
(* For any number of slots, buffers, queues and kinds of traffic, the       *)
(* variables of the capture pipeline keep their types, its threads hold     *)
(* buffers and slots when they use them, the kernel and the capture thread  *)
(* stay in step around the ring, every buffer is in one place (the pool,    *)
(* the hands of one thread, or a queue), and the packets of a flow reach    *)
(* one worker in the order of their arrival.                                *)
(***************************************************************************)
EXTENDS Pipeline, ProofBasics

(* A thread has a buffer in its hands exactly between taking it and passing *)
(* it on, the capture thread works on a slot that is the user's, and what   *)
(* it has queued is filled.                                                 *)
CapHands ==
  /\ cap.pc \in {"copy", "push", "give_back"} <=> cap.buf # None
  /\ cap.pc \in {"acquire", "copy", "push", "give_back", "release"} => ring[current] # None
  /\ cap.pc = "push" => content[cap.buf] = ring[current].pkt

WorkerHands ==
  \A w \in Queues : worker[w].pc \in {"handle", "release"} <=> worker[w].buf # None

Filled ==
  /\ \A w \in Queues : worker[w].pc = "handle" => content[worker[w].buf] # None
  /\ \A q \in Queues : \A i \in 1..Len(queue[q]) : content[queue[q][i]] # None

Hands == CapHands /\ WorkerHands /\ Filled

(* How far slot s is ahead of current_frame_. *)
Ahead(s) == IF s >= current THEN s - current ELSE s - current + Frames

Occupied == {s \in Slots : ring[s] # None}

(* The user's slots are the first k from current_frame_ on, and the         *)
(* kernel's next slot follows them; ...                                     *)
UsersAre(k) ==
  /\ kernel = IF current + k < Frames THEN current + k ELSE current + k - Frames
  /\ \A s \in Slots : ring[s] # None <=> Ahead(s) < k

(* ... they are in the order of arrival. *)
ByArrival ==
  /\ \A s, t \in Occupied : Ahead(s) < Ahead(t) => ring[s].pkt.num < ring[t].pkt.num
  /\ \A s \in Occupied : ring[s].pkt.num < arrived

RingInv == (\E k \in 0..Frames : UsersAre(k)) /\ ByArrival

StepInv == TypeOK /\ Hands /\ RingInv
-----------------------------------------------------------------------------
(* A packet goes to an existing queue. *)
LEMMA QueueForType ==
  ASSUME NEW p \in Packets
  PROVE  QueueFor(p) \in Queues
<1>1. p.hdr \in Traffic
  BY Zenon DEF Packets
<1>2. QueueCount \in Nat \ {0} /\ 0 \in Queues
  BY PipelineAssumption DEF Queues
<1>3. \A n \in Nat : n % QueueCount \in Queues
  BY <1>2, ModDef DEF Queues
<1>4. Hash(p.hdr.addr, p.hdr.ports) \in Queues /\ Hash(p.hdr.addr, 0) \in Queues
  BY Zenon, <1>1, <1>3, HashAssumption DEF Hash
<1> QED BY Zenon, <1>2, <1>4 DEF QueueFor

LEMMA SlotsNext ==
  ASSUME NEW s \in Slots
  PROVE  /\ (s + 1) % Frames \in Slots
         /\ (s + 1) % Frames = IF s + 1 < Frames THEN s + 1 ELSE 0
<1>1. Frames \in Nat \ {0} /\ s \in Int
  BY PipelineAssumption DEF Slots
<1>2. CASE s + 1 < Frames
  <2>1. s + 1 \in 0..(Frames - 1)
    BY <1>1, <1>2 DEF Slots
  <2> QED BY Zenon, <1>1, <1>2, <2>1, ModSmall DEF Slots
<1>3. CASE ~(s + 1 < Frames)
  <2>1. s + 1 = Frames * 1 + 0 /\ 0 \in 0..(Frames - 1) /\ s + 1 \in Int
    BY <1>1, <1>3 DEF Slots
  <2>2. (s + 1) % Frames = 0
    BY <1>1, <2>1, ModUnique
  <2> QED BY Zenon, <1>1, <1>3, <2>1, <2>2 DEF Slots
<1> QED BY Zenon, <1>2, <1>3

(* A worker counts its iterations modulo CheckEvery. *)
LEMMA IterationCounted == \A n \in Nat : n % CheckEvery \in 0..(CheckEvery - 1)
BY PipelineAssumption, ModDef

(* None is not a buffer, a packet or a frame. *)
LEMMA NoneApart ==
  /\ None \notin Buffers /\ None \notin Packets
  /\ \A f \in [pkt : Packets, losing : BOOLEAN] : f # None
<1>1. Buffers \subseteq Nat
  BY PipelineAssumption DEF Buffers
<1> QED BY Zenon, <1>1, NoneAssumption DEF Packets

LEMMA InitTyped == Init => TypeOK /\ Hands
<1> SUFFICES ASSUME Init PROVE TypeOK /\ Hands
  BY Zenon
<1>1. 0 \in Slots /\ 0 \in 0..(CheckEvery - 1)
  BY PipelineAssumption DEF Slots
<1>2. list \in Seq(Buffers)
  <2>1. BufferCount \in Nat
    BY Zenon, PipelineAssumption
  <2> QED BY <2>1 DEF Init, Buffers
<1>3. cap.pc = "poll" /\ cap.buf = None /\ cap \in [pc : {"poll"}, buf : {None}]
  BY Zenon DEF Init
<1>4. \A w \in Queues : worker[w].pc = "poll" /\ worker[w].buf = None /\ queue[w] = <<>>
  BY Zenon DEF Init
<1>5. worker \in [Queues -> [pc : {"poll"}, buf : {None}, iters : 0..(CheckEvery - 1)]]
  BY Zenon, <1>1 DEF Init
<1>6. stats \in [Queues -> [processed : Nat, dropped : Nat]]
  BY Zenon DEF Init
<1>7. queue \in [Queues -> Seq(Buffers)] /\ seen \in [Queues -> Seq(Packets)]
  BY DEF Init
<1>8. TypeOK
  BY Zenon, <1>1, <1>2, <1>3, <1>5, <1>6, <1>7 DEF Init, TypeOK
<1>9. Hands
  BY <1>3, <1>4 DEF Hands, CapHands, WorkerHands, Filled
<1> QED BY Zenon, <1>8, <1>9

(* A step keeps the types. *)
LEMMA StepTyped ==
  ASSUME TypeOK, Hands, [Next]_vars
  PROVE  TypeOK'
<1> USE NoneApart DEF TypeOK
<1>1. ASSUME NEW h \in Traffic, Arrive(h)
      PROVE  TypeOK'
  <2>1. kernel' \in Slots
    BY <1>1, SlotsNext DEF Arrive
  <2>2. [pkt |-> [hdr |-> h, num |-> arrived], losing |-> lost > 0] \in [pkt : Packets, losing : BOOLEAN]
    BY DEF Packets
  <2>3. ring' \in [Slots -> [pkt : Packets, losing : BOOLEAN] \cup {None}]
    <3> DEFINE f == [pkt |-> [hdr |-> h, num |-> arrived], losing |-> lost > 0]
    <3>1. ring' = ring \/ ring' = [ring EXCEPT ![kernel] = f]
      BY Zenon, <1>1 DEF Arrive
    <3>2. f \in [pkt : Packets, losing : BOOLEAN]
      BY Zenon, <2>2
    <3> HIDE DEF f
    <3> QED BY ZenonT(30), <3>1, <3>2
  <2> QED BY <1>1, <2>1, <2>3 DEF Arrive, capVars
<1>2. ASSUME CapReceive PROVE TypeOK'
  <2>1. drops' \in Nat
    BY <1>2 DEF CapReceive
  <2>2. cap' = [pc |-> "acquire", buf |-> cap.buf]
    BY Zenon, <1>2 DEF CapReceive, CapGoto
  <2> QED BY Zenon, <1>2, <2>1, <2>2 DEF CapReceive
<1>3. ASSUME CapAcquire PROVE TypeOK'
  <2>1. list # <<>> /\ list[Len(list)] \in Buffers
    BY <1>3 DEF CapAcquire, Pool!Acquire
  <2>2. list' \in Seq(Buffers) /\ out' \subseteq Buffers
    BY <1>3, <2>1 DEF CapAcquire, Pool!Acquire
  <2> QED BY Zenon, <1>3, <2>1, <2>2 DEF CapAcquire, ringVars
<1>4. ASSUME CapStarved PROVE TypeOK'
  <2>1. cap' = [pc |-> "release", buf |-> cap.buf]
    BY Zenon, <1>4 DEF CapStarved, CapGoto
  <2> QED BY <1>4, <2>1 DEF CapStarved, ringVars
<1>5. ASSUME CapCopy PROVE TypeOK'
  <2>1. cap.buf \in Buffers /\ ring[current].pkt \in Packets
    BY Zenon, <1>5 DEF CapCopy, Hands, CapHands
  <2> QED BY Zenon, <1>5, <2>1 DEF CapCopy, CapGoto, ringVars
<1>6. ASSUME CapPush PROVE TypeOK'
  <2>1. cap.buf \in Buffers /\ content[cap.buf] \in Packets
    BY Zenon, <1>6 DEF CapPush, Hands, CapHands
  <2>2. QueueFor(content[cap.buf]) \in Queues
    BY Zenon, <2>1, QueueForType
  <2> QED BY SMTT(30), <1>6, <2>1, <2>2 DEF CapPush, ringVars
<1>7. ASSUME CapPushFull PROVE TypeOK'
  <2>1. cap.buf \in Buffers /\ content[cap.buf] \in Packets
    BY Zenon, <1>7 DEF CapPushFull, Hands, CapHands
  <2>2. QueueFor(content[cap.buf]) \in Queues
    BY Zenon, <2>1, QueueForType
  <2>3. stats' \in [Queues -> [processed : Nat, dropped : Nat]]
    BY <1>7, <2>2 DEF CapPushFull, RecordDrop
  <2> QED BY Zenon, <1>7, <2>3 DEF CapPushFull, CapGoto, ringVars
<1>8. ASSUME CapGiveBack PROVE TypeOK'
  BY <1>8 DEF CapGiveBack, GiveBack, Pool!Release, ringVars
<1>9. ASSUME CapRelease PROVE TypeOK'
  <2>1. current' \in Slots
    BY Zenon, <1>9, SlotsNext DEF CapRelease, NextFrame
  <2> QED BY Zenon, <1>9, <2>1 DEF CapRelease, CapGoto
<1>10. ASSUME CapStop \/ CapJoin PROVE TypeOK'
  BY ZenonT(30), <1>10 DEF CapStop, CapJoin, CapGoto, ringVars
<1>11. ASSUME NEW w \in Queues, WorkerPop(w) PROVE TypeOK'
  <2>1. Head(queue[w]) \in Buffers /\ Tail(queue[w]) \in Seq(Buffers)
    BY <1>11 DEF WorkerPop
  <2> QED BY Zenon, <1>11, <2>1 DEF WorkerPop, ringVars, capVars
<1>12. ASSUME NEW w \in Queues, WorkerHandle(w) PROVE TypeOK'
  <2>1. content[worker[w].buf] \in Packets
    BY <1>12 DEF WorkerHandle, Hands, WorkerHands, Filled
  <2>2. seen' \in [Queues -> Seq(Packets)]
    BY <1>12, <2>1 DEF WorkerHandle
  <2>3. worker' = [worker EXCEPT ![w] = [pc |-> "release", buf |-> worker[w].buf, iters |-> worker[w].iters]]
    BY Zenon, <1>12 DEF WorkerHandle
  <2> QED BY <1>12, <2>2, <2>3 DEF WorkerHandle, ringVars, capVars
<1>13. \A n \in Nat : n % CheckEvery \in 0..(CheckEvery - 1)
  BY Zenon, IterationCounted
<1>14. ASSUME NEW w \in Queues, worker' = [worker EXCEPT ![w] = EndIteration(w)]
       PROVE  worker' \in [Queues -> [pc : {"poll", "handle", "release", "count", "done"},
                                      buf : Buffers \cup {None}, iters : 0..(CheckEvery - 1)]]
  <2>1. worker[w].iters + 1 \in Nat
    BY PipelineAssumption
  <2>2. EndIteration(w) \in [pc : {"poll", "done"}, buf : {None}, iters : 0..(CheckEvery - 1)]
    BY Zenon, <1>13, <2>1 DEF EndIteration
  <2> QED BY Zenon, <1>14, <2>2
<1>15. ASSUME NEW w \in Queues, WorkerRelease(w) PROVE TypeOK'
  <2>1. worker' = [worker EXCEPT ![w] = [pc |-> "count", buf |-> None, iters |-> worker[w].iters]]
    BY Zenon, <1>15 DEF WorkerRelease
  <2>2. list' \in Seq(Buffers) /\ out' \subseteq Buffers
    BY <1>15 DEF WorkerRelease, Pool!Release
  <2> QED BY <1>15, <2>1, <2>2 DEF WorkerRelease, ringVars, capVars
<1>16. ASSUME NEW w \in Queues, WorkerCount(w) \/ WorkerIdle(w) PROVE TypeOK'
  <2>1. stats' \in [Queues -> [processed : Nat, dropped : Nat]]
    <3>1. CASE WorkerCount(w)
      BY <3>1 DEF WorkerCount
    <3>2. CASE WorkerIdle(w)
      BY Zenon, <3>2 DEF WorkerIdle
    <3> QED BY Zenon, <1>16, <3>1, <3>2
  <2> QED BY Zenon, <1>14, <1>16, <2>1 DEF WorkerCount, WorkerIdle, ringVars, capVars
<1>17. ASSUME UNCHANGED vars PROVE TypeOK'
  BY Zenon, <1>17 DEF vars, ringVars, capVars
<1> HIDE DEF TypeOK
<1> QED
  BY <1>1, <1>2, <1>3, <1>4, <1>5, <1>6, <1>7, <1>8, <1>9, <1>10, <1>11, <1>12,
     <1>15, <1>16, <1>17
  DEF Next, CapStep, WorkerStep, Over

(* What a step leaves alone stays in the right hands. *)
LEMMA KeepCapHands ==
  ASSUME CapHands, UNCHANGED <<cap, content, current>>,
         ring[current] # None => ring'[current] = ring[current]
  PROVE  CapHands'
BY Zenon DEF CapHands

LEMMA KeepWorkers ==
  ASSUME WorkerHands, Filled, UNCHANGED <<worker, queue, content>>
  PROVE  WorkerHands' /\ Filled'
BY Zenon DEF WorkerHands, Filled

(* A step leaves the buffers in the right hands. *)
LEMMA StepHands ==
  ASSUME TypeOK, Hands, [Next]_vars
  PROVE  Hands'
<1>0. CapHands /\ WorkerHands /\ Filled
  BY Zenon DEF Hands
<1>t. /\ cap \in [pc : {"poll", "acquire", "copy", "push", "give_back", "release",
                        "join", "done"}, buf : Buffers \cup {None}]
      /\ content \in [Buffers -> Packets \cup {None}]
      /\ queue \in [Queues -> Seq(Buffers)]
      /\ DOMAIN worker = Queues /\ None \notin Buffers
  BY Zenon, NoneApart DEF TypeOK
<1>1. ASSUME NEW h \in Traffic, Arrive(h)
      PROVE  Hands'
  <2>1. ring[current] # None => ring'[current] = ring[current]
    BY Zenon, <1>1 DEF Arrive, TypeOK
  <2>2. UNCHANGED <<cap, content, current, worker, queue>>
    BY Zenon, <1>1 DEF Arrive, capVars
  <2> QED BY Zenon, <1>0, <2>1, <2>2, KeepCapHands, KeepWorkers DEF Hands
<1>2. ASSUME CapReceive \/ CapStarved \/ CapPushFull \/ CapStop \/ CapJoin PROVE Hands'
  <2>1. UNCHANGED <<ring, current, content, queue, worker>>
    BY Zenon, <1>2 DEF CapReceive, CapStarved, CapPushFull, CapStop, CapJoin, ringVars
  <2>2. \/ cap.pc = "poll" /\ ring[current] # None /\ cap' = [cap EXCEPT !.pc = "acquire"]
        \/ cap.pc = "acquire" /\ cap' = [cap EXCEPT !.pc = "release"]
        \/ cap.pc = "push" /\ cap' = [cap EXCEPT !.pc = "give_back"]
        \/ cap.pc = "poll" /\ cap' = [cap EXCEPT !.pc = "join"]
        \/ cap.pc = "join" /\ cap' = [cap EXCEPT !.pc = "done"]
    BY Zenon, <1>2 DEF CapReceive, CapStarved, CapPushFull, CapStop, CapJoin, CapGoto
  <2>3. CapHands'
    BY <1>0, <1>t, <2>1, <2>2 DEF CapHands
  <2> QED BY Zenon, <1>0, <2>1, <2>3, KeepWorkers DEF Hands
<1>3. ASSUME CapAcquire PROVE Hands'
  <2>1. list[Len(list)] \in Buffers
    BY <1>3 DEF CapAcquire, Pool!Acquire, TypeOK
  <2>2. /\ cap.pc = "acquire" /\ cap' = [pc |-> "copy", buf |-> list[Len(list)]]
        /\ UNCHANGED <<ring, current, content, queue, worker>>
    BY Zenon, <1>3 DEF CapAcquire, ringVars
  <2>3. CapHands'
    BY Zenon, <1>0, <1>t, <2>1, <2>2 DEF CapHands
  <2> QED BY Zenon, <1>0, <2>2, <2>3, KeepWorkers DEF Hands
<1>4. ASSUME CapCopy PROVE Hands'
  <2>1. cap.pc = "copy" /\ cap.buf \in Buffers /\ ring[current] # None
    BY Zenon, <1>0, <1>4, <1>t DEF CapCopy, CapHands
  <2>2. ring[current].pkt \in Packets /\ ring[current].pkt # None
    BY <2>1, NoneApart DEF TypeOK
  <2>3. /\ content' = [content EXCEPT ![cap.buf] = ring[current].pkt]
        /\ UNCHANGED <<ring, current, queue, worker>>
        /\ cap' = [pc |-> "push", buf |-> cap.buf]
    BY Zenon, <1>4, <1>t DEF CapCopy, CapGoto, ringVars
  <2>4. CapHands'
    BY Zenon, <1>t, <2>1, <2>3 DEF CapHands
  <2>5. \A b \in Buffers : content[b] # None => content'[b] # None
    BY Zenon, <1>t, <2>1, <2>2, <2>3
  <2>6. Filled'
    <3>1. \A w \in Queues : worker[w].pc = "handle" => worker[w].buf \in Buffers
      BY Zenon, <1>0 DEF WorkerHands, TypeOK
    <3>2. \A q \in Queues : \A i \in 1..Len(queue[q]) : queue[q][i] \in Buffers
      BY <1>t
    <3> QED BY Zenon, <1>0, <2>3, <2>5, <3>1, <3>2 DEF Filled
  <2>7. WorkerHands'
    BY Zenon, <1>0, <2>3 DEF WorkerHands
  <2> QED BY Zenon, <2>4, <2>6, <2>7 DEF Hands
<1>5. ASSUME CapPush PROVE Hands'
  <2> DEFINE q == QueueFor(content[cap.buf])
  <2>1. cap.pc = "push" /\ cap.buf \in Buffers /\ ring[current] # None
        /\ content[cap.buf] = ring[current].pkt
    BY Zenon, <1>0, <1>5, <1>t DEF CapPush, CapHands
  <2>2. content[cap.buf] \in Packets /\ content[cap.buf] # None
    BY <2>1, NoneApart DEF TypeOK
  <2>3. q \in Queues
    BY Zenon, <2>2, QueueForType
  <2>4. /\ queue' = [queue EXCEPT ![q] = Append(@, cap.buf)]
        /\ UNCHANGED <<ring, current, content, worker>>
        /\ cap' = [pc |-> "release", buf |-> None]
    BY Zenon, <1>5 DEF CapPush, ringVars
  <2> HIDE DEF q
  <2>5. CapHands'
    BY Zenon, <2>1, <2>4 DEF CapHands
  <2>6. Filled'
    BY <1>0, <1>t, <2>1, <2>2, <2>3, <2>4 DEF Filled
  <2>7. WorkerHands'
    BY Zenon, <1>0, <2>4 DEF WorkerHands
  <2> QED BY Zenon, <2>5, <2>6, <2>7 DEF Hands
<1>6. ASSUME CapGiveBack PROVE Hands'
  <2>1. /\ cap.pc = "give_back" /\ cap' = [pc |-> "release", buf |-> None]
        /\ UNCHANGED <<ring, current, content, queue, worker>>
    BY Zenon, <1>6 DEF CapGiveBack, ringVars
  <2>2. CapHands'
    BY Zenon, <1>0, <2>1 DEF CapHands
  <2> QED BY Zenon, <1>0, <2>1, <2>2, KeepWorkers DEF Hands
<1>7. ASSUME CapRelease PROVE Hands'
  <2>1. /\ cap.buf = None /\ cap' = [pc |-> "poll", buf |-> None]
        /\ UNCHANGED <<content, queue, worker>>
    BY Zenon, <1>0, <1>7, <1>t DEF CapRelease, CapGoto, CapHands
  <2>2. CapHands'
    BY Zenon, <2>1 DEF CapHands
  <2> QED BY Zenon, <1>0, <2>1, <2>2, KeepWorkers DEF Hands
<1>8. ASSUME NEW w \in Queues, WorkerPop(w) PROVE Hands'
  <2>1. UNCHANGED <<ring, current, content, cap>> /\ queue[w] # <<>>
    BY Zenon, <1>8 DEF WorkerPop, ringVars, capVars
  <2>2. /\ worker'[w].pc = "handle" /\ worker'[w].buf = queue[w][1]
        /\ \A v \in Queues : v # w => queue'[v] = queue[v] /\ worker'[v] = worker[v]
        /\ queue'[w] = Tail(queue[w])
    BY <1>8, <1>t DEF WorkerPop
  <2>3. queue[w] \in Seq(Buffers)
    BY Zenon, <1>t
  <2>4. 1 \in 1..Len(queue[w]) /\ queue[w][1] \in Buffers
    BY <2>1, <2>3
  <2>5. \A i \in 1..Len(queue'[w]) : i + 1 \in 1..Len(queue[w]) /\ queue'[w][i] = queue[w][i + 1]
    BY <2>1, <2>2, <2>3
  <2>6. WorkerHands'
    BY SMTT(30), <1>0, <1>t, <2>2, <2>4 DEF WorkerHands
  <2>7. \A v \in Queues : worker'[v].pc = "handle" => content'[worker'[v].buf] # None
    BY <1>0, <2>1, <2>2, <2>4 DEF Filled
  <2>8. \A v \in Queues : \A i \in 1..Len(queue'[v]) : content'[queue'[v][i]] # None
    <3>1. \A i \in 1..Len(queue'[w]) : content'[queue'[w][i]] # None
      BY Zenon, <1>0, <2>1, <2>5 DEF Filled
    <3>2. \A v \in Queues : v # w => \A i \in 1..Len(queue'[v]) : content'[queue'[v][i]] # None
      BY <1>0, <2>1, <2>2 DEF Filled
    <3> QED BY Zenon, <3>1, <3>2
  <2>9. Filled'
    BY Zenon, <2>7, <2>8 DEF Filled
  <2> QED BY Zenon, <1>0, <2>1, <2>6, <2>9, KeepCapHands DEF Hands
<1>9. ASSUME NEW w \in Queues,
             UNCHANGED <<ring, current, content, cap, queue>>,
             \A v \in Queues : v # w => worker'[v] = worker[v],
             worker'[w].pc # "handle",
             worker'[w].pc = "release" <=> worker'[w].buf # None
      PROVE  Hands'
  <2>1. WorkerHands'
    BY Zenon, <1>0, <1>9 DEF WorkerHands
  <2>2. \A v \in Queues : worker'[v].pc = "handle" => worker'[v] = worker[v]
    BY Zenon, <1>9
  <2>3. Filled'
    BY <1>0, <1>9, <2>2 DEF Filled
  <2> QED BY Zenon, <1>0, <1>9, <2>1, <2>3, KeepCapHands DEF Hands
<1>10. ASSUME NEW w \in Queues, WorkerHandle(w) PROVE Hands'
  <2>1. UNCHANGED <<ring, current, content, cap, queue>>
    BY Zenon, <1>10 DEF WorkerHandle, ringVars, capVars
  <2>2. /\ worker'[w].pc = "release" /\ worker'[w].buf = worker[w].buf /\ worker[w].pc = "handle"
        /\ \A v \in Queues : v # w => worker'[v] = worker[v]
    BY Zenon, <1>10, <1>t DEF WorkerHandle
  <2>3. worker[w].buf # None
    BY Zenon, <1>0, <2>2 DEF WorkerHands
  <2> QED BY Zenon, <1>9, <2>1, <2>2, <2>3
<1>11. ASSUME NEW w \in Queues, WorkerRelease(w) \/ WorkerCount(w) \/ WorkerIdle(w) PROVE Hands'
  <2>1. UNCHANGED <<ringVars, content, capVars, queue>>
    BY Zenon, <1>11 DEF WorkerRelease, WorkerCount, WorkerIdle
  <2>2. /\ worker'[w].buf = None /\ worker'[w].pc \in {"poll", "count", "done"}
        /\ \A v \in Queues : v # w => worker'[v] = worker[v]
    <3>1. CASE WorkerRelease(w)
      BY Zenon, <1>t, <3>1 DEF WorkerRelease
    <3>2. CASE WorkerCount(w) \/ WorkerIdle(w)
      <4>1. worker' = [worker EXCEPT ![w] = EndIteration(w)]
        BY Zenon, <3>2 DEF WorkerCount, WorkerIdle
      <4> QED BY Zenon, <1>t, <4>1 DEF EndIteration
    <3> QED BY Zenon, <1>11, <3>1, <3>2
  <2>3. UNCHANGED <<ring, current, content, cap, queue>>
    BY Zenon, <2>1 DEF ringVars, capVars
  <2> QED BY Zenon, <1>9, <2>1, <2>2, <2>3
<1>12. ASSUME UNCHANGED vars PROVE Hands'
  <2>1. UNCHANGED <<ring, current, content, cap, queue, worker>>
    BY Zenon, <1>12 DEF vars, ringVars, capVars
  <2> QED BY Zenon, <1>0, <2>1, KeepCapHands, KeepWorkers DEF Hands
<1> QED
  BY Zenon, <1>1, <1>2, <1>3, <1>4, <1>5, <1>6, <1>7, <1>8, <1>10, <1>11, <1>12
  DEF Next, CapStep, WorkerStep, Over
-----------------------------------------------------------------------------
LEMMA AheadType ==
  ASSUME TypeOK, NEW s \in Slots
  PROVE  Ahead(s) \in 0..(Frames - 1) /\ (Ahead(s) = 0 <=> s = current)
  BY PipelineAssumption DEF TypeOK, Ahead, Slots

LEMMA InitRing == Init => RingInv
<1> SUFFICES ASSUME Init PROVE RingInv
  BY Zenon
<1>1. Occupied = {} /\ kernel = 0 /\ current = 0 /\ \A s \in Slots : ring[s] = None
  BY Zenon DEF Init, Occupied
<1>2. Frames \in Nat \ {0} /\ TypeOK
  BY Zenon, PipelineAssumption, InitTyped
<1>3. \A s \in Slots : Ahead(s) \in Nat
  BY <1>2, AheadType
<1>4. 0 \in 0..Frames /\ UsersAre(0)
  BY <1>1, <1>2, <1>3 DEF UsersAre
<1> QED BY Zenon, <1>1, <1>4 DEF RingInv, ByArrival

(* The kernel puts a packet behind the others. *)
LEMMA ArriveRing ==
  ASSUME TypeOK, RingInv, NEW h \in Traffic, Arrive(h)
  PROVE  RingInv'
<1> DEFINE f == [pkt |-> [hdr |-> h, num |-> arrived], losing |-> lost > 0]
<1>0. PICK k \in 0..Frames : UsersAre(k)
  BY Zenon DEF RingInv
<1>1. k \in Nat /\ k <= Frames /\ Frames \in Nat \ {0}
  BY PipelineAssumption
<1>2. /\ arrived \in Nat /\ arrived' = arrived + 1 /\ current' = current
      /\ current \in Slots /\ kernel \in Slots
  BY Zenon DEF TypeOK, Arrive
<1>3. \A s : Ahead(s)' = Ahead(s)
  BY Zenon, <1>2 DEF Ahead
<1>4. \A s \in Occupied : s \in Slots /\ ring[s].pkt.num \in Nat /\ ring[s].pkt.num < arrived
  BY Zenon DEF TypeOK, Occupied, RingInv, ByArrival, Packets
<1>5. CASE ring[kernel] # None
  <2>1. UNCHANGED <<ring, kernel>>
    BY Zenon, <1>5 DEF Arrive
  <2>2. Occupied' = Occupied
    BY Zenon, <2>1 DEF Occupied
  <2>3. \A s \in Occupied' : ring'[s].pkt.num < arrived'
    BY <1>2, <1>4, <2>1, <2>2
  <2>4. UsersAre(k)'
    BY Zenon, <1>0, <1>2, <1>3, <2>1 DEF UsersAre
  <2>5. ByArrival'
    BY Zenon, <1>3, <2>1, <2>2, <2>3 DEF RingInv, ByArrival
  <2> QED BY Zenon, <2>4, <2>5 DEF RingInv
<1>6. CASE ring[kernel] = None
  <2>1. ring' = [ring EXCEPT ![kernel] = f] /\ kernel' = (kernel + 1) % Frames
    BY Zenon, <1>6 DEF Arrive
  <2>2. f # None /\ f.pkt.num = arrived
    <3>1. f \in [pkt : [hdr : Traffic, num : Nat], losing : BOOLEAN]
      BY <1>2
    <3>2. f.pkt.num = arrived
      BY Zenon
    <3> QED BY Zenon, <3>1, <3>2, NoneAssumption
  <2> HIDE DEF f
  <2>3. ring'[kernel] = f /\ \A s \in Slots : s # kernel => ring'[s] = ring[s]
    BY Zenon, <1>2, <2>1 DEF TypeOK
  <2>4. Occupied' = Occupied \cup {kernel} /\ kernel \notin Occupied
    BY <1>2, <1>6, <2>2, <2>3 DEF Occupied
  <2>5. k < Frames
    <3> SUFFICES ASSUME k = Frames PROVE FALSE
      BY <1>1
    <3>1. kernel = current
      BY <1>0, <1>1, <1>2 DEF UsersAre, Slots
    <3>2. Ahead(kernel) < k
      BY <1>1, <1>2, <3>1 DEF Ahead, Slots
    <3> QED BY Zenon, <1>0, <1>2, <1>6, <3>2 DEF UsersAre
  <2>6. Ahead(kernel) = k
    BY <1>0, <1>1, <1>2, <2>5 DEF UsersAre, Ahead, Slots
  <2>7. kernel' = IF current + (k + 1) < Frames THEN current + (k + 1) ELSE current + (k + 1) - Frames
    <3>1. kernel' = IF kernel + 1 < Frames THEN kernel + 1 ELSE 0
      BY Zenon, <1>2, <2>1, SlotsNext
    <3>2. kernel = IF current + k < Frames THEN current + k ELSE current + k - Frames
      BY Zenon, <1>0 DEF UsersAre
    <3> QED BY <1>1, <1>2, <2>5, <3>1, <3>2 DEF Slots
  <2>8. \A s \in Slots : ring'[s] # None <=> Ahead(s) < k + 1
    <3> SUFFICES ASSUME NEW s \in Slots PROVE ring'[s] # None <=> Ahead(s) < k + 1
      BY Zenon
    <3>1. CASE s = kernel
      BY <1>1, <2>2, <2>3, <2>6, <3>1
    <3>2. CASE s # kernel
      <4>1. Ahead(s) # k
        BY <1>2, <2>6, <3>2, PipelineAssumption DEF Ahead, Slots
      <4>2. Ahead(s) \in Nat
        BY AheadType
      <4>3. ring[s] # None <=> Ahead(s) < k
        BY Zenon, <1>0 DEF UsersAre
      <4> QED BY <1>1, <2>3, <3>2, <4>1, <4>2, <4>3
    <3> QED BY Zenon, <3>1, <3>2
  <2>9. \A s \in Occupied' : ring'[s].pkt.num < arrived'
    BY <1>2, <1>4, <2>2, <2>3, <2>4
  <2>10. \A s, t \in Occupied' : Ahead(s) < Ahead(t) => ring'[s].pkt.num < ring'[t].pkt.num
    <3> SUFFICES ASSUME NEW s \in Occupied', NEW t \in Occupied', Ahead(s) < Ahead(t)
                 PROVE  ring'[s].pkt.num < ring'[t].pkt.num
      BY Zenon
    <3>1. CASE t = kernel
      <4>1. s # kernel
        BY <1>1, <2>6, <3>1
      <4> QED BY Zenon, <1>4, <2>2, <2>3, <2>4, <3>1, <4>1
    <3>2. CASE t # kernel /\ s = kernel
      <4>1. Ahead(t) < k /\ Ahead(t) \in Nat
        BY <1>0, <1>4, <2>4, <3>2, AheadType DEF UsersAre, Occupied
      <4> QED BY <1>1, <2>6, <3>2, <4>1
    <3>3. CASE t # kernel /\ s # kernel
      BY Zenon, <1>4, <2>3, <2>4, <3>3 DEF RingInv, ByArrival
    <3> QED BY Zenon, <3>1, <3>2, <3>3
  <2>11. \A s \in Slots : ring'[s] # None <=> Ahead(s)' < k + 1
    BY Zenon, <1>3, <2>8
  <2>12. \A s, t \in Occupied' : Ahead(s)' < Ahead(t)' => ring'[s].pkt.num < ring'[t].pkt.num
    BY Zenon, <1>3, <2>10
  <2>13. UsersAre(k + 1)' /\ k + 1 \in 0..Frames
    BY <1>1, <1>2, <2>5, <2>7, <2>11 DEF UsersAre
  <2>14. ByArrival'
    BY Zenon, <2>9, <2>12 DEF ByArrival
  <2> QED BY Zenon, <2>13, <2>14 DEF RingInv
<1> QED BY Zenon, <1>5, <1>6

(* The capture thread gives the first slot back. *)
LEMMA ReleaseRing ==
  ASSUME TypeOK, Hands, RingInv, CapRelease
  PROVE  RingInv'
<1>0. PICK k \in 0..Frames : UsersAre(k)
  BY Zenon DEF RingInv
<1>1. k \in Nat /\ k <= Frames /\ Frames \in Nat \ {0}
  BY PipelineAssumption
<1>2. /\ current \in Slots /\ ring[current] # None
      /\ ring' = [ring EXCEPT ![current] = None] /\ UNCHANGED <<kernel, arrived>>
      /\ current' = IF current + 1 < Frames THEN current + 1 ELSE 0
  BY Zenon, SlotsNext DEF TypeOK, Hands, CapHands, CapRelease, NextFrame
<1>3. ring'[current] = None /\ \A s \in Slots : s # current => ring'[s] = ring[s]
  BY Zenon, <1>2 DEF TypeOK
<1>4. Occupied' = Occupied \ {current} /\ current \in Occupied
  BY Zenon, <1>2, <1>3 DEF Occupied
<1>5. k # 0
  BY <1>0, <1>2, AheadType DEF UsersAre
<1>6. \A s \in Slots : Ahead(s)' = IF s = current THEN Frames - 1 ELSE Ahead(s) - 1
  BY <1>1, <1>2 DEF Ahead, Slots
<1>7. \A s \in Slots : Ahead(s) \in 0..(Frames - 1)
  BY Zenon, AheadType
<1>8. kernel' = IF current' + (k - 1) < Frames THEN current' + (k - 1) ELSE current' + (k - 1) - Frames
  <2>1. kernel = IF current + k < Frames THEN current + k ELSE current + k - Frames
    BY Zenon, <1>0 DEF UsersAre
  <2> QED BY <1>1, <1>2, <1>5, <2>1 DEF Slots
<1>9. \A s \in Slots : ring'[s] # None <=> Ahead(s)' < k - 1
  <2> SUFFICES ASSUME NEW s \in Slots PROVE ring'[s] # None <=> Ahead(s)' < k - 1
    BY Zenon
  <2>1. CASE s = current
    BY <1>1, <1>3, <1>6, <2>1
  <2>2. CASE s # current
    <3>1. ring[s] # None <=> Ahead(s) < k
      BY Zenon, <1>0 DEF UsersAre
    <3> QED BY <1>1, <1>3, <1>6, <1>7, <2>2, <3>1
  <2> QED BY Zenon, <2>1, <2>2
<1>10. \A s \in Occupied' : s \in Slots /\ s \in Occupied /\ s # current /\ ring'[s] = ring[s]
  BY Zenon, <1>3, <1>4 DEF Occupied
<1>11. \A s, t \in Occupied' : Ahead(s)' < Ahead(t)' => ring'[s].pkt.num < ring'[t].pkt.num
  <2> SUFFICES ASSUME NEW s \in Occupied', NEW t \in Occupied', Ahead(s)' < Ahead(t)'
               PROVE  ring'[s].pkt.num < ring'[t].pkt.num
    BY Zenon
  <2>1. Ahead(s) < Ahead(t)
    BY <1>6, <1>7, <1>10
  <2> QED BY Zenon, <1>10, <2>1 DEF RingInv, ByArrival
<1>12. \A s \in Occupied' : ring'[s].pkt.num < arrived'
  BY Zenon, <1>2, <1>10 DEF RingInv, ByArrival
<1>13. UsersAre(k - 1)' /\ k - 1 \in 0..Frames
  BY <1>1, <1>5, <1>8, <1>9 DEF UsersAre
<1>14. ByArrival'
  BY Zenon, <1>11, <1>12 DEF ByArrival
<1> QED BY Zenon, <1>13, <1>14 DEF RingInv

LEMMA StepRing ==
  ASSUME TypeOK, Hands, RingInv, [Next]_vars
  PROVE  RingInv'
<1>1. ASSUME UNCHANGED <<ring, kernel, arrived, current>> PROVE RingInv'
  <2>1. Occupied' = Occupied
    BY Zenon, <1>1 DEF Occupied
  <2>2. \A s : Ahead(s)' = Ahead(s)
    BY Zenon, <1>1 DEF Ahead
  <2>3. \A k : UsersAre(k) => UsersAre(k)'
    BY Zenon, <1>1, <2>2 DEF UsersAre
  <2>4. ByArrival'
    BY Zenon, <1>1, <2>1, <2>2 DEF RingInv, ByArrival
  <2> QED BY Zenon, <2>3, <2>4 DEF RingInv
<1>2. CASE \E h \in Traffic : Arrive(h)
  BY Zenon, <1>2, ArriveRing
<1>3. CASE CapRelease
  BY Zenon, <1>3, ReleaseRing
<1>4. CASE CapReceive
  BY Zenon, <1>1, <1>4 DEF CapReceive
<1>5. CASE CapAcquire
  BY Zenon, <1>1, <1>5 DEF CapAcquire, ringVars
<1>6. CASE CapStarved \/ CapCopy
  BY Zenon, <1>1, <1>6 DEF CapStarved, CapCopy, ringVars
<1>7. CASE CapPush \/ CapPushFull
  BY Zenon, <1>1, <1>7 DEF CapPush, CapPushFull, ringVars
<1>8. CASE CapGiveBack \/ CapStop \/ CapJoin
  BY Zenon, <1>1, <1>8 DEF CapGiveBack, CapStop, CapJoin, ringVars
<1>9. CASE UNCHANGED vars
  BY Zenon, <1>1, <1>9 DEF vars, ringVars
<1>10. ASSUME NEW w \in Queues, WorkerStep(w) PROVE RingInv'
  <2>1. UNCHANGED ringVars
    BY Zenon, <1>10 DEF WorkerStep, WorkerPop, WorkerHandle, WorkerRelease, WorkerCount, WorkerIdle
  <2> QED BY Zenon, <1>1, <2>1 DEF ringVars
<1> QED
  BY Zenon, <1>2, <1>3, <1>4, <1>5, <1>6, <1>7, <1>8, <1>9, <1>10 DEF Next, CapStep, Over

(* What that says of positions counted from current_frame_. *)
LEMMA InStep ==
  ASSUME TypeOK, RingInv
  PROVE  RingInStep
<1> DEFINE slot(i) == (current + i) % Frames
<1>0. PICK k \in 0..Frames : UsersAre(k)
  BY Zenon DEF RingInv
<1>1. k \in Nat /\ k <= Frames /\ Frames \in Nat \ {0} /\ current \in Slots
  BY PipelineAssumption DEF TypeOK
<1>2. ASSUME NEW i \in 0..Frames
      PROVE  slot(i) = IF current + i < Frames THEN current + i ELSE current + i - Frames
  <2>1. CASE current + i < Frames
    <3>1. current + i \in 0..(Frames - 1)
      BY <1>1, <2>1 DEF Slots
    <3> QED BY Zenon, <1>1, <2>1, <3>1, ModSmall
  <2>2. CASE ~(current + i < Frames)
    <3> DEFINE x == current + i
               d == x - Frames
    <3>1. x \in Int /\ d \in 0..(Frames - 1) /\ x = Frames * 1 + d
      BY <1>1, <2>2 DEF Slots
    <3> HIDE DEF x, d
    <3>2. x % Frames = d
      BY <1>1, <3>1, ModUnique
    <3>3. slot(i) = d
      BY Zenon, <3>2 DEF x
    <3> HIDE DEF slot
    <3> QED BY <1>1, <2>2, <3>3 DEF x, d, Slots
  <2> QED BY Zenon, <2>1, <2>2
<1> HIDE DEF slot
<1>3. \A i \in 0..(Frames - 1) : slot(i) \in Slots /\ Ahead(slot(i)) = i
  BY <1>1, <1>2 DEF Ahead, Slots
<1>4. kernel = slot(k)
  BY Zenon, <1>0, <1>2 DEF UsersAre
<1>5. \A i \in 0..(Frames - 1) : ring[slot(i)] # None <=> i < k
  BY Zenon, <1>0, <1>3 DEF UsersAre
<1>6. \A i, j \in 0..(k - 1) : i < j => ring[slot(i)].pkt.num < ring[slot(j)].pkt.num
  <2>1. \A i \in 0..(k - 1) : i \in 0..(Frames - 1) /\ i < k
    BY <1>1
  <2>2. \A i \in 0..(k - 1) : slot(i) \in Occupied /\ Ahead(slot(i)) = i
    BY Zenon, <1>3, <1>5, <2>1 DEF Occupied
  <2> QED BY Zenon, <2>2 DEF RingInv, ByArrival
<1> QED BY Zenon, <1>4, <1>5, <1>6 DEF RingInStep, slot

(* The inductive invariant about types, hands and slots. *)
THEOREM StepInvariant == Spec => []StepInv
<1>1. Init => StepInv
  BY Zenon, InitTyped, InitRing DEF StepInv
<1>2. StepInv /\ [Next]_vars => StepInv'
  BY Zenon, StepTyped, StepHands, StepRing DEF StepInv
<1> QED BY <1>1, <1>2, PTL DEF Spec

(* The variables of the capture program keep their types. *)
THEOREM PipelineTypeOK == Spec => []TypeOK
<1>1. StepInv => TypeOK
  BY Zenon DEF StepInv
<1> QED BY <1>1, StepInvariant, PTL

(* The kernel and the capture thread agree on whose slot is whose: the      *)
(* modular step of PacketRing::release never leaves the user's slots.       *)
THEOREM RingStaysInStep == Spec => []RingInStep
<1>1. StepInv => RingInStep
  BY Zenon, InStep DEF StepInv
<1> QED BY <1>1, StepInvariant, PTL
-----------------------------------------------------------------------------
(* No buffer is twice in the pool, twice in the queues or in the hands of   *)
(* two workers, ...                                                         *)
NoneTwice ==
  /\ \A i, j \in 1..Len(list) : list[i] = list[j] => i = j
  /\ \A q, r \in Queues : \A i \in 1..Len(queue[q]), j \in 1..Len(queue[r]) :
       queue[q][i] = queue[r][j] => q = r /\ i = j
  /\ \A v, w \in Queues : worker[v].buf = worker[w].buf => v = w \/ worker[v].buf = None

(* ... nor in two of these places at a time, ... *)
Apart ==
  /\ \A i \in 1..Len(list) : list[i] # cap.buf
  /\ \A i \in 1..Len(list) : \A w \in Queues : list[i] # worker[w].buf
  /\ \A i \in 1..Len(list) : \A q \in Queues : \A j \in 1..Len(queue[q]) : list[i] # queue[q][j]
  /\ \A q \in Queues : \A j \in 1..Len(queue[q]) : queue[q][j] # cap.buf
  /\ \A q, w \in Queues : \A j \in 1..Len(queue[q]) : queue[q][j] # worker[w].buf
  /\ \A w \in Queues : worker[w].buf = cap.buf => cap.buf = None

(* ... and none is missing. *)
NoneMissing ==
  \A b \in Buffers :
    \/ \E i \in 1..Len(list) : list[i] = b
    \/ cap.buf = b
    \/ \E q \in Queues : \E i \in 1..Len(queue[q]) : queue[q][i] = b
    \/ \E w \in Queues : worker[w].buf = b

Placed == NoneTwice /\ Apart /\ NoneMissing

BufferInv == TypeOK /\ Hands /\ Placed
-----------------------------------------------------------------------------
(* The five steps that move a buffer, and all the others. *)
LEMMA StayPlaced ==
  ASSUME Placed, UNCHANGED <<list, queue>>, cap'.buf = cap.buf,
         \A w \in Queues : worker'[w].buf = worker[w].buf
  PROVE  Placed'
<1>1. NoneTwice'
  BY DEF Placed, NoneTwice
<1>2. Apart'
  BY DEF Placed, Apart
<1>3. NoneMissing'
  BY Zenon DEF Placed, NoneMissing
<1> QED BY Zenon, <1>1, <1>2, <1>3 DEF Placed

LEMMA AcquirePlaced ==
  ASSUME TypeOK, Hands, Placed, CapAcquire
  PROVE  Placed'
<1> DEFINE n == Len(list)
<1>1. n \in Nat \ {0} /\ n \in 1..n /\ list[n] \in Buffers /\ list[n] # None
  BY NoneApart DEF CapAcquire, Pool!Acquire, TypeOK
<1>2. Len(list') = n - 1 /\ \A i \in 1..(n - 1) : i \in 1..n /\ i # n /\ list'[i] = list[i]
  <2>1. list \in Seq(Buffers) /\ list' = SubSeq(list, 1, n - 1)
    BY Zenon DEF CapAcquire, Pool!Acquire, TypeOK
  <2>2. Len(list') = n - 1
    <3> DEFINE t == SubSeq(list, 1, n - 1)
    <3>1. \A i \in 1..(n - 1) : list[i] \in Buffers
      BY <1>1, <2>1
    <3>2. Len(t) = IF 1 <= n - 1 THEN n - 1 - 1 + 1 ELSE 0
      BY <1>1, <3>1, PartOf
    <3>3. list' = t
      BY Zenon, <2>1
    <3> HIDE DEF t, n
    <3>4. Len(t) = n - 1
      BY <1>1, <3>2
    <3> QED BY Zenon, <3>3, <3>4
  <2>3. ASSUME NEW i \in 1..(n - 1) PROVE i \in 1..n /\ i # n /\ list'[i] = list[i]
    BY <1>1, <2>1
  <2> QED BY Zenon, <2>2, <2>3
<1>3. cap'.buf = list[n] /\ cap.buf = None /\ UNCHANGED <<queue, worker>>
  BY Zenon DEF CapAcquire, Hands, CapHands
<1>4. \A i \in 1..n : i = n \/ i \in 1..(n - 1)
  BY <1>1
<1>8. Len(list) = n
  BY Zenon
<1> HIDE DEF n
<1>5. NoneTwice'
  BY SMTT(30), <1>2, <1>3, <1>8 DEF Placed, NoneTwice
<1>6. Apart'
  BY SMTT(30), <1>1, <1>2, <1>3, <1>8 DEF Placed, NoneTwice, Apart
<1>7. NoneMissing'
  BY <1>1, <1>2, <1>3, <1>4, <1>8, NoneApart DEF Placed, NoneMissing
<1> QED BY Zenon, <1>5, <1>6, <1>7 DEF Placed

(* Neither the free list nor a queue holds the mark for "no buffer". *)
LEMMA NoneStored ==
  ASSUME TypeOK
  PROVE  /\ \A i \in 1..Len(list) : list[i] # None
         /\ \A r \in Queues : \A i \in 1..Len(queue[r]) : queue[r][i] # None
<1>1. list \in Seq(Buffers) /\ queue \in [Queues -> Seq(Buffers)]
  BY Zenon DEF TypeOK
<1>2. \A r \in Queues : queue[r] \in Seq(Buffers)
  BY Zenon, <1>1
<1> QED BY <1>1, <1>2, NoneApart

LEMMA PushPlaced ==
  ASSUME TypeOK, Hands, Placed, CapPush
  PROVE  Placed'
<1> DEFINE q == QueueFor(content[cap.buf])
           m == Len(queue[q]) + 1
<1>1. cap.buf \in Buffers /\ content[cap.buf] \in Packets /\ cap.buf # None
  BY Zenon, NoneApart DEF CapPush, Hands, CapHands, TypeOK
<1>2. q \in Queues
  BY Zenon, <1>1, QueueForType
<1>3. queue' = [queue EXCEPT ![q] = Append(@, cap.buf)] /\ cap'.buf = None /\ UNCHANGED <<list, worker>>
  BY Zenon DEF CapPush
<1> HIDE DEF q
<1>4. /\ Len(queue'[q]) = m /\ m \in 1..m /\ queue'[q][m] = cap.buf
      /\ \A i \in 1..Len(queue[q]) : i \in 1..m /\ queue'[q][i] = queue[q][i]
      /\ \A i \in 1..m : i = m \/ i \in 1..Len(queue[q])
  BY <1>1, <1>2, <1>3 DEF TypeOK
<1>5. \A r \in Queues : r # q => queue'[r] = queue[r]
  BY Zenon, <1>2, <1>3 DEF TypeOK
<1>6. \A i \in 1..Len(list) : list[i] # None
  BY Zenon, NoneStored
<1>7. \A r \in Queues : \A i \in 1..Len(queue[r]) : queue[r][i] # None
  BY Zenon, NoneStored
<1> HIDE DEF m
<1>11. ASSUME NEW r \in Queues, NEW j \in 1..Len(queue'[r])
       PROVE  \/ r = q /\ j = m /\ queue'[r][j] = cap.buf
              \/ j \in 1..Len(queue[r]) /\ queue'[r][j] = queue[r][j]
  <2>1. CASE r = q
    BY Zenon, <1>4, <2>1
  <2>2. CASE r # q
    BY Zenon, <1>5, <2>2
  <2> QED BY Zenon, <2>1, <2>2
<1>8. NoneTwice'
  <2>1. \A i, j \in 1..Len(list) : list[i] = list[j] => i = j
    BY Zenon DEF Placed, NoneTwice
  <2>2. \A v, w \in Queues : worker[v].buf = worker[w].buf => v = w \/ worker[v].buf = None
    BY Zenon DEF Placed, NoneTwice
  <2>3. ASSUME NEW r \in Queues, NEW s \in Queues, NEW i \in 1..Len(queue'[r]),
               NEW j \in 1..Len(queue'[s]), queue'[r][i] = queue'[s][j]
        PROVE  r = s /\ i = j
    <3>1. \A x, y \in Queues : \A k \in 1..Len(queue[x]), l \in 1..Len(queue[y]) :
            queue[x][k] = queue[y][l] => x = y /\ k = l
      BY Zenon DEF Placed, NoneTwice
    <3>2. \A x \in Queues : \A k \in 1..Len(queue[x]) : queue[x][k] # cap.buf
      BY Zenon DEF Placed, Apart
    <3>3. \/ r = q /\ i = m /\ queue'[r][i] = cap.buf
          \/ i \in 1..Len(queue[r]) /\ queue'[r][i] = queue[r][i]
      BY Zenon, <1>11
    <3>4. \/ s = q /\ j = m /\ queue'[s][j] = cap.buf
          \/ j \in 1..Len(queue[s]) /\ queue'[s][j] = queue[s][j]
      BY Zenon, <1>11
    <3>5. CASE i \in 1..Len(queue[r]) /\ queue'[r][i] = queue[r][i]
               /\ j \in 1..Len(queue[s]) /\ queue'[s][j] = queue[s][j]
      <4>1. queue[r][i] = queue[s][j]
        BY Zenon, <2>3, <3>5
      <4> QED BY Zenon, <3>1, <3>5, <4>1
    <3>6. CASE queue'[r][i] = cap.buf /\ j \in 1..Len(queue[s]) /\ queue'[s][j] = queue[s][j]
      <4>1. queue[s][j] = cap.buf
        BY Zenon, <2>3, <3>6
      <4> QED BY Zenon, <3>2, <3>6, <4>1
    <3>7. CASE queue'[s][j] = cap.buf /\ i \in 1..Len(queue[r]) /\ queue'[r][i] = queue[r][i]
      <4>1. queue[r][i] = cap.buf
        BY Zenon, <2>3, <3>7
      <4> QED BY Zenon, <3>2, <3>7, <4>1
    <3>8. CASE r = q /\ i = m /\ s = q /\ j = m
      BY Zenon, <3>8
    <3> QED BY Zenon, <3>3, <3>4, <3>5, <3>6, <3>7, <3>8
  <2> QED BY Zenon, <1>3, <2>1, <2>2, <2>3 DEF NoneTwice
<1>9. Apart'
  <2>1. ASSUME NEW i \in 1..Len(list), NEW r \in Queues, NEW j \in 1..Len(queue'[r])
        PROVE  list[i] # queue'[r][j]
    <3>1. list[i] # cap.buf /\ (j \in 1..Len(queue[r]) => list[i] # queue[r][j])
      BY Zenon DEF Placed, Apart
    <3>2. CASE queue'[r][j] = cap.buf
      BY Zenon, <3>1, <3>2
    <3>3. CASE j \in 1..Len(queue[r]) /\ queue'[r][j] = queue[r][j]
      BY Zenon, <3>1, <3>3
    <3> QED BY Zenon, <1>11, <3>2, <3>3
  <2>2. \A r, w \in Queues : \A j \in 1..Len(queue'[r]) : queue'[r][j] # worker[w].buf
    BY SMTT(30), <1>1, <1>2, <1>4, <1>5 DEF Placed, Apart
  <2>3. \A r \in Queues : \A j \in 1..Len(queue'[r]) : queue'[r][j] # None
    BY SMTT(30), <1>1, <1>2, <1>4, <1>5, <1>7
  <2>4. \A i \in 1..Len(list) : \A w \in Queues : list[i] # worker[w].buf
    BY Zenon DEF Placed, Apart
  <2> QED BY ZenonT(30), <1>3, <1>6, <2>1, <2>2, <2>3, <2>4 DEF Apart
<1>10. NoneMissing'
  BY <1>2, <1>3, <1>4, <1>5 DEF Placed, NoneMissing
<1> QED BY Zenon, <1>8, <1>9, <1>10 DEF Placed

(* A buffer comes back to the pool from the capture thread, ... *)
LEMMA CapBackPlaced ==
  ASSUME TypeOK, Hands, Placed, NEW b \in Buffers, Pool!Release(b), UNCHANGED <<queue, worker>>,
         b = cap.buf, cap'.buf = None
  PROVE  Placed'
<1> DEFINE m == Len(list) + 1
<1>1. /\ Len(list') = m /\ m \in 1..m /\ list'[m] = b
      /\ \A i \in 1..Len(list) : i \in 1..m /\ list'[i] = list[i]
      /\ \A i \in 1..m : i = m \/ i \in 1..Len(list)
  BY DEF TypeOK, Pool!Release
<1>2. b # None /\ queue' = queue
  BY Zenon, NoneApart
<1>3. \A i \in 1..Len(list) : list[i] # None
  BY Zenon, NoneStored
<1>4. \A r \in Queues : \A i \in 1..Len(queue[r]) : queue[r][i] # None
  BY Zenon, NoneStored
<1> HIDE DEF m
<1>5. NoneTwice'
  BY SMTT(30), <1>1, <1>2 DEF Placed, NoneTwice, Apart
<1>6. Apart'
  BY SMTT(30), <1>1, <1>2, <1>3, <1>4 DEF Placed, Apart
<1>7. NoneMissing'
  <2> SUFFICES ASSUME NEW c \in Buffers
               PROVE  \/ \E i \in 1..m : list'[i] = c
                      \/ \E q \in Queues : \E i \in 1..Len(queue[q]) : queue[q][i] = c
                      \/ \E v \in Queues : worker[v].buf = c
    BY <1>1, <1>2 DEF NoneMissing
  <2>1. CASE c = b
    BY Zenon, <1>1, <2>1
  <2>2. CASE \E i \in 1..Len(list) : list[i] = c
    BY Zenon, <1>1, <2>2
  <2> QED BY Zenon, <2>1, <2>2 DEF Placed, NoneMissing
<1> QED BY Zenon, <1>5, <1>6, <1>7 DEF Placed

(* ... or from a worker. *)
LEMMA WorkerBackPlaced ==
  ASSUME TypeOK, Hands, Placed, NEW b \in Buffers, Pool!Release(b), UNCHANGED <<queue, cap>>,
         NEW w \in Queues, b = worker[w].buf, worker'[w].buf = None,
         \A v \in Queues : v # w => worker'[v] = worker[v]
  PROVE  Placed'
<1> DEFINE m == Len(list) + 1
<1>1. /\ Len(list') = m /\ m \in 1..m /\ list'[m] = b
      /\ \A i \in 1..Len(list) : i \in 1..m /\ list'[i] = list[i]
      /\ \A i \in 1..m : i = m \/ i \in 1..Len(list)
  BY SMTT(30) DEF TypeOK, Pool!Release
<1>2. b # None /\ queue' = queue
  BY Zenon, NoneApart
<1>3. \A i \in 1..Len(list) : list[i] # None
  BY Zenon, NoneStored
<1>4. \A r \in Queues : \A i \in 1..Len(queue[r]) : queue[r][i] # None
  BY Zenon, NoneStored
<1> HIDE DEF m
<1>5. NoneTwice'
  <2>1. \A i, j \in 1..Len(list') : list'[i] = list'[j] => i = j
    BY SMTT(30), <1>1 DEF Placed, NoneTwice, Apart
  <2>2. \A u, v \in Queues : worker'[u].buf = worker'[v].buf => u = v \/ worker'[u].buf = None
    BY DEF Placed, NoneTwice
  <2> QED BY SMTT(30), <1>2, <2>1, <2>2 DEF Placed, NoneTwice
<1>6. Apart'
  <2>1. \A i \in 1..Len(list') : list'[i] # cap'.buf
    BY SMTT(30), <1>1, <1>2 DEF Placed, Apart
  <2>2. \A i \in 1..Len(list') : \A v \in Queues : list'[i] # worker'[v].buf
    BY <1>1, <1>2, <1>3 DEF Placed, NoneTwice, Apart
  <2>3. \A i \in 1..Len(list') : \A q \in Queues : \A j \in 1..Len(queue'[q]) : list'[i] # queue'[q][j]
    <3> SUFFICES ASSUME NEW i \in 1..m, NEW q \in Queues, NEW j \in 1..Len(queue[q])
                 PROVE  list'[i] # queue[q][j]
      BY <1>1, <1>2
    <3>1. CASE i = m
      BY <1>1, <3>1 DEF Placed, Apart
    <3>2. CASE i \in 1..Len(list)
      BY SMTT(30), <1>1, <3>2 DEF Placed, Apart
    <3> QED BY Zenon, <1>1, <3>1, <3>2
  <2>4. \A q, v \in Queues : \A j \in 1..Len(queue'[q]) : queue'[q][j] # worker'[v].buf
    <3>1. \A q, v \in Queues : \A j \in 1..Len(queue[q]) : queue[q][j] # worker[v].buf
      BY Zenon DEF Placed, Apart
    <3>2. \A v \in Queues : worker'[v].buf = None \/ worker'[v].buf = worker[v].buf
      BY Zenon
    <3> QED BY <1>2, <1>4, <3>1, <3>2
  <2>5. \A v \in Queues : worker'[v].buf = cap'.buf => cap'.buf = None
    BY Zenon DEF Placed, Apart
  <2>6. \A q \in Queues : \A j \in 1..Len(queue'[q]) : queue'[q][j] # cap'.buf
    BY <1>2 DEF Placed, Apart
  <2> QED BY <2>1, <2>2, <2>3, <2>4, <2>5, <2>6, ZenonT(30) DEF Apart
<1>7. NoneMissing'
  <2> SUFFICES ASSUME NEW c \in Buffers
               PROVE  \/ \E i \in 1..m : list'[i] = c
                      \/ cap.buf = c
                      \/ \E q \in Queues : \E i \in 1..Len(queue[q]) : queue[q][i] = c
                      \/ \E v \in Queues : worker'[v].buf = c
    BY <1>1, <1>2 DEF NoneMissing
  <2>1. CASE c = b
    BY Zenon, <1>1, <2>1
  <2>2. CASE \E i \in 1..Len(list) : list[i] = c
    BY Zenon, <1>1, <2>2
  <2>3. CASE c # b /\ \E v \in Queues : worker[v].buf = c
    BY Zenon, <2>3
  <2> QED BY Zenon, <2>1, <2>2, <2>3 DEF Placed, NoneMissing
<1> QED BY Zenon, <1>5, <1>6, <1>7 DEF Placed

LEMMA PopPlaced ==
  ASSUME TypeOK, Hands, Placed, NEW w \in Queues, WorkerPop(w)
  PROVE  Placed'
<1> DEFINE b == queue[w][1]
<1>1. /\ queue[w] \in Seq(Buffers) /\ queue[w] # <<>> /\ worker[w].buf = None
      /\ UNCHANGED <<list, cap>> /\ queue' = [queue EXCEPT ![w] = Tail(@)]
      /\ worker' = [worker EXCEPT ![w] = [pc |-> "handle", buf |-> Head(queue[w]), iters |-> @.iters]]
  BY Zenon DEF WorkerPop, TypeOK, capVars, Hands, WorkerHands
<1>2. 1 \in 1..Len(queue[w]) /\ b \in Buffers /\ b # None
  BY <1>1, NoneApart
<1>3. worker'[w].buf = b /\ \A v \in Queues : v # w => worker'[v] = worker[v] /\ queue'[v] = queue[v]
  <2>1. DOMAIN worker = Queues /\ DOMAIN queue = Queues
    BY Zenon DEF TypeOK
  <2>2. worker'[w].buf = b /\ \A v \in Queues : v # w => worker'[v] = worker[v]
    BY <1>1, <2>1
  <2>3. \A v \in Queues : v # w => queue'[v] = queue[v]
    BY Zenon, <1>1, <2>1
  <2> QED BY Zenon, <2>2, <2>3
<1>4. /\ \A i \in 1..Len(queue'[w]) : i + 1 \in 1..Len(queue[w]) /\ i + 1 # 1 /\ queue'[w][i] = queue[w][i + 1]
      /\ \A i \in 1..Len(queue[w]) : i = 1 \/ (i - 1 \in 1..Len(queue'[w]) /\ queue'[w][i - 1] = queue[w][i])
      /\ \A i, j \in 1..Len(queue'[w]) : i + 1 = j + 1 => i = j
  <2>1. queue'[w] = Tail(queue[w])
    BY Zenon, <1>1 DEF TypeOK
  <2>2. /\ Tail(queue[w]) \in Seq(Buffers)
        /\ Len(Tail(queue[w])) = Len(queue[w]) - 1
        /\ \A i \in 1..Len(Tail(queue[w])) : Tail(queue[w])[i] = queue[w][i + 1]
    BY Zenon, <1>1, TailIs
  <2> DEFINE t == Tail(queue[w])
             s == queue[w]
  <2>3. queue'[w] = t /\ t \in Seq(Buffers) /\ Len(t) = Len(s) - 1 /\ s \in Seq(Buffers) /\ s # <<>>
    BY Zenon, <1>1, <2>1, <2>2
  <2>4. \A i \in 1..Len(t) : t[i] = s[i + 1]
    BY Zenon, <2>2
  <2> HIDE DEF t, s
  <2>5. Len(s) \in Nat /\ Len(t) \in Nat
    BY <2>3
  <2>6. \A i \in 1..Len(t) : i + 1 \in 1..Len(s) /\ i + 1 # 1
    BY <2>3, <2>5
  <2>7. \A i \in 1..Len(s) : i = 1 \/ (i - 1 \in 1..Len(t) /\ t[i - 1] = s[i])
    BY <2>3, <2>4, <2>5
  <2>8. \A i, j \in 1..Len(t) : i + 1 = j + 1 => i = j
    BY <2>5
  <2>9. s = queue[w] /\ t = queue'[w]
    BY Zenon, <2>3 DEF s
  <2> HIDE <2>3, <2>5
  <2> QED BY <2>4, <2>6, <2>7, <2>8, <2>9
<1> HIDE DEF b
<1>0. \A q \in Queues : \A j \in 1..Len(queue'[q]) :
        \E i \in 1..Len(queue[q]) : queue'[q][j] = queue[q][i]
  <2> SUFFICES ASSUME NEW q \in Queues, NEW j \in 1..Len(queue'[q])
               PROVE  \E i \in 1..Len(queue[q]) : queue'[q][j] = queue[q][i]
    BY Zenon
  <2>1. CASE q = w
    BY ZenonT(30), <1>4, <2>1
  <2>2. CASE q # w
    BY Zenon, <1>3, <2>2
  <2> QED BY Zenon, <2>1, <2>2
<1>5. \A i \in 1..Len(queue'[w]) : queue'[w][i] # b
  BY SMTT(30), <1>2, <1>4 DEF Placed, NoneTwice, b
<1>6. \A v \in Queues : v # w => \A i \in 1..Len(queue'[v]) : queue'[v][i] # b
  BY SMTT(30), <1>2, <1>3 DEF Placed, NoneTwice, b
<1>7. NoneTwice'
  <2>1. \A q, r \in Queues : \A i \in 1..Len(queue'[q]), j \in 1..Len(queue'[r]) :
          queue'[q][i] = queue'[r][j] => q = r /\ i = j
    <3> SUFFICES ASSUME NEW q \in Queues, NEW r \in Queues, NEW i \in 1..Len(queue'[q]),
                        NEW j \in 1..Len(queue'[r]), queue'[q][i] = queue'[r][j]
                 PROVE  q = r /\ i = j
      BY Zenon
    <3>0. \A x, y \in Queues : \A k \in 1..Len(queue[x]), l \in 1..Len(queue[y]) :
            queue[x][k] = queue[y][l] => x = y /\ k = l
      BY Zenon DEF Placed, NoneTwice
    <3>1. CASE q = w /\ r = w
      <4>1. i + 1 \in 1..Len(queue[w]) /\ queue'[w][i] = queue[w][i + 1]
        BY Zenon, <1>4, <3>1
      <4>2. j + 1 \in 1..Len(queue[w]) /\ queue'[w][j] = queue[w][j + 1]
        BY Zenon, <1>4, <3>1
      <4>3. i + 1 = j + 1
        BY <3>0, <3>1, <4>1, <4>2
      <4> QED BY Zenon, <1>4, <3>1, <4>3
    <3>2. CASE q = w /\ r # w
      <4>1. i + 1 \in 1..Len(queue[w]) /\ queue'[w][i] = queue[w][i + 1]
        BY Zenon, <1>4, <3>2
      <4> QED BY <1>3, <3>0, <3>2, <4>1
    <3>3. CASE q # w /\ r = w
      <4>1. j + 1 \in 1..Len(queue[w]) /\ queue'[w][j] = queue[w][j + 1]
        BY Zenon, <1>4, <3>3
      <4> QED BY SMTT(30), <1>3, <3>0, <3>3, <4>1
    <3>4. CASE q # w /\ r # w
      BY <1>3, <3>4 DEF Placed, NoneTwice
    <3> QED BY <3>1, <3>2, <3>3, <3>4, Zenon
  <2>2. \A u, v \in Queues : worker'[u].buf = worker'[v].buf => u = v \/ worker'[u].buf = None
    <3>1. \A v \in Queues : worker[v].buf # b
      BY Zenon, <1>2 DEF Placed, Apart, b
    <3>2. \A u, v \in Queues : worker[u].buf = worker[v].buf => u = v \/ worker[u].buf = None
      BY Zenon DEF Placed, NoneTwice
    <3> QED BY <1>3, <3>1, <3>2
  <2>3. \A i, j \in 1..Len(list) : list[i] = list[j] => i = j
    BY Zenon DEF Placed, NoneTwice
  <2> QED BY SMTT(30), <1>1, <2>1, <2>2, <2>3 DEF NoneTwice
<1>8. Apart'
  <2>1. \A i \in 1..Len(list) : \A v \in Queues : list[i] # worker'[v].buf
    BY SMTT(30), <1>2, <1>3 DEF Placed, Apart, b
  <2>2. \A i \in 1..Len(list) : \A q \in Queues : \A j \in 1..Len(queue'[q]) : list[i] # queue'[q][j]
    <3>1. \A i \in 1..Len(list) : \A q \in Queues : \A j \in 1..Len(queue[q]) : list[i] # queue[q][j]
      BY Zenon DEF Placed, Apart
    <3> SUFFICES ASSUME NEW i \in 1..Len(list), NEW q \in Queues, NEW j \in 1..Len(queue'[q])
                 PROVE  list[i] # queue'[q][j]
      BY Zenon
    <3>2. PICK k \in 1..Len(queue[q]) : queue'[q][j] = queue[q][k]
      BY Zenon, <1>0
    <3>3. list[i] # queue[q][k]
      BY Zenon, <3>1
    <3> QED BY Zenon, <3>2, <3>3
  <2>3. \A q \in Queues : \A j \in 1..Len(queue'[q]) : queue'[q][j] # cap.buf
    <3>1. \A q \in Queues : \A j \in 1..Len(queue[q]) : queue[q][j] # cap.buf
      BY Zenon DEF Placed, Apart
    <3> SUFFICES ASSUME NEW q \in Queues, NEW j \in 1..Len(queue'[q])
                 PROVE  queue'[q][j] # cap.buf
      BY Zenon
    <3>2. PICK k \in 1..Len(queue[q]) : queue'[q][j] = queue[q][k]
      BY Zenon, <1>0
    <3>3. queue[q][k] # cap.buf
      BY Zenon, <3>1
    <3> QED BY Zenon, <3>2, <3>3
  <2>4. \A q, v \in Queues : \A j \in 1..Len(queue'[q]) : queue'[q][j] # worker'[v].buf
    <3>1. \A q, v \in Queues : \A j \in 1..Len(queue[q]) : queue[q][j] # worker[v].buf
      BY Zenon DEF Placed, Apart
    <3> SUFFICES ASSUME NEW q \in Queues, NEW v \in Queues, NEW j \in 1..Len(queue'[q])
                 PROVE  queue'[q][j] # worker'[v].buf
      BY Zenon
    <3>2. CASE v = w
      <4>1. worker'[w].buf = b
        BY Zenon, <1>3
      <4>2. queue'[q][j] # b
        BY Zenon, <1>5, <1>6
      <4> QED BY Zenon, <3>2, <4>1, <4>2
    <3>3. CASE v # w
      <4>1. PICK k \in 1..Len(queue[q]) : queue'[q][j] = queue[q][k]
        BY Zenon, <1>0
      <4>2. queue[q][k] # worker[v].buf
        BY Zenon, <3>1
      <4>3. worker'[v] = worker[v]
        BY Zenon, <1>3, <3>3
      <4> QED BY Zenon, <4>1, <4>2, <4>3
    <3> QED BY Zenon, <3>2, <3>3
  <2>5. \A v \in Queues : worker'[v].buf = cap.buf => cap.buf = None
    BY <1>2, <1>3 DEF Placed, Apart, b
  <2>6. \A i \in 1..Len(list) : list[i] # cap.buf
    BY Zenon DEF Placed, Apart
  <2>7. UNCHANGED <<list, cap>>
    BY Zenon, <1>1
  <2> QED BY ZenonT(30), <2>1, <2>2, <2>3, <2>4, <2>5, <2>6, <2>7 DEF Apart
<1>9. NoneMissing'
  <2> SUFFICES ASSUME NEW c \in Buffers
               PROVE  \/ \E i \in 1..Len(list) : list[i] = c
                      \/ cap.buf = c
                      \/ \E q \in Queues : \E i \in 1..Len(queue'[q]) : queue'[q][i] = c
                      \/ \E v \in Queues : worker'[v].buf = c
    BY Zenon, <1>1 DEF NoneMissing
  <2>1. CASE \E q \in Queues : \E i \in 1..Len(queue[q]) : queue[q][i] = c
    <3>1. PICK q \in Queues : \E i \in 1..Len(queue[q]) : queue[q][i] = c
      BY Zenon, <2>1
    <3>2. PICK i \in 1..Len(queue[q]) : queue[q][i] = c
      BY Zenon, <3>1
    <3>3. CASE q # w
      BY Zenon, <1>3, <3>2, <3>3
    <3>4. CASE q = w /\ i = 1
      BY Zenon, <1>3, <3>2, <3>4 DEF b
    <3>5. CASE q = w /\ i # 1
      BY Zenon, <1>4, <3>2, <3>5
    <3> QED BY Zenon, <3>3, <3>4, <3>5
  <2>2. CASE \E v \in Queues : worker[v].buf = c
    BY Zenon, <1>1, <1>3, <2>2, NoneApart
  <2> QED BY Zenon, <2>1, <2>2 DEF Placed, NoneMissing
<1> QED BY Zenon, <1>7, <1>8, <1>9 DEF Placed

(* Every step keeps every buffer in its one place. *)
LEMMA StepPlaced ==
  ASSUME TypeOK, Hands, Placed, [Next]_vars
  PROVE  Placed'
<1>1. ASSUME NEW h \in Traffic, Arrive(h) PROVE Placed'
  BY Zenon, <1>1, StayPlaced DEF Arrive, capVars
<1>2. ASSUME CapReceive \/ CapStarved \/ CapCopy \/ CapPushFull \/ CapRelease \/ CapStop \/ CapJoin
      PROVE  Placed'
  <2>1. UNCHANGED <<list, queue, worker>>
    BY Zenon, <1>2 DEF CapReceive, CapStarved, CapCopy, CapPushFull, CapRelease, CapStop, CapJoin
  <2>2. cap'.buf = cap.buf
    BY Zenon, <1>2 DEF TypeOK, CapReceive, CapStarved, CapCopy, CapPushFull, CapRelease, CapStop, CapJoin, CapGoto
  <2> QED BY Zenon, <2>1, <2>2, StayPlaced
<1>3. ASSUME CapGiveBack PROVE Placed'
  <2>1. cap.buf \in Buffers
    BY Zenon, <1>3 DEF CapGiveBack, TypeOK, Hands, CapHands
  <2> QED BY Zenon, <1>3, <2>1, CapBackPlaced DEF CapGiveBack, GiveBack
<1>4. ASSUME NEW w \in Queues, WorkerRelease(w) PROVE Placed'
  <2>1. worker[w].buf \in Buffers /\ UNCHANGED cap
    BY Zenon, <1>4 DEF WorkerRelease, TypeOK, Hands, WorkerHands, capVars
  <2>2. worker'[w].buf = None /\ \A v \in Queues : v # w => worker'[v] = worker[v]
    BY Zenon, <1>4 DEF WorkerRelease, TypeOK
  <2> QED BY Zenon, <1>4, <2>1, <2>2, WorkerBackPlaced DEF WorkerRelease
<1>5. ASSUME NEW w \in Queues, WorkerHandle(w) PROVE Placed'
  <2>1. \A v \in Queues : worker'[v].buf = worker[v].buf
    BY Zenon, <1>5 DEF WorkerHandle, TypeOK
  <2> QED BY Zenon, <1>5, <2>1, StayPlaced DEF WorkerHandle, capVars
<1>6. ASSUME NEW w \in Queues, WorkerCount(w) \/ WorkerIdle(w) PROVE Placed'
  <2>1. \A v \in Queues : worker'[v].buf = worker[v].buf
    <3>1. worker' = [worker EXCEPT ![w] = EndIteration(w)] /\ worker[w].pc \in {"poll", "count"}
      BY Zenon, <1>6 DEF WorkerCount, WorkerIdle
    <3> QED BY Zenon, <3>1 DEF EndIteration, TypeOK, Hands, WorkerHands
  <2> QED BY Zenon, <1>6, <2>1, StayPlaced DEF WorkerCount, WorkerIdle, capVars
<1>7. ASSUME UNCHANGED vars PROVE Placed'
  BY Zenon, <1>7, StayPlaced DEF vars, capVars
<1> QED
  BY Zenon, <1>1, <1>2, <1>3, <1>4, <1>5, <1>6, <1>7, AcquirePlaced, PushPlaced, PopPlaced
  DEF Next, CapStep, WorkerStep, Over

LEMMA InitPlaced == Init => Placed
<1> SUFFICES ASSUME Init PROVE Placed
  BY Zenon
<1>1. BufferCount \in Nat /\ list = [i \in 1..BufferCount |-> i - 1]
  BY Zenon, PipelineAssumption DEF Init
<1>2. Len(list) = BufferCount /\ \A i \in 1..Len(list) : list[i] = i - 1 /\ list[i] # None
  BY <1>1, NoneAssumption
<1>3. \A b \in Buffers : b + 1 \in 1..Len(list) /\ list[b + 1] = b
  BY <1>1, <1>2 DEF Buffers
<1>4. cap.buf = None /\ \A w \in Queues : worker[w].buf = None /\ queue[w] = <<>>
  BY Zenon DEF Init
<1>5. \A q \in Queues : 1..Len(queue[q]) = {}
  BY <1>4
<1>6. NoneTwice
  BY <1>1, <1>2, <1>4, <1>5 DEF NoneTwice
<1>7. Apart
  BY Zenon, <1>2, <1>4, <1>5 DEF Apart
<1>8. NoneMissing
  BY Zenon, <1>3 DEF NoneMissing
<1> QED BY Zenon, <1>6, <1>7, <1>8 DEF Placed

(* Then the places of a buffer are a singleton. *)
LEMMA OnePlace ==
  ASSUME Placed, NEW b \in Buffers
  PROVE  \E p \in Places(b) : Places(b) = {p}
<1> DEFINE inPool == {<<"pool", i>> : i \in {j \in 1..Len(list) : list[j] = b}}
           inCap == {<<"capture", 0>> : x \in {cap.buf} \cap {b}}
           inQueue(q) == {<<"queue", q, i>> : i \in {j \in 1..Len(queue[q]) : queue[q][j] = b}}
           inQueues == UNION {{<<"queue", q, i>> : i \in {j \in 1..Len(queue[q]) : queue[q][j] = b}}
                                : q \in Queues}
           inWorker == {<<"worker", w>> : w \in {v \in Queues : worker[v].buf = b}}
<1>1. Places(b) = inPool \cup inCap \cup inQueues \cup inWorker
  BY Zenon DEF Places
<1>2. b # None
  BY Zenon, NoneApart
<1>3. (\A j \in 1..Len(list) : list[j] # b) => inPool = {}
  BY Zenon
<1>4. cap.buf # b => inCap = {}
  BY Zenon
<1>5. (\A q \in Queues : \A j \in 1..Len(queue[q]) : queue[q][j] # b) => inQueues = {}
  BY Zenon
<1>6. (\A v \in Queues : worker[v].buf # b) => inWorker = {}
  BY Zenon
<1>7. ASSUME NEW i \in 1..Len(list), list[i] = b
      PROVE  Places(b) = {<<"pool", i>>}
  <2>1. inPool = {<<"pool", i>>}
    BY <1>7 DEF Placed, NoneTwice
  <2>2. inCap = {}
    BY Zenon, <1>4, <1>7 DEF Placed, Apart
  <2>3. inQueues = {}
    BY Zenon, <1>5, <1>7 DEF Placed, Apart
  <2>4. inWorker = {}
    BY Zenon, <1>6, <1>7 DEF Placed, Apart
  <2> HIDE DEF inPool, inCap, inQueues, inWorker
  <2> QED BY ZenonT(30), <1>1, <2>1, <2>2, <2>3, <2>4
<1>8. ASSUME cap.buf = b
      PROVE  Places(b) = {<<"capture", 0>>}
  <2>1. inPool = {}
    BY Zenon, <1>3, <1>8 DEF Placed, Apart
  <2>2. inCap = {<<"capture", 0>>}
    BY Zenon, <1>8
  <2>3. inQueues = {}
    BY Zenon, <1>5, <1>8 DEF Placed, Apart
  <2>4. inWorker = {}
    BY Zenon, <1>2, <1>6, <1>8 DEF Placed, Apart
  <2> HIDE DEF inPool, inCap, inQueues, inWorker
  <2> QED BY Zenon, <1>1, <2>1, <2>2, <2>3, <2>4
<1>9. ASSUME NEW q \in Queues, NEW i \in 1..Len(queue[q]), queue[q][i] = b
      PROVE  Places(b) = {<<"queue", q, i>>}
  <2>1. inPool = {}
    BY Zenon, <1>3, <1>9 DEF Placed, Apart
  <2>2. inCap = {}
    BY Zenon, <1>4, <1>9 DEF Placed, Apart
  <2>3. inQueues = {<<"queue", q, i>>}
    <3>1. inQueue(q) = {<<"queue", q, i>>}
      BY <1>9 DEF Placed, NoneTwice
    <3>2. \A r \in Queues : r # q => inQueue(r) = {}
      BY <1>9 DEF Placed, NoneTwice
    <3>3. inQueues = UNION {inQueue(r) : r \in Queues}
      BY Zenon
    <3> HIDE DEF inQueue, inQueues
    <3> QED BY Zenon, <3>1, <3>2, <3>3
  <2>4. inWorker = {}
    BY Zenon, <1>6, <1>9 DEF Placed, Apart
  <2> HIDE DEF inPool, inCap, inQueues, inWorker
  <2> QED BY Zenon, <1>1, <2>1, <2>2, <2>3, <2>4
<1>10. ASSUME NEW w \in Queues, worker[w].buf = b
       PROVE  Places(b) = {<<"worker", w>>}
  <2>1. inPool = {}
    BY Zenon, <1>3, <1>10 DEF Placed, Apart
  <2>2. inCap = {}
    BY Zenon, <1>2, <1>4, <1>10 DEF Placed, Apart
  <2>3. inQueues = {}
    BY Zenon, <1>5, <1>10 DEF Placed, Apart
  <2>4. inWorker = {<<"worker", w>>}
    BY <1>2, <1>10 DEF Placed, NoneTwice
  <2> HIDE DEF inPool, inCap, inQueues, inWorker
  <2> QED BY Zenon, <1>1, <2>1, <2>2, <2>3, <2>4
<1>11. \E p : Places(b) = {p}
  <2> HIDE DEF inPool, inCap, inQueues, inWorker
  <2> QED BY Zenon, <1>7, <1>8, <1>9, <1>10 DEF Placed, NoneMissing
<1> QED BY Zenon, <1>11

(* The inductive invariant about the buffers, for any number of slots,      *)
(* buffers, queues and packets.                                             *)
THEOREM BufferInvariant == Spec => []BufferInv
<1>1. Init => BufferInv
  BY Zenon, InitTyped, InitPlaced DEF BufferInv
<1>2. BufferInv /\ [Next]_vars => BufferInv'
  BY Zenon, StepTyped, StepHands, StepPlaced DEF BufferInv
<1> QED BY <1>1, <1>2, PTL DEF Spec

(* Every buffer is in the pool, in one thread's hands or in one queue, once *)
(* (multiqueue_capture.cpp:66-92, worker_pool.cpp:57-70).                   *)
THEOREM BuffersInOnePlace == Spec => []EachBufferInOnePlace
<1>1. BufferInv => EachBufferInOnePlace
  BY Zenon, OnePlace DEF BufferInv, EachBufferInOnePlace
<1> QED BY <1>1, BufferInvariant, PTL
-----------------------------------------------------------------------------
(* The packet worker w is about to hand to its callback. *)
Handling(w) == worker[w].pc = "handle"
InHand(w) == content[worker[w].buf]
Queued(q, i) == content[queue[q][i]]

(* What is on its way to worker w, or was there, belongs to its queue, and  *)
(* comes in the order of arrival: seen, in its hands, queued.               *)
FlowInv ==
  \A w \in Queues :
    /\ \A i \in 1..Len(seen[w]) : QueueFor(seen[w][i]) = w
    /\ Handling(w) => QueueFor(InHand(w)) = w
    /\ \A j \in 1..Len(queue[w]) : QueueFor(Queued(w, j)) = w
    /\ \A i, j \in 1..Len(seen[w]) : i < j => seen[w][i].num < seen[w][j].num
    /\ \A i \in 1..Len(seen[w]) : Handling(w) => seen[w][i].num < InHand(w).num
    /\ \A i \in 1..Len(seen[w]), j \in 1..Len(queue[w]) : seen[w][i].num < Queued(w, j).num
    /\ \A j \in 1..Len(queue[w]) : Handling(w) => InHand(w).num < Queued(w, j).num
    /\ \A i, j \in 1..Len(queue[w]) : i < j => Queued(w, i).num < Queued(w, j).num

(* No number from n on has been queued yet. *)
Before(n) ==
  \A w \in Queues :
    /\ \A i \in 1..Len(seen[w]) : seen[w][i].num < n
    /\ Handling(w) => InHand(w).num < n
    /\ \A j \in 1..Len(queue[w]) : Queued(w, j).num < n

(* The packet of a slot the capture thread has not queued or dropped yet    *)
(* came later than all that were queued.                                    *)
FreshInv ==
  /\ Before(arrived)
  /\ \A s \in Occupied :
       s # current \/ cap.pc \notin {"give_back", "release"} => Before(ring[s].pkt.num)

OrderInv == BufferInv /\ RingInv /\ FlowInv /\ FreshInv
-----------------------------------------------------------------------------
(* No number from n on has been queued after the step. *)
BeforeNext(n) ==
  \A w \in Queues :
    /\ \A i \in 1..Len(seen'[w]) : seen'[w][i].num < n
    /\ Handling(w)' => InHand(w)'.num < n
    /\ \A j \in 1..Len(queue'[w]) : Queued(w, j)'.num < n

LEMMA FreshNext ==
  ASSUME BeforeNext(arrived'),
         \A s \in Occupied' :
           s # current' \/ cap'.pc \notin {"give_back", "release"} => BeforeNext(ring'[s].pkt.num)
  PROVE  FreshInv'
  BY Zenon DEF FreshInv, Before, BeforeNext

(* A step after which every worker still has the same packets before it.    *)
LEMMA SameFlow ==
  ASSUME UNCHANGED <<queue, seen>>,
         \A w \in Queues : Handling(w)' <=> Handling(w),
         \A w \in Queues : Handling(w) => InHand(w)' = InHand(w),
         \A q \in Queues : \A i \in 1..Len(queue[q]) : Queued(q, i)' = Queued(q, i)
  PROVE  (FlowInv => FlowInv') /\ \A n : Before(n) => BeforeNext(n)
<1>1. ASSUME FlowInv PROVE FlowInv'
  <2> SUFFICES ASSUME NEW w \in Queues
               PROVE  /\ \A i \in 1..Len(seen[w]) : QueueFor(seen[w][i]) = w
                      /\ Handling(w)' => QueueFor(InHand(w)') = w
                      /\ \A j \in 1..Len(queue[w]) : QueueFor(Queued(w, j)') = w
                      /\ \A i, j \in 1..Len(seen[w]) : i < j => seen[w][i].num < seen[w][j].num
                      /\ \A i \in 1..Len(seen[w]) : Handling(w)' => seen[w][i].num < InHand(w)'.num
                      /\ \A i \in 1..Len(seen[w]), j \in 1..Len(queue[w]) : seen[w][i].num < Queued(w, j)'.num
                      /\ \A j \in 1..Len(queue[w]) : Handling(w)' => InHand(w)'.num < Queued(w, j)'.num
                      /\ \A i, j \in 1..Len(queue[w]) : i < j => Queued(w, i)'.num < Queued(w, j)'.num
    BY Zenon DEF FlowInv
  <2>1. /\ \A i \in 1..Len(seen[w]) : QueueFor(seen[w][i]) = w
        /\ Handling(w)' => QueueFor(InHand(w)') = w
    BY Zenon, <1>1 DEF FlowInv
  <2>6. \A j \in 1..Len(queue[w]) : QueueFor(Queued(w, j)') = w
    <3>1. \A j \in 1..Len(queue[w]) : QueueFor(Queued(w, j)) = w
      BY Zenon, <1>1 DEF FlowInv
    <3> QED BY Zenon, <3>1
  <2>2. /\ \A i, j \in 1..Len(seen[w]) : i < j => seen[w][i].num < seen[w][j].num
        /\ \A i \in 1..Len(seen[w]) : Handling(w)' => seen[w][i].num < InHand(w)'.num
    BY Zenon, <1>1 DEF FlowInv
  <2>3. \A i \in 1..Len(seen[w]), j \in 1..Len(queue[w]) : seen[w][i].num < Queued(w, j)'.num
    BY Zenon, <1>1 DEF FlowInv
  <2>4. \A j \in 1..Len(queue[w]) : Handling(w)' => InHand(w)'.num < Queued(w, j)'.num
    BY Zenon, <1>1 DEF FlowInv
  <2>5. \A i, j \in 1..Len(queue[w]) : i < j => Queued(w, i)'.num < Queued(w, j)'.num
    BY Zenon, <1>1 DEF FlowInv
  <2> QED BY Zenon, <2>1, <2>2, <2>3, <2>4, <2>5, <2>6
<1> QED BY ZenonT(30), <1>1 DEF Before, BeforeNext

(* The queue of a packet gets longer by a packet later than all before. *)
LEMMA PushFlow ==
  ASSUME TypeOK, FlowInv, NEW b \in Buffers, NEW p \in Packets, NEW q \in Queues,
         content[b] = p, QueueFor(p) = q, Before(p.num),
         queue' = [queue EXCEPT ![q] = Append(@, b)], UNCHANGED <<content, worker, seen>>
  PROVE  FlowInv' /\ \A n : Before(n) /\ p.num < n => BeforeNext(n)
<1>1. PICK m \in Nat : m = Len(queue[q]) + 1
  BY SMTT(30) DEF TypeOK
<1>2. /\ Len(queue'[q]) = m /\ queue'[q][m] = b
      /\ \A i \in 1..Len(queue[q]) : queue'[q][i] = queue[q][i] /\ i < m
      /\ \A i \in 1..m : i \in Nat /\ (i = m \/ i \in 1..Len(queue[q]))
  BY <1>1 DEF TypeOK
<1>3. \A r \in Queues : r # q => queue'[r] = queue[r]
  BY Zenon DEF TypeOK
<1>4. \A w \in Queues : (Handling(w)' <=> Handling(w)) /\ InHand(w)' = InHand(w)
  BY Zenon DEF Handling, InHand
<1>5. Queued(q, m)' = p /\ \A i \in 1..Len(queue[q]) : Queued(q, i)' = Queued(q, i)
  BY Zenon, <1>2 DEF Queued
<1>6. \A r \in Queues : r # q => \A i : Queued(r, i)' = Queued(r, i)
  BY Zenon, <1>3 DEF Queued
<1>7. FlowInv'
  <2> SUFFICES ASSUME NEW w \in Queues
               PROVE  /\ \A i \in 1..Len(seen[w]) : QueueFor(seen[w][i]) = w
                      /\ Handling(w)' => QueueFor(InHand(w)') = w
                      /\ \A j \in 1..Len(queue'[w]) : QueueFor(Queued(w, j)') = w
                      /\ \A i, j \in 1..Len(seen[w]) : i < j => seen[w][i].num < seen[w][j].num
                      /\ \A i \in 1..Len(seen[w]) : Handling(w)' => seen[w][i].num < InHand(w)'.num
                      /\ \A i \in 1..Len(seen[w]), j \in 1..Len(queue'[w]) : seen[w][i].num < Queued(w, j)'.num
                      /\ \A j \in 1..Len(queue'[w]) : Handling(w)' => InHand(w)'.num < Queued(w, j)'.num
                      /\ \A i, j \in 1..Len(queue'[w]) : i < j => Queued(w, i)'.num < Queued(w, j)'.num
    BY Zenon DEF FlowInv
  <2>0. (Handling(w)' <=> Handling(w)) /\ InHand(w)' = InHand(w)
    BY Zenon, <1>4
  <2> SUFFICES /\ \A i \in 1..Len(seen[w]) : QueueFor(seen[w][i]) = w
               /\ Handling(w) => QueueFor(InHand(w)) = w
               /\ \A j \in 1..Len(queue'[w]) : QueueFor(Queued(w, j)') = w
               /\ \A i, j \in 1..Len(seen[w]) : i < j => seen[w][i].num < seen[w][j].num
               /\ \A i \in 1..Len(seen[w]) : Handling(w) => seen[w][i].num < InHand(w).num
               /\ \A i \in 1..Len(seen[w]), j \in 1..Len(queue'[w]) : seen[w][i].num < Queued(w, j)'.num
               /\ \A j \in 1..Len(queue'[w]) : Handling(w) => InHand(w).num < Queued(w, j)'.num
               /\ \A i, j \in 1..Len(queue'[w]) : i < j => Queued(w, i)'.num < Queued(w, j)'.num
    BY Zenon, <2>0
  <2>1. CASE w # q
    <3>1. queue'[w] = queue[w] /\ \A i : Queued(w, i)' = Queued(w, i)
      BY Zenon, <1>3, <1>6, <2>1
    <3>2. \A j \in 1..Len(queue[w]) : QueueFor(Queued(w, j)) = w
      BY Zenon DEF FlowInv
    <3>3. \A i \in 1..Len(seen[w]), j \in 1..Len(queue[w]) : seen[w][i].num < Queued(w, j).num
      BY Zenon DEF FlowInv
    <3>4. \A j \in 1..Len(queue[w]) : Handling(w) => InHand(w).num < Queued(w, j).num
      BY Zenon DEF FlowInv
    <3>5. \A i, j \in 1..Len(queue[w]) : i < j => Queued(w, i).num < Queued(w, j).num
      BY Zenon DEF FlowInv
    <3>6. \A j \in 1..Len(queue'[w]) : QueueFor(Queued(w, j)') = w
      BY Zenon, <3>1, <3>2
    <3>7. \A i \in 1..Len(seen[w]), j \in 1..Len(queue'[w]) : seen[w][i].num < Queued(w, j)'.num
      BY Zenon, <3>1, <3>3
    <3>8. \A j \in 1..Len(queue'[w]) : Handling(w) => InHand(w).num < Queued(w, j)'.num
      BY Zenon, <3>1, <3>4
    <3>9. \A i, j \in 1..Len(queue'[w]) : i < j => Queued(w, i)'.num < Queued(w, j)'.num
      BY Zenon, <3>1, <3>5
    <3> QED BY Zenon, <3>6, <3>7, <3>8, <3>9 DEF FlowInv
  <2>2. CASE w = q
    <3>6. Len(queue'[w]) = m
      BY Zenon, <1>2, <2>2
    <3>0. \A j \in 1..Len(queue'[w]) :
            \/ j = m /\ Queued(w, j)' = p
            \/ j \in 1..Len(queue[w]) /\ Queued(w, j)' = Queued(w, j)
      <4> SUFFICES ASSUME NEW j \in 1..Len(queue'[w])
                   PROVE  \/ j = m /\ Queued(w, j)' = p
                          \/ j \in 1..Len(queue[w]) /\ Queued(w, j)' = Queued(w, j)
        BY Zenon
      <4>1. j \in 1..m
        BY Zenon, <3>6
      <4>2. \/ j = m /\ Queued(q, j)' = p
            \/ j \in 1..Len(queue[q]) /\ Queued(q, j)' = Queued(q, j)
        BY Zenon, <1>2, <1>5, <4>1
      <4> QED BY Zenon, <2>2, <4>2
    <3>1. \A j \in 1..Len(queue'[w]) : QueueFor(Queued(w, j)') = w
      <4>1. \A j \in 1..Len(queue[w]) : QueueFor(Queued(w, j)) = w
        BY Zenon DEF FlowInv
      <4> SUFFICES ASSUME NEW j \in 1..Len(queue'[w])
                   PROVE  QueueFor(Queued(w, j)') = w
        BY Zenon
      <4>2. QueueFor(p) = w
        BY Zenon, <2>2
      <4>3. CASE Queued(w, j)' = p
        BY Zenon, <4>2, <4>3
      <4>4. CASE j \in 1..Len(queue[w]) /\ Queued(w, j)' = Queued(w, j)
        <5>1. QueueFor(Queued(w, j)) = w
          BY Zenon, <4>1, <4>4
        <5> QED BY Zenon, <4>4, <5>1
      <4> QED BY Zenon, <3>0, <4>3, <4>4
    <3>2. \A i \in 1..Len(seen[w]), j \in 1..Len(queue'[w]) : seen[w][i].num < Queued(w, j)'.num
      <4>1. \A i \in 1..Len(seen[w]), j \in 1..Len(queue[w]) : seen[w][i].num < Queued(w, j).num
        BY Zenon DEF FlowInv
      <4>2. \A i \in 1..Len(seen[w]) : seen[w][i].num < p.num
        BY Zenon DEF Before
      <4> QED BY Zenon, <3>0, <4>1, <4>2
    <3>3. \A j \in 1..Len(queue'[w]) : Handling(w) => InHand(w).num < Queued(w, j)'.num
      <4>1. \A j \in 1..Len(queue[w]) : Handling(w) => InHand(w).num < Queued(w, j).num
        BY Zenon DEF FlowInv
      <4>2. Handling(w) => InHand(w).num < p.num
        BY Zenon DEF Before
      <4> QED BY Zenon, <3>0, <4>1, <4>2
    <3>4. \A i, j \in 1..Len(queue'[w]) : i < j => Queued(w, i)'.num < Queued(w, j)'.num
      <4> SUFFICES ASSUME NEW i \in 1..Len(queue'[w]), NEW j \in 1..Len(queue'[w]), i < j
                   PROVE  Queued(w, i)'.num < Queued(w, j)'.num
        BY Zenon
      <4>1. i # m /\ i \in 1..Len(queue[w]) /\ Queued(w, i)' = Queued(w, i)
        <5>1. i # m
          BY <3>6
        <5> QED BY Zenon, <3>0, <5>1
      <4>2. \A k, l \in 1..Len(queue[w]) : k < l => Queued(w, k).num < Queued(w, l).num
        BY Zenon DEF FlowInv
      <4>3. Queued(w, i).num < p.num
        BY Zenon, <4>1 DEF Before
      <4> QED BY Zenon, <3>0, <4>1, <4>2, <4>3
    <3>5. /\ \A i \in 1..Len(seen[w]) : QueueFor(seen[w][i]) = w
          /\ Handling(w) => QueueFor(InHand(w)) = w
          /\ \A i, j \in 1..Len(seen[w]) : i < j => seen[w][i].num < seen[w][j].num
          /\ \A i \in 1..Len(seen[w]) : Handling(w) => seen[w][i].num < InHand(w).num
      BY Zenon DEF FlowInv
    <3> QED BY Zenon, <3>1, <3>2, <3>3, <3>4, <3>5
  <2> QED BY ZenonT(30), <2>1, <2>2
<1>8. ASSUME NEW n, Before(n), p.num < n PROVE BeforeNext(n)
  <2> SUFFICES ASSUME NEW w \in Queues
               PROVE  \A j \in 1..Len(queue'[w]) : Queued(w, j)'.num < n
    BY Zenon, <1>4, <1>8 DEF Before, BeforeNext
  <2>0. \A j \in 1..Len(queue[w]) : Queued(w, j).num < n
    BY Zenon, <1>8 DEF Before
  <2>1. CASE w # q
    BY Zenon, <1>3, <1>6, <2>0, <2>1
  <2>2. CASE w = q
    <3>1. \A j \in 1..m : \/ Queued(q, j)' = p
                          \/ j \in 1..Len(queue[q]) /\ Queued(q, j)' = Queued(q, j)
      BY Zenon, <1>2, <1>5
    <3>2. \A j \in 1..m : Queued(q, j)'.num < n
      BY Zenon, <1>8, <2>0, <2>2, <3>1
    <3> QED BY Zenon, <1>2, <2>2, <3>2
  <2> QED BY Zenon, <2>1, <2>2
<1> QED BY Zenon, <1>7, <1>8

(* A worker takes the first packet of its queue. *)
LEMMA PopFlow ==
  ASSUME TypeOK, FlowInv, NEW w \in Queues, WorkerPop(w)
  PROVE  FlowInv' /\ \A n : Before(n) => BeforeNext(n)
<1>1. /\ queue[w] \in Seq(Buffers) /\ queue[w] # <<>> /\ ~Handling(w)
      /\ UNCHANGED <<content, seen>> /\ queue' = [queue EXCEPT ![w] = Tail(@)]
      /\ worker' = [worker EXCEPT ![w] = [pc |-> "handle", buf |-> Head(queue[w]), iters |-> @.iters]]
  BY Zenon DEF WorkerPop, TypeOK, Handling
<1>2. \A v \in Queues : v # w => worker'[v] = worker[v] /\ queue'[v] = queue[v]
  BY ZenonT(30), <1>1 DEF TypeOK
<1>3. 1 \in 1..Len(queue[w]) /\ Handling(w)' /\ InHand(w)' = Queued(w, 1)
  BY <1>1 DEF TypeOK, Handling, InHand, Queued
<1>4. \A i \in 1..Len(queue'[w]) : /\ i + 1 \in 1..Len(queue[w]) /\ 1 < i + 1
                                   /\ Queued(w, i)' = Queued(w, i + 1)
  <2>1. queue'[w] = Tail(queue[w])
    BY Zenon, <1>1 DEF TypeOK
  <2>2. /\ Tail(queue[w]) \in Seq(Buffers)
        /\ Len(Tail(queue[w])) = Len(queue[w]) - 1
        /\ \A i \in 1..Len(Tail(queue[w])) : Tail(queue[w])[i] = queue[w][i + 1]
    BY Zenon, <1>1, TailIs
  <2> DEFINE t == Tail(queue[w])
             s == queue[w]
  <2>3. queue'[w] = t /\ Len(t) \in Nat /\ Len(t) = Len(s) - 1 /\ Len(s) \in Nat
    BY <1>1, <2>1, <2>2
  <2>4. \A i \in 1..Len(t) : content'[queue'[w][i]] = content[queue[w][i + 1]]
    BY Zenon, <1>1, <2>1, <2>2
  <2> HIDE DEF t, s
  <2>5. \A i \in 1..Len(t) : i + 1 \in 1..Len(s) /\ 1 < i + 1
    BY <2>3
  <2> QED BY Zenon, <2>3, <2>4, <2>5 DEF Queued, s
<1>5. \A i, j \in 1..Len(queue'[w]) : i < j => i + 1 < j + 1
  <2>1. Len(queue'[w]) \in Nat
    BY <1>1 DEF TypeOK
  <2> QED BY SMTT(30), <2>1
<1>6. \A v \in Queues : v # w => /\ Handling(v)' <=> Handling(v)
                                 /\ InHand(v)' = InHand(v)
                                 /\ \A i : Queued(v, i)' = Queued(v, i)
  BY Zenon, <1>1, <1>2 DEF Handling, InHand, Queued
<1>7. FlowInv'
  <2> SUFFICES ASSUME NEW v \in Queues
               PROVE  /\ \A i \in 1..Len(seen[v]) : QueueFor(seen[v][i]) = v
                      /\ Handling(v)' => QueueFor(InHand(v)') = v
                      /\ \A j \in 1..Len(queue'[v]) : QueueFor(Queued(v, j)') = v
                      /\ \A i, j \in 1..Len(seen[v]) : i < j => seen[v][i].num < seen[v][j].num
                      /\ \A i \in 1..Len(seen[v]) : Handling(v)' => seen[v][i].num < InHand(v)'.num
                      /\ \A i \in 1..Len(seen[v]), j \in 1..Len(queue'[v]) : seen[v][i].num < Queued(v, j)'.num
                      /\ \A j \in 1..Len(queue'[v]) : Handling(v)' => InHand(v)'.num < Queued(v, j)'.num
                      /\ \A i, j \in 1..Len(queue'[v]) : i < j => Queued(v, i)'.num < Queued(v, j)'.num
    BY Zenon, <1>1 DEF FlowInv
  <2>1. CASE v # w
    <3>1. queue'[v] = queue[v] /\ \A i : Queued(v, i)' = Queued(v, i)
      BY Zenon, <1>2, <1>6, <2>1
    <3>2. (Handling(v)' <=> Handling(v)) /\ InHand(v)' = InHand(v)
      BY Zenon, <1>6, <2>1
    <3>3. /\ \A i \in 1..Len(seen[v]) : QueueFor(seen[v][i]) = v
          /\ Handling(v)' => QueueFor(InHand(v)') = v
      BY Zenon, <3>2 DEF FlowInv
    <3>4. \A j \in 1..Len(queue'[v]) : QueueFor(Queued(v, j)') = v
      <4>1. \A j \in 1..Len(queue[v]) : QueueFor(Queued(v, j)) = v
        BY Zenon DEF FlowInv
      <4> QED BY Zenon, <3>1, <4>1
    <3>5. /\ \A i, j \in 1..Len(seen[v]) : i < j => seen[v][i].num < seen[v][j].num
          /\ \A i \in 1..Len(seen[v]) : Handling(v)' => seen[v][i].num < InHand(v)'.num
      BY Zenon, <3>2 DEF FlowInv
    <3>6. \A i \in 1..Len(seen[v]), j \in 1..Len(queue'[v]) : seen[v][i].num < Queued(v, j)'.num
      <4>1. \A i \in 1..Len(seen[v]), j \in 1..Len(queue[v]) : seen[v][i].num < Queued(v, j).num
        BY Zenon DEF FlowInv
      <4> QED BY Zenon, <3>1, <4>1
    <3>7. \A j \in 1..Len(queue'[v]) : Handling(v)' => InHand(v)'.num < Queued(v, j)'.num
      <4>1. \A j \in 1..Len(queue[v]) : Handling(v) => InHand(v).num < Queued(v, j).num
        BY Zenon DEF FlowInv
      <4> QED BY Zenon, <3>1, <3>2, <4>1
    <3>8. \A i, j \in 1..Len(queue'[v]) : i < j => Queued(v, i)'.num < Queued(v, j)'.num
      <4>1. \A i, j \in 1..Len(queue[v]) : i < j => Queued(v, i).num < Queued(v, j).num
        BY Zenon DEF FlowInv
      <4> QED BY Zenon, <3>1, <4>1
    <3> QED BY Zenon, <3>3, <3>4, <3>5, <3>6, <3>7, <3>8
  <2>2. CASE v = w
    <3>1. \A j \in 1..Len(queue'[w]) : QueueFor(Queued(w, j)') = w
      <4>1. \A j \in 1..Len(queue[w]) : QueueFor(Queued(w, j)) = w
        BY Zenon DEF FlowInv
      <4> QED BY Zenon, <1>4, <4>1
    <3>2. QueueFor(InHand(w)') = w /\ \A i \in 1..Len(seen[w]) : seen[w][i].num < InHand(w)'.num
      BY Zenon, <1>3 DEF FlowInv
    <3>3. \A i \in 1..Len(seen[w]), j \in 1..Len(queue'[w]) : seen[w][i].num < Queued(w, j)'.num
      <4>1. \A i \in 1..Len(seen[w]), j \in 1..Len(queue[w]) : seen[w][i].num < Queued(w, j).num
        BY Zenon DEF FlowInv
      <4> QED BY Zenon, <1>4, <4>1
    <3>0. \A i, j \in 1..Len(queue[w]) : i < j => Queued(w, i).num < Queued(w, j).num
      BY Zenon DEF FlowInv
    <3>4. \A j \in 1..Len(queue'[w]) : InHand(w)'.num < Queued(w, j)'.num
      BY Zenon, <1>3, <1>4, <3>0
    <3>5. \A i, j \in 1..Len(queue'[w]) : i < j => Queued(w, i)'.num < Queued(w, j)'.num
      BY Zenon, <1>4, <1>5, <3>0
    <3> QED BY Zenon, <2>2, <3>1, <3>2, <3>3, <3>4, <3>5 DEF FlowInv
  <2> QED BY Zenon, <2>1, <2>2
<1>8. ASSUME NEW n, Before(n) PROVE BeforeNext(n)
  <2> SUFFICES ASSUME NEW v \in Queues
               PROVE  /\ Handling(v)' => InHand(v)'.num < n
                      /\ \A j \in 1..Len(queue'[v]) : Queued(v, j)'.num < n
    BY ZenonT(30), <1>1, <1>8 DEF Before, BeforeNext
  <2>1. CASE v # w
    BY <1>2, <1>6, <1>8, <2>1 DEF Before
  <2>2. CASE v = w
    BY Zenon, <1>3, <1>4, <1>8, <2>2 DEF Before
  <2> QED BY Zenon, <2>1, <2>2
<1> QED BY Zenon, <1>7, <1>8

(* A worker hands its packet to the callback. *)
LEMMA HandleFlow ==
  ASSUME TypeOK, FlowInv, NEW w \in Queues, WorkerHandle(w)
  PROVE  FlowInv' /\ \A n : Before(n) => BeforeNext(n)
<1>1. /\ Handling(w) /\ UNCHANGED <<content, queue>> /\ seen' = [seen EXCEPT ![w] = Append(@, InHand(w))]
      /\ worker' = [worker EXCEPT ![w] = [pc |-> "release", buf |-> @.buf, iters |-> @.iters]]
  BY ZenonT(30) DEF WorkerHandle, Handling, InHand
<1>2. \A v \in Queues : v # w => worker'[v] = worker[v] /\ seen'[v] = seen[v]
  BY <1>1 DEF TypeOK
<1>3. ~Handling(w)'
  BY Zenon, <1>1 DEF TypeOK, Handling
<1>4. PICK m \in Nat : m = Len(seen[w]) + 1
  BY DEF TypeOK
<1>5. seen[w] \in Seq(Packets) /\ seen'[w] = Append(seen[w], InHand(w))
  BY Zenon, <1>1 DEF TypeOK
<1>6. /\ Len(seen'[w]) = m /\ seen'[w][m] = InHand(w)
      /\ \A i \in 1..Len(seen[w]) : seen'[w][i] = seen[w][i] /\ i < m
      /\ \A i \in 1..m : i \in Nat /\ (i = m \/ i \in 1..Len(seen[w]))
  BY <1>4, <1>5
<1>7. \A v \in Queues : /\ v # w => ((Handling(v)' <=> Handling(v)) /\ InHand(v)' = InHand(v))
                        /\ \A i : Queued(v, i)' = Queued(v, i)
  BY Zenon, <1>1, <1>2 DEF Handling, InHand, Queued
<1>8. FlowInv'
  <2> SUFFICES ASSUME NEW v \in Queues
               PROVE  /\ \A i \in 1..Len(seen'[v]) : QueueFor(seen'[v][i]) = v
                      /\ Handling(v)' => QueueFor(InHand(v)') = v
                      /\ \A j \in 1..Len(queue[v]) : QueueFor(Queued(v, j)) = v
                      /\ \A i, j \in 1..Len(seen'[v]) : i < j => seen'[v][i].num < seen'[v][j].num
                      /\ \A i \in 1..Len(seen'[v]) : Handling(v)' => seen'[v][i].num < InHand(v)'.num
                      /\ \A i \in 1..Len(seen'[v]), j \in 1..Len(queue[v]) : seen'[v][i].num < Queued(v, j).num
                      /\ \A j \in 1..Len(queue[v]) : Handling(v)' => InHand(v)'.num < Queued(v, j).num
                      /\ \A i, j \in 1..Len(queue[v]) : i < j => Queued(v, i).num < Queued(v, j).num
    BY SMTT(30), <1>1, <1>7 DEF FlowInv
  <2>1. CASE v # w
    BY Zenon, <1>2, <1>7, <2>1 DEF FlowInv
  <2>2. CASE v = w
    <3>0. /\ \A i \in 1..Len(seen[w]) : QueueFor(seen[w][i]) = w
          /\ Handling(w) => QueueFor(InHand(w)) = w
          /\ \A i, j \in 1..Len(seen[w]) : i < j => seen[w][i].num < seen[w][j].num
          /\ \A i \in 1..Len(seen[w]) : Handling(w) => seen[w][i].num < InHand(w).num
          /\ \A i \in 1..Len(seen[w]), j \in 1..Len(queue[w]) : seen[w][i].num < Queued(w, j).num
          /\ \A j \in 1..Len(queue[w]) : Handling(w) => InHand(w).num < Queued(w, j).num
      BY Zenon DEF FlowInv
    <3>1. \A i \in 1..m : QueueFor(seen'[w][i]) = w
      BY SMTT(30), <1>1, <1>6, <3>0
    <3>2. \A i, j \in 1..m : i < j => seen'[w][i].num < seen'[w][j].num
      BY SMTT(30), <1>1, <1>6, <3>0
    <3>3. \A i \in 1..m, j \in 1..Len(queue[w]) : seen'[w][i].num < Queued(w, j).num
      BY <1>1, <1>6, <3>0
    <3> QED BY ZenonT(30), <1>3, <1>6, <2>2, <3>1, <3>2, <3>3 DEF FlowInv
  <2> QED BY ZenonT(30), <2>1, <2>2
<1>9. ASSUME NEW n, Before(n) PROVE BeforeNext(n)
  <2> SUFFICES ASSUME NEW v \in Queues
               PROVE  /\ \A i \in 1..Len(seen'[v]) : seen'[v][i].num < n
                      /\ Handling(v)' => InHand(v)'.num < n
    BY Zenon, <1>1, <1>7, <1>9 DEF Before, BeforeNext
  <2>1. CASE v # w
    BY SMTT(30), <1>2, <1>7, <1>9, <2>1 DEF Before
  <2>2. CASE v = w
    BY <1>1, <1>3, <1>6, <1>9, <2>2 DEF Before
  <2> QED BY Zenon, <2>1, <2>2
<1> QED BY Zenon, <1>8, <1>9

(* What is not about the queues leaves the packets before a worker alone;   *)
(* the capture thread copies into a buffer that is nobody else's.           *)
LEMMA CaptureFlow ==
  ASSUME BufferInv, FlowInv, UNCHANGED <<queue, seen, worker>>,
         content' = content \/ CapCopy
  PROVE  FlowInv' /\ \A n : Before(n) => BeforeNext(n)
<1>1. \A w \in Queues : Handling(w)' <=> Handling(w)
  BY Zenon DEF Handling
<1>2. CASE content' = content
  <2>1. \A w \in Queues : InHand(w)' = InHand(w)
    BY Zenon, <1>2 DEF InHand
  <2>2. \A q \in Queues : \A i \in 1..Len(queue[q]) : Queued(q, i)' = Queued(q, i)
    BY Zenon, <1>2 DEF Queued
  <2> QED BY Zenon, <1>1, <2>1, <2>2, SameFlow
<1>3. CASE CapCopy
  <2>1. cap.buf # None /\ cap.buf \in Buffers
    BY ZenonT(30), <1>3 DEF CapCopy, BufferInv, Hands, CapHands, TypeOK
  <2>2. \A b \in Buffers : b # cap.buf => content'[b] = content[b]
    BY <1>3, <2>1 DEF CapCopy, BufferInv, TypeOK
  <2>3. ASSUME NEW w \in Queues, Handling(w) PROVE InHand(w)' = InHand(w)
    <3>1. worker[w].buf \in Buffers /\ worker[w].buf # cap.buf
      BY <2>1, <2>3 DEF Handling, BufferInv, Hands, WorkerHands, Placed, Apart, TypeOK
    <3> QED BY ZenonT(30), <2>2, <3>1 DEF InHand
  <2>4. ASSUME NEW q \in Queues, NEW i \in 1..Len(queue[q]) PROVE Queued(q, i)' = Queued(q, i)
    <3>1. queue[q][i] \in Buffers /\ queue[q][i] # cap.buf
      BY DEF BufferInv, Placed, Apart, TypeOK
    <3> QED BY ZenonT(30), <2>2, <3>1 DEF Queued
  <2> QED BY <1>1, <2>3, <2>4, SameFlow
<1> QED BY Zenon, <1>2, <1>3

(* A worker that gives its buffer back, counts it, or spins, has nothing in *)
(* hand.                                                                    *)
LEMMA WorkerEndFlow ==
  ASSUME TypeOK, FlowInv, NEW w \in Queues, WorkerRelease(w) \/ WorkerCount(w) \/ WorkerIdle(w)
  PROVE  FlowInv' /\ \A n : Before(n) => BeforeNext(n)
<1>1. /\ UNCHANGED <<queue, seen, content>> /\ ~Handling(w)
  BY Zenon DEF WorkerRelease, WorkerCount, WorkerIdle, Handling
<1>2. worker'[w].pc # "handle" /\ \A v \in Queues : v # w => worker'[v] = worker[v]
  <2>1. CASE WorkerRelease(w)
    BY Zenon, <2>1 DEF WorkerRelease, TypeOK
  <2>2. CASE WorkerCount(w) \/ WorkerIdle(w)
    <3>1. worker' = [worker EXCEPT ![w] = EndIteration(w)]
      BY Zenon, <2>2 DEF WorkerCount, WorkerIdle
    <3> QED BY Zenon, <3>1 DEF TypeOK, EndIteration
  <2> QED BY Zenon, <2>1, <2>2
<1>3. \A v \in Queues : /\ Handling(v)' <=> Handling(v)
                        /\ Handling(v) => InHand(v)' = InHand(v)
  BY Zenon, <1>1, <1>2 DEF Handling, InHand
<1>4. \A q \in Queues : \A i \in 1..Len(queue[q]) : Queued(q, i)' = Queued(q, i)
  BY Zenon, <1>1 DEF Queued
<1> QED BY Zenon, <1>1, <1>3, <1>4, SameFlow

(* A step that brings no packet and takes the capture thread no further     *)
(* keeps what is fresh.                                                     *)
LEMMA KeepFresh ==
  ASSUME FreshInv, \A n : Before(n) => BeforeNext(n), UNCHANGED <<ring, current, arrived>>,
         cap.pc \notin {"give_back", "release"} \/ cap'.pc \in {"give_back", "release"}
  PROVE  FreshInv'
  BY Zenon, FreshNext DEF FreshInv, Occupied

LEMMA ArriveFresh ==
  ASSUME BufferInv, FlowInv, FreshInv, NEW h \in Traffic, Arrive(h)
  PROVE  FlowInv' /\ FreshInv'
<1>1. FlowInv' /\ \A n : Before(n) => BeforeNext(n)
  BY Zenon, CaptureFlow DEF Arrive
<1>2. BeforeNext(arrived)
  BY Zenon, <1>1 DEF FreshInv
<1>3. UNCHANGED <<current, cap, seen, queue, content, worker>> /\ arrived' = arrived + 1
  BY Zenon DEF Arrive, capVars
<1>4. BeforeNext(arrived')
  <2> SUFFICES ASSUME NEW w \in Queues
               PROVE  /\ \A i \in 1..Len(seen'[w]) : seen'[w][i].num < arrived + 1
                      /\ Handling(w)' => InHand(w)'.num < arrived + 1
                      /\ \A j \in 1..Len(queue'[w]) : Queued(w, j)'.num < arrived + 1
    BY Zenon, <1>3 DEF BeforeNext
  <2>1. \A x \in Packets : x.num < arrived => x.num < arrived + 1
    BY DEF Packets, BufferInv, TypeOK
  <2>2. \A i \in 1..Len(seen[w]) : seen[w][i] \in Packets
    BY DEF BufferInv, TypeOK
  <2>3. Handling(w) => InHand(w) \in Packets
    BY Zenon DEF Handling, InHand, BufferInv, TypeOK, Hands, Filled, WorkerHands
  <2>4. \A j \in 1..Len(queue[w]) : Queued(w, j) \in Packets
    BY DEF Queued, BufferInv, TypeOK, Hands, Filled
  <2>5. /\ \A i \in 1..Len(seen[w]) : seen[w][i].num < arrived
        /\ Handling(w) => InHand(w).num < arrived
        /\ \A j \in 1..Len(queue[w]) : Queued(w, j).num < arrived
    BY Zenon DEF FreshInv, Before
  <2>6. /\ Handling(w)' <=> Handling(w)
        /\ InHand(w)' = InHand(w)
        /\ \A j : Queued(w, j)' = Queued(w, j)
    BY Zenon, <1>3 DEF Handling, InHand, Queued
  <2> QED BY <1>3, <2>1, <2>2, <2>3, <2>4, <2>5, <2>6
<1>5. ASSUME NEW s \in Occupied', s # current' \/ cap'.pc \notin {"give_back", "release"}
      PROVE  BeforeNext(ring'[s].pkt.num)
  <2>1. CASE ring'[s] = ring[s]
    BY Zenon, <1>1, <1>3, <1>5, <2>1 DEF FreshInv, Occupied
  <2>2. CASE ring'[s] # ring[s]
    <3> DEFINE g == [pkt |-> [hdr |-> h, num |-> arrived], losing |-> lost > 0]
    <3>1. ring'[s].pkt.num = arrived
      <4>1. s \in Slots /\ ring \in [Slots -> [pkt : Packets, losing : BOOLEAN] \cup {None}]
        BY Zenon, <1>5 DEF Occupied, BufferInv, TypeOK
      <4>2. ring' = ring \/ ring' = [ring EXCEPT ![kernel] = g]
        BY Zenon DEF Arrive
      <4>3. g.pkt.num = arrived
        OBVIOUS
      <4> HIDE DEF g
      <4> QED BY Zenon, <2>2, <4>1, <4>2, <4>3
    <3> QED BY SMTT(30), <1>2, <3>1
  <2> QED BY Zenon, <2>1, <2>2
<1> QED BY Zenon, <1>1, <1>4, <1>5, FreshNext

LEMMA PushFresh ==
  ASSUME OrderInv, CapPush
  PROVE  FlowInv' /\ FreshInv'
<1>0. TypeOK /\ FlowInv /\ FreshInv /\ RingInv
  BY Zenon DEF OrderInv, BufferInv
<1>1. PICK b \in Buffers : b = cap.buf
  BY Zenon DEF CapPush, OrderInv, BufferInv, Hands, CapHands, TypeOK
<1>2. PICK p \in Packets : p = content[b] /\ p = ring[current].pkt /\ current \in Occupied
  BY Zenon, <1>1 DEF CapPush, OrderInv, BufferInv, Hands, CapHands, TypeOK, Occupied
<1>3. PICK q \in Queues : q = QueueFor(p)
  BY Zenon, QueueForType
<1>4. /\ queue' = [queue EXCEPT ![q] = Append(@, b)] /\ cap'.pc = "release"
      /\ UNCHANGED <<content, worker, seen, ring, current, arrived>>
  BY ZenonT(30), <1>1, <1>2, <1>3 DEF CapPush, ringVars
<1>5. Before(p.num) /\ p.num < arrived
  BY <1>0, <1>2 DEF FreshInv, RingInv, ByArrival, CapPush
<1>6. FlowInv' /\ \A n : Before(n) /\ p.num < n => BeforeNext(n)
  BY ZenonT(30), <1>2, <1>3, <1>4, <1>5, PushFlow DEF OrderInv, BufferInv
<1>7. BeforeNext(arrived')
  BY <1>0, <1>4, <1>5, <1>6 DEF FreshInv
<1>8. ASSUME NEW s \in Occupied', s # current' \/ cap'.pc \notin {"give_back", "release"}
      PROVE  BeforeNext(ring'[s].pkt.num)
  <2>1. s \in Occupied /\ s # current /\ s \in Slots /\ current \in Slots
    BY Zenon, <1>4, <1>8 DEF Occupied, OrderInv, BufferInv, TypeOK
  <2>2. Ahead(current) < Ahead(s)
    BY <2>1, AheadType DEF OrderInv, BufferInv
  <2>3. p.num < ring[s].pkt.num
    BY Zenon, <1>2, <2>1, <2>2 DEF OrderInv, RingInv, ByArrival
  <2>4. Before(ring[s].pkt.num)
    BY Zenon, <1>0, <2>1 DEF FreshInv
  <2> QED BY Zenon, <1>4, <1>6, <2>3, <2>4
<1> QED BY Zenon, <1>6, <1>7, <1>8, FreshNext

LEMMA ReleaseFresh ==
  ASSUME OrderInv, CapRelease
  PROVE  FlowInv' /\ FreshInv'
<1>1. FlowInv' /\ \A n : Before(n) => BeforeNext(n)
  BY Zenon, CaptureFlow DEF CapRelease, OrderInv
<1>2. ring' = [ring EXCEPT ![current] = None] /\ arrived' = arrived
  BY Zenon DEF CapRelease
<1>3. \A s \in Occupied' : s \in Occupied /\ s # current /\ ring'[s] = ring[s]
  BY Zenon, <1>2 DEF Occupied, OrderInv, BufferInv, TypeOK
<1> QED BY Zenon, <1>1, <1>2, <1>3, FreshNext DEF OrderInv, FreshInv

LEMMA StepOrder ==
  ASSUME OrderInv, [Next]_vars
  PROVE  FlowInv' /\ FreshInv'
<1> USE DEF OrderInv
<1>1. ASSUME NEW h \in Traffic, Arrive(h) PROVE FlowInv' /\ FreshInv'
  BY Zenon, <1>1, ArriveFresh
<1>2. CASE CapReceive \/ CapAcquire \/ CapStarved \/ CapCopy \/ CapPushFull \/ CapGiveBack
           \/ CapStop \/ CapJoin \/ Over \/ UNCHANGED vars
  <2>1. /\ UNCHANGED <<queue, seen, worker, ring, current, arrived>>
        /\ content' = content \/ CapCopy
        /\ cap.pc \notin {"give_back", "release"} \/ cap'.pc \in {"give_back", "release"}
    <3>1. CASE CapReceive
      BY Zenon, <3>1 DEF CapReceive, TypeOK, CapGoto
    <3>2. CASE CapAcquire
      BY Zenon, <3>2 DEF CapAcquire, ringVars
    <3>3. CASE CapStarved
      BY Zenon, <3>3 DEF CapStarved, TypeOK, CapGoto, ringVars
    <3>4. CASE CapCopy
      BY Zenon, <3>4 DEF CapCopy, TypeOK, CapGoto, ringVars
    <3>5. CASE CapPushFull
      BY Zenon, <3>5 DEF CapPushFull, TypeOK, CapGoto, ringVars
    <3>6. CASE CapGiveBack
      BY Zenon, <3>6 DEF CapGiveBack, ringVars
    <3>7. CASE CapStop
      BY Zenon, <3>7 DEF CapStop, TypeOK, CapGoto, ringVars
    <3>8. CASE CapJoin
      BY Zenon, <3>8 DEF CapJoin, TypeOK, CapGoto, ringVars
    <3>9. CASE UNCHANGED vars
      BY Zenon, <3>9 DEF vars, ringVars, capVars
    <3> QED BY SMTT(30), <1>2, <3>1, <3>2, <3>3, <3>4, <3>5, <3>6, <3>7, <3>8, <3>9 DEF Over
  <2>2. FlowInv' /\ \A n : Before(n) => BeforeNext(n)
    BY Zenon, <2>1, CaptureFlow
  <2> QED BY ZenonT(30), <2>1, <2>2, KeepFresh
<1>3. CASE CapPush
  BY Zenon, <1>3, PushFresh
<1>4. CASE CapRelease
  BY Zenon, <1>4, ReleaseFresh
<1>5. ASSUME NEW w \in Queues, WorkerStep(w) PROVE FlowInv' /\ FreshInv'
  <2>1. FlowInv' /\ \A n : Before(n) => BeforeNext(n)
    <3>1. TypeOK /\ FlowInv
      BY Zenon DEF BufferInv
    <3>2. CASE WorkerPop(w)
      BY Zenon, <3>1, <3>2, PopFlow
    <3>3. CASE WorkerHandle(w)
      BY Zenon, <3>1, <3>3, HandleFlow
    <3>4. CASE WorkerRelease(w) \/ WorkerCount(w) \/ WorkerIdle(w)
      BY Zenon, <3>1, <3>4, WorkerEndFlow
    <3> QED BY Zenon, <1>5, <3>2, <3>3, <3>4 DEF WorkerStep
  <2>2. UNCHANGED <<ring, current, arrived, cap>>
    BY Zenon, <1>5 DEF WorkerStep, WorkerPop, WorkerHandle, WorkerRelease, WorkerCount, WorkerIdle, ringVars, capVars
  <2> QED BY Zenon, <2>1, <2>2, KeepFresh
<1> QED BY Zenon, <1>1, <1>2, <1>3, <1>4, <1>5 DEF Next, CapStep

LEMMA InitOrder ==
  ASSUME Init
  PROVE  OrderInv
<1>1. BufferInv
  BY Zenon, InitTyped, InitPlaced DEF BufferInv
<1>2. RingInv
  BY Zenon, InitRing
<1>3. /\ \A w \in Queues : Len(seen[w]) = 0 /\ Len(queue[w]) = 0 /\ ~Handling(w)
      /\ Occupied = {}
  <2>1. Occupied = {}
    BY Zenon DEF Init, Occupied
  <2>2. \A w \in Queues : Len(seen[w]) = 0 /\ Len(queue[w]) = 0
    BY ZenonT(30) DEF Init
  <2>3. \A w \in Queues : ~Handling(w)
    <3>1. \A w \in Queues : worker[w] = [pc |-> "poll", buf |-> None, iters |-> 0]
      BY ZenonT(30) DEF Init
    <3> QED BY <3>1 DEF Handling
  <2> QED BY Zenon, <2>1, <2>2, <2>3
<1>4. FlowInv /\ FreshInv
  BY <1>3 DEF FlowInv, FreshInv, Before
<1> QED BY Zenon, <1>1, <1>2, <1>4 DEF OrderInv

(* The inductive invariant behind FlowsInOrder. *)
THEOREM OrderInvariant == Spec => []OrderInv
<1>1. Init => OrderInv
  BY Zenon, InitOrder
<1>2. OrderInv /\ [Next]_vars => OrderInv'
  <2> SUFFICES ASSUME OrderInv, [Next]_vars PROVE OrderInv'
    BY Zenon
  <2>1. BufferInv'
    BY Zenon, StepTyped, StepHands, StepPlaced DEF OrderInv, BufferInv
  <2>2. RingInv'
    BY Zenon, <2>1, StepRing DEF OrderInv, BufferInv
  <2> QED BY Zenon, <2>1, <2>2, StepOrder DEF OrderInv
<1> QED BY <1>1, <1>2, PTL DEF Spec

(* The packets of a flow reach one worker's callback, in the order of their *)
(* arrival: queue_for looks at nothing but the flow, and no buffer is       *)
(* filled again before its worker is done with it.                          *)
THEOREM FlowsStayInOrder == Spec => []FlowsInOrder
<1>1. \A p, r \in Packets : Flow(p) = Flow(r) => QueueFor(p) = QueueFor(r)
  BY Zenon DEF Flow, QueueFor, Hash
<1>2. ASSUME OrderInv PROVE FlowsInOrder
  <2> SUFFICES ASSUME NEW v \in Queues, NEW w \in Queues,
                      NEW i \in 1..Len(seen[v]), NEW j \in 1..Len(seen[w]),
                      Flow(seen[v][i]) = Flow(seen[w][j])
               PROVE  v = w /\ (i < j => seen[v][i].num < seen[w][j].num)
    BY Zenon DEF FlowsInOrder
  <2>1. seen[v][i] \in Packets /\ seen[w][j] \in Packets
    <3>1. seen \in [Queues -> Seq(Packets)]
      BY Zenon, <1>2 DEF OrderInv, BufferInv, TypeOK
    <3> QED BY <3>1
  <2>2. v = w
    <3>1. QueueFor(seen[v][i]) = v /\ QueueFor(seen[w][j]) = w
      BY Zenon, <1>2 DEF OrderInv, FlowInv
    <3> QED BY Zenon, <1>1, <2>1, <3>1
  <2> QED BY Zenon, <1>2, <2>2 DEF OrderInv, FlowInv
<1> QED BY <1>2, OrderInvariant, PTL
============================================================================
