------------------------------ MODULE Pipeline ------------------------------
(***************************************************************************)
(* The multi-queue capture program (src/multiqueue_capture.cpp): the kernel *)
(* fills the slots of a PacketRing, the capture thread copies each frame    *)
(* into a pool buffer and queues it by the hash of its flow, one worker per *)
(* queue (src/worker_pool.cpp) hands it to the callback and gives it back.  *)
(* The pool is AtomicPool, which BufferPool implements; a queue is a        *)
(* sequence, as in BoundedFifo, which SPSCRing implements.                  *)
(***************************************************************************)
EXTENDS Integers, Sequences, FiniteSets, FiniteSetsExt

CONSTANTS
  Frames,        \* total_frames_ of the PacketRing
  BufferCount,   \* buffers in the pool, 8192 in the code
  QueueCount,    \* kQueues, 4 in the code
  Capacity,      \* of a queue, 8192 in the code
  CheckEvery,    \* a worker looks at stop_ every 1000 iterations
  Traffic,       \* the headers of packets the network may bring: see Parse
  Toeplitz,      \* the 32-bit hash, as a function of addresses and ports
  MaxArrivals,   \* bound: packets that arrive
  None

ASSUME PipelineAssumption ==
  /\ Frames \in Nat \ {0} /\ QueueCount \in Nat \ {0}
  /\ BufferCount \in Nat /\ Capacity \in Nat \ {0}
  /\ CheckEvery \in Nat \ {0} /\ MaxArrivals \in Nat

ASSUME HashAssumption ==
  \A h \in Traffic : Toeplitz[<<h.addr, h.ports>>] \in Nat /\ Toeplitz[<<h.addr, 0>>] \in Nat

ASSUME NoneAssumption ==
  /\ None \notin Nat /\ None \notin [hdr : Traffic, num : Nat]
  /\ None \notin [pkt : [hdr : Traffic, num : Nat], losing : BOOLEAN]

Slots == 0..(Frames - 1)
Buffers == 0..(BufferCount - 1)
Queues == 0..(QueueCount - 1)      \* worker i polls queue i

VARIABLES
  ring,       \* the frame in each slot the user owns, None in the kernel's
  kernel,     \* the slot the kernel fills next
  arrived,    \* packets that arrived so far
  lost,       \* those the kernel had no slot for
  current,    \* current_frame_
  drops,      \* drops_: frames seen with TP_STATUS_LOSING
  list, out,  \* the pool
  content,    \* what each buffer holds
  cap,        \* the capture thread: its place in the loop, and buf
  starved,    \* history: frames for which acquire() returned nullptr
  queue,      \* the queues of the RSSDistributor, oldest first
  worker,     \* the worker threads: place, buf, iters
  stats,      \* WorkerStats: packets processed and dropped
  seen,       \* history: what the callback of each worker was called with
  stop        \* stop_

ringVars == <<ring, kernel, arrived, lost, current, drops>>
capVars == <<cap, starved>>
vars == <<ringVars, list, out, content, capVars, queue, worker, stats, seen, stop>>

Pool == INSTANCE AtomicPool
-----------------------------------------------------------------------------
(* PacketParser::parse: valid is a mark on the result, no more. *)
Parse(h) ==
  LET hasIp == h.eth /\ h.ipv4
  IN  [has_ip |-> hasIp, has_udp |-> hasIp /\ h.udp,
       valid |-> h.eth /\ (~hasIp \/ h.csum)]

(* RSSDistributor::hash: the mask of a power of two. *)
Hash(addr, ports) == Toeplitz[<<addr, ports>>] % QueueCount

QueueByArrival(p) == p.num % QueueCount

(* queue_for, and RSSDistributor::submit: a packet that is not UDP is       *)
(* hashed with ports 0, one that is not IPv4 goes to queue 0.               *)
QueueFor(p) ==
  IF Parse(p.hdr).has_udp THEN Hash(p.hdr.addr, p.hdr.ports)
  ELSE IF Parse(p.hdr).has_ip THEN Hash(p.hdr.addr, 0)
  ELSE 0

Init ==
  /\ ring = [s \in Slots |-> None] /\ kernel = 0 /\ arrived = 0 /\ lost = 0
  /\ current = 0 /\ drops = 0
  /\ list = [i \in 1..BufferCount |-> i - 1] /\ out = {}
  /\ content = [b \in Buffers |-> None]
  /\ cap = [pc |-> "poll", buf |-> None] /\ starved = 0
  /\ queue = [q \in Queues |-> <<>>]
  /\ worker = [w \in Queues |-> [pc |-> "poll", buf |-> None, iters |-> 0]]
  /\ stats = [w \in Queues |-> [processed |-> 0, dropped |-> 0]]
  /\ seen = [w \in Queues |-> <<>>]
  /\ stop = FALSE

-----------------------------------------------------------------------------
(* A packet arrives.  The kernel writes it to its next slot and then sets   *)
(* TP_STATUS_USER, with TP_STATUS_LOSING once it has lost something; when   *)
(* the slot is still the user's the packet is lost.                         *)
Arrive(h) ==
  /\ arrived < MaxArrivals
  /\ arrived' = arrived + 1
  /\ IF ring[kernel] = None
     THEN /\ ring' = [ring EXCEPT ![kernel] = [pkt |-> [hdr |-> h, num |-> arrived],
                                               losing |-> lost > 0]]
          /\ kernel' = (kernel + 1) % Frames
          /\ lost' = lost
     ELSE lost' = lost + 1 /\ UNCHANGED <<ring, kernel>>
  /\ UNCHANGED <<current, drops, list, out, content, capVars, queue, worker,
                 stats, seen, stop>>

CapGoto(label) == cap' = [cap EXCEPT !.pc = label]

(* ring.receive(frame) returns true. *)
CapReceive ==
  /\ cap.pc = "poll"
  /\ ring[current] # None
  /\ drops' = IF ring[current].losing THEN drops + 1 ELSE drops
  /\ CapGoto("acquire")
  /\ UNCHANGED <<ring, kernel, arrived, lost, current, list, out, content,
                 starved, queue, worker, stats, seen, stop>>

(* pool.acquire(), which may return nullptr. *)
CapAcquire ==
  /\ cap.pc = "acquire"
  /\ Pool!Acquire
  /\ cap' = [pc |-> "copy", buf |-> list[Len(list)]]
  /\ UNCHANGED <<ringVars, content, starved, queue, worker, stats, seen, stop>>

CapStarved ==
  /\ cap.pc = "acquire" /\ list = <<>>
  /\ CapGoto("release")
  /\ starved' = starved + 1
  /\ UNCHANGED <<ringVars, list, out, content, queue, worker, stats, seen, stop>>

(* memcpy out of the slot, which frame.data points into. *)
CapCopy ==
  /\ cap.pc = "copy"
  /\ content' = [content EXCEPT ![cap.buf] = ring[current].pkt]
  /\ CapGoto("push")
  /\ UNCHANGED <<ringVars, list, out, starved, queue, worker, stats, seen, stop>>

(* get_queue(q).push(buf) succeeds, or fails on a full queue. *)
CapPush ==
  /\ cap.pc = "push"
  /\ LET q == QueueFor(content[cap.buf])
     IN  /\ Len(queue[q]) < Capacity
         /\ queue' = [queue EXCEPT ![q] = Append(@, cap.buf)]
  /\ cap' = [pc |-> "release", buf |-> None]
  /\ UNCHANGED <<ringVars, list, out, content, starved, worker, stats, seen, stop>>

RecordDropNowhere(q) == stats

(* record_drop(q): worker i polls queue i, so it is the one that counts. *)
RecordDrop(q) == [stats EXCEPT ![q] = [processed |-> @.processed, dropped |-> @.dropped + 1]]

CapPushFull ==
  /\ cap.pc = "push"
  /\ LET q == QueueFor(content[cap.buf])
     IN  /\ Len(queue[q]) = Capacity
         /\ stats' = RecordDrop(q)
  /\ CapGoto("give_back")
  /\ UNCHANGED <<ringVars, list, out, content, starved, queue, worker, seen, stop>>

GiveBackForgotten(b) == UNCHANGED <<list, out>>

(* pool.release(buf) of a packet that found its queue full. *)
GiveBack(b) == Pool!Release(b)

CapGiveBack ==
  /\ cap.pc = "give_back"
  /\ GiveBack(cap.buf)
  /\ cap' = [pc |-> "release", buf |-> None]
  /\ UNCHANGED <<ringVars, content, starved, queue, worker, stats, seen, stop>>

NextFrameSkips == (current + 2) % Frames

NextFrame == (current + 1) % Frames

(* ring.release() *)
CapRelease ==
  /\ cap.pc = "release"
  /\ ring' = [ring EXCEPT ![current] = None]
  /\ current' = NextFrame
  /\ CapGoto("poll")
  /\ UNCHANGED <<kernel, arrived, lost, drops, list, out, content, starved,
                 queue, worker, stats, seen, stop>>

(* g_stop is set or the time is over: the loop ends, workers.stop() sets    *)
(* stop_ and joins the threads.                                             *)
CapStop ==
  /\ cap.pc = "poll"
  /\ stop' = TRUE
  /\ CapGoto("join")
  /\ UNCHANGED <<ringVars, list, out, content, starved, queue, worker, stats, seen>>

CapJoin ==
  /\ cap.pc = "join"
  /\ \A w \in Queues : worker[w].pc = "done"
  /\ CapGoto("done")
  /\ UNCHANGED <<ringVars, list, out, content, starved, queue, worker, stats,
                 seen, stop>>
-----------------------------------------------------------------------------
(* queue.pop(buf) finds a buffer. *)
WorkerPop(w) ==
  /\ worker[w].pc = "poll" /\ queue[w] # <<>>
  /\ worker' = [worker EXCEPT ![w] = [pc |-> "handle", buf |-> Head(queue[w]), iters |-> @.iters]]
  /\ queue' = [queue EXCEPT ![w] = Tail(@)]
  /\ UNCHANGED <<ringVars, list, out, content, capVars, stats, seen, stop>>

(* callback_(queue_index, buf, parsed) *)
WorkerHandle(w) ==
  /\ worker[w].pc = "handle"
  /\ seen' = [seen EXCEPT ![w] = Append(@, content[worker[w].buf])]
  /\ worker' = [worker EXCEPT ![w] = [pc |-> "release", buf |-> @.buf, iters |-> @.iters]]
  /\ UNCHANGED <<ringVars, list, out, content, capVars, queue, stats, stop>>

EndIterationAlways(w) ==
  LET n == (worker[w].iters + 1) % CheckEvery
  IN  [pc |-> IF n = 0 THEN "done" ELSE "poll", buf |-> None, iters |-> n]

EndIterationBusyOnly(w) ==
  LET n == (worker[w].iters + 1) % CheckEvery
  IN  IF worker[w].pc = "count"
      THEN [pc |-> IF n = 0 /\ stop THEN "done" ELSE "poll", buf |-> None, iters |-> n]
      ELSE worker[w]

(* The end of an iteration: count it, and every CheckEvery iterations look  *)
(* at stop_.                                                                *)
EndIteration(w) ==
  LET n == (worker[w].iters + 1) % CheckEvery
  IN  [pc |-> IF n = 0 /\ stop THEN "done" ELSE "poll", buf |-> None, iters |-> n]

(* pool_.release(buf) *)
WorkerRelease(w) ==
  /\ worker[w].pc = "release"
  /\ Pool!Release(worker[w].buf)
  /\ worker' = [worker EXCEPT ![w] = [pc |-> "count", buf |-> None, iters |-> @.iters]]
  /\ UNCHANGED <<ringVars, content, capVars, queue, stats, seen, stop>>

(* packets_processed.fetch_add(1): the buffer may be in use again by now. *)
WorkerCount(w) ==
  /\ worker[w].pc = "count"
  /\ stats' = [stats EXCEPT ![w] = [processed |-> @.processed + 1, dropped |-> @.dropped]]
  /\ worker' = [worker EXCEPT ![w] = EndIteration(w)]
  /\ UNCHANGED <<ringVars, list, out, content, capVars, queue, seen, stop>>

(* queue.pop(buf) finds nothing: a spin. *)
WorkerIdle(w) ==
  /\ worker[w].pc = "poll" /\ queue[w] = <<>>
  /\ worker' = [worker EXCEPT ![w] = EndIteration(w)]
  /\ UNCHANGED <<ringVars, list, out, content, capVars, queue, stats, seen, stop>>

CapStep ==
  \/ CapReceive \/ CapAcquire \/ CapStarved \/ CapCopy \/ CapPush
  \/ CapPushFull \/ CapGiveBack \/ CapRelease

WorkerStep(w) ==
  WorkerPop(w) \/ WorkerHandle(w) \/ WorkerRelease(w) \/ WorkerCount(w) \/ WorkerIdle(w)

(* The program is over. *)
Over == cap.pc = "done" /\ UNCHANGED vars

Next ==
  \/ \E h \in Traffic : Arrive(h)
  \/ CapStep \/ CapStop \/ CapJoin
  \/ \E w \in Queues : WorkerStep(w)
  \/ Over

Spec == Init /\ [][Next]_vars

(* Every thread runs on its own core and never blocks; whether the program  *)
(* is ever told to stop, and whether packets arrive, is left open.          *)
Fairness ==
  /\ WF_vars(CapStep) /\ WF_vars(CapJoin)
  /\ \A w \in Queues : WF_vars(WorkerStep(w))

FairSpec == Spec /\ Fairness
-----------------------------------------------------------------------------
Packets == [hdr : Traffic, num : Nat]

(* Type correctness. *)
TypeOK ==
  /\ ring \in [Slots -> [pkt : Packets, losing : BOOLEAN] \cup {None}]
  /\ kernel \in Slots /\ current \in Slots
  /\ arrived \in Nat /\ lost \in Nat /\ drops \in Nat /\ starved \in Nat
  /\ list \in Seq(Buffers) /\ out \subseteq Buffers
  /\ content \in [Buffers -> Packets \cup {None}]
  /\ cap \in [pc : {"poll", "acquire", "copy", "push", "give_back", "release",
                   "join", "done"}, buf : Buffers \cup {None}]
  /\ queue \in [Queues -> Seq(Buffers)]
  /\ worker \in [Queues -> [pc : {"poll", "handle", "release", "count", "done"},
                            buf : Buffers \cup {None}, iters : 0..(CheckEvery - 1)]]
  /\ stats \in [Queues -> [processed : Nat, dropped : Nat]]
  /\ seen \in [Queues -> Seq(Packets)]
  /\ stop \in BOOLEAN

(* The places where buffer b is: the pool, the hands of a thread, a queue. *)
Places(b) ==
  {<<"pool", i>> : i \in {j \in 1..Len(list) : list[j] = b}}
  \cup {<<"capture", 0>> : x \in {cap.buf} \cap {b}}
  \cup (UNION {{<<"queue", q, i>> : i \in {j \in 1..Len(queue[q]) : queue[q][j] = b}}
                 : q \in Queues})
  \cup {<<"worker", w>> : w \in {v \in Queues : worker[v].buf = b}}

(* Every buffer is in one place, on every path through the capture loop and *)
(* the workers, the drops included; so when the program is over the only    *)
(* buffers that did not come back are those the workers left in the queues. *)
EachBufferInOnePlace == \A b \in Buffers : \E p \in Places(b) : Places(b) = {p}

(* The kernel and the capture thread agree on whose slot is whose: the      *)
(* user's slots are those from current_frame_ up to the kernel's, in order  *)
(* of arrival, so neither ever waits at a slot the other has passed.        *)
RingInStep ==
  LET at(i) == ring[(current + i) % Frames]
  IN  \E k \in 0..Frames :
        /\ kernel = (current + k) % Frames
        /\ \A i \in 0..(Frames - 1) : at(i) # None <=> i < k
        /\ \A i, j \in 0..(k - 1) : i < j => at(i).pkt.num < at(j).pkt.num

(* "RSS": all packets of a flow go to one worker, whose callback sees each  *)
(* at most once and in the order of arrival, with the bytes that arrived:   *)
(* no buffer is filled again while a queue or a worker holds it.            *)
Flow(p) == <<Parse(p.hdr).has_ip, Parse(p.hdr).has_udp, p.hdr.addr, p.hdr.ports>>

FlowsInOrder ==
  \A v, w \in Queues :
    \A i \in 1..Len(seen[v]), j \in 1..Len(seen[w]) :
      Flow(seen[v][i]) = Flow(seen[w][j]) =>
        /\ v = w
        /\ i < j => seen[v][i].num < seen[w][j].num

(* Every packet that arrived is accounted for: lost by the kernel, still in *)
(* the ring, met with an empty pool, dropped and counted at a full queue,   *)
(* queued, with a worker until it is counted, or counted as processed.      *)
InRing == Cardinality({s \in Slots : ring[s] # None})
            - (IF cap.pc \in {"give_back", "release"} THEN 1 ELSE 0)

EveryPacketAccountedFor ==
  arrived = lost + InRing + starved
            + MapThenSumSet(LAMBDA w : Len(queue[w]) + stats[w].processed
                                       + stats[w].dropped
                                       + (IF worker[w].pc \in {"handle", "release", "count"} THEN 1 ELSE 0),
                            Queues)

(* stop() returns: each worker gets to the iteration at which it looks at   *)
(* stop_, whether it is busy or idle.                                       *)
StopReturns == stop ~> (cap.pc = "done")

(* A queued packet reaches the callback unless the program is stopped. *)
QueuedIsHandled ==
  \A q \in Queues, b \in Buffers :
    (\E i \in 1..Len(queue[q]) : queue[q][i] = b)
      ~> (worker[q].buf = b \/ stop)

=============================================================================
