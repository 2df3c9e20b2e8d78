--------------------------- MODULE BatchProcessor ---------------------------
(***************************************************************************)
(* BatchProcessor (src/batch_processor.cpp): run_once drains up to          *)
(* BATCH_SIZE buffers from a queue of the RSSDistributor, parses them,      *)
(* hands each to the handler of its UDP port, flushes the handlers it used  *)
(* and gives the buffers back, while another thread goes on submitting.     *)
(* The pool is AtomicPool, which BufferPool implements; the queue is a      *)
(* sequence, as in BoundedFifo, which SPSCRing implements.                  *)
(***************************************************************************)
EXTENDS Integers, Sequences, Functions

CONSTANTS
  BufferCount, Capacity,   \* of the pool and of the queue
  BatchSize,               \* BATCH_SIZE, 32 in the code
  Ports,                   \* the UDP ports in use
  Handlers,                \* the BatchHandler objects
  MaxPackets,              \* bound: packets submitted
  None

ASSUME BatchAssumption ==
  /\ BatchSize \in Nat \ {0} /\ Capacity \in Nat \ {0} /\ BufferCount \in Nat
  /\ None \notin Handlers \cup Ports

Buffers == 1..BufferCount

VARIABLES
  list, out,         \* the pool
  content,           \* the packet in each buffer: its port (None: not UDP), its number
  queue,             \* the queue at queue_index_
  submitted,         \* history: packets submitted
  pc,                \* where run_once is
  batch,             \* batch_.bufs up to batch_.count
  at,                \* the loop index into batch
  touched,           \* the handlers to flush
  udp_handlers,      \* udp_handlers_
  default_handler,   \* default_handler_
  stats,             \* stats_
  handled,           \* history: the packets handed to handlers, in order
  unflushed          \* history: the buffers and packets a handler got since its last flush

poolVars == <<list, out>>
config == <<udp_handlers, default_handler>>
history == <<handled, unflushed>>
vars == <<poolVars, content, queue, submitted, pc, batch, at, touched, config,
          stats, history>>

Pool == INSTANCE AtomicPool

Init ==
  /\ list = [i \in Buffers |-> i] /\ out = {}
  /\ content = [b \in Buffers |-> None]
  /\ queue = <<>> /\ submitted = 0
  /\ pc = "pop" /\ batch = <<>> /\ at = 1 /\ touched = <<>>
  /\ udp_handlers = [p \in Ports |-> None] /\ default_handler = None
  /\ stats = [batches |-> 0, processed |-> 0, dispatched |-> 0]
  /\ handled = <<>> /\ unflushed = [h \in Handlers |-> {}]

\* Between two calls of run_once.
Returned == pc = "pop" /\ batch = <<>>

\* The submitting thread takes a buffer, fills it and calls submit; on a full
\* queue it gives the buffer back, which leaves all as it was.
Submit(port) ==
  /\ submitted < MaxPackets /\ Len(queue) < Capacity
  /\ Pool!Acquire
  /\ submitted' = submitted + 1
  /\ content' = [content EXCEPT ![list[Len(list)]] = [port |-> port, num |-> submitted']]
  /\ queue' = Append(queue, list[Len(list)])
  /\ UNCHANGED <<pc, batch, at, touched, config, stats, history>>

RegisterUdpHandler(port, h) ==
  /\ Returned
  /\ udp_handlers' = [udp_handlers EXCEPT ![port] = h]
  /\ UNCHANGED <<poolVars, content, queue, submitted, pc, batch, at, touched,
                 default_handler, stats, history>>

SetDefaultHandler(h) ==
  /\ Returned
  /\ default_handler' = h
  /\ UNCHANGED <<poolVars, content, queue, submitted, pc, batch, at, touched,
                 udp_handlers, stats, history>>
-----------------------------------------------------------------------------
\* dispatch_batch, then the release of the buffers.
PhaseAfterFlushLast == [dispatch |-> "release", release |-> "flush", flush |-> "pop"]
PhaseAfter == [dispatch |-> "flush", flush |-> "release", release |-> "pop"]

\* queue.pop(batch_.bufs[n])
Pop ==
  /\ pc = "pop" /\ Len(batch) < BatchSize /\ queue # <<>>
  /\ batch' = Append(batch, Head(queue)) /\ queue' = Tail(queue)
  /\ UNCHANGED <<poolVars, content, submitted, pc, at, touched, config, stats, history>>

\* The loop that pops is over; an empty batch ends run_once.
BatchIsFull == Len(batch) = BatchSize
BatchIsComplete == Len(batch) = BatchSize \/ queue = <<>>

Parse ==
  /\ pc = "pop" /\ batch # <<>> /\ BatchIsComplete
  /\ pc' = "dispatch"
  /\ UNCHANGED <<poolVars, content, queue, submitted, batch, at, touched, config,
                 stats, history>>

\* The handler of a packet, read through its view into the buffer.
HandlerOf(p) ==
  IF p.port # None /\ udp_handlers[p.port] # None
  THEN udp_handlers[p.port] ELSE default_handler

\* The mark lambda.
MarkAgain(h) == Append(touched, h)
Mark(h) == IF h \in Range(touched) THEN touched ELSE Append(touched, h)

\* The end of a loop over the batch.
Step == IF at < Len(batch)
        THEN at' = at + 1 /\ pc' = pc
        ELSE at' = 1 /\ pc' = PhaseAfter[pc]

Dispatch ==
  /\ pc = "dispatch"
  /\ LET p == content[batch[at]]
         h == HandlerOf(p)
     IN  IF h = None
         THEN UNCHANGED <<touched, stats, history>>
         ELSE /\ handled' = Append(handled, p.num)
              /\ unflushed' = [unflushed EXCEPT ![h] = @ \cup {<<batch[at], p>>}]
              /\ stats' = [stats EXCEPT !.dispatched = @ + 1]
              /\ touched' = Mark(h)
  /\ Step
  /\ UNCHANGED <<poolVars, content, queue, submitted, batch, config>>

\* touched[j]->flush()
Flush ==
  /\ pc = "flush"
  /\ IF touched = <<>>
     THEN pc' = PhaseAfter[pc] /\ UNCHANGED <<touched, unflushed>>
     ELSE /\ unflushed' = [unflushed EXCEPT ![Head(touched)] = {}]
          /\ touched' = Tail(touched) /\ pc' = pc
  /\ UNCHANGED <<poolVars, content, queue, submitted, batch, at, config, stats, handled>>

\* The counts at the end of run_once.
Count == [stats EXCEPT !.batches = @ + 1, !.processed = @ + Len(batch)]

\* What is left in batch_ for the next run_once, which starts at n = 0.
KeepLast == <<batch[Len(batch)]>>
StartOver == <<>>

\* pool_.release(batch_.bufs[i])
Release ==
  /\ pc = "release"
  /\ Pool!Release(batch[at])
  /\ Step
  /\ IF at < Len(batch) THEN UNCHANGED <<batch, stats>>
     ELSE batch' = StartOver /\ stats' = Count
  /\ UNCHANGED <<content, queue, submitted, touched, config, history>>

RunOnce == Pop \/ Parse \/ Dispatch \/ Flush \/ Release

Next ==
  \/ \E p \in Ports \cup {None} : Submit(p)
  \/ \E p \in Ports, h \in Handlers \cup {None} : RegisterUdpHandler(p, h)
  \/ \E h \in Handlers \cup {None} : SetDefaultHandler(h)
  \/ RunOnce

\* The thread that calls run_once spins: it never blocks.
Spec == Init /\ [][Next]_vars /\ WF_vars(RunOnce)
-----------------------------------------------------------------------------
\* A handler gets views into the buffers (ParsedPacket holds pointers) and
\* may use them until its flush: until then no buffer it was handed in this
\* batch is back in the pool or holds another packet, whatever the
\* submitting thread does meanwhile.
ViewsLiveUntilFlush ==
  \A h \in Handlers : \A u \in unflushed[h] :
    u[1] \in out /\ content[u[1]] = u[2]

\* run_once flushes each handler it handed a packet to, once, after the last
\* of them: the handlers still to flush are exactly those with packets, none
\* twice, and none is left when it returns.
FlushedOncePerBatch ==
  /\ Range(touched) = {h \in Handlers : unflushed[h] # {}}
  /\ IsInjective(touched)
  /\ Returned => touched = <<>>

\* Every buffer is in the pool, in the queue, or in the part of the batch
\* not yet released, and in one place only.
BuffersConserved ==
  LET held == SubSeq(batch, IF pc = "release" THEN at ELSE 1, Len(batch))
      all == list \o queue \o held
  IN  Len(all) = BufferCount /\ Range(all) = Buffers

\* Packets reach the handlers in the order they were submitted, each at most
\* once, over all batches.
HandledInOrder ==
  \A i \in 1..(Len(handled) - 1) : handled[i] < handled[i + 1]

\* A packet in the queue is processed although the batch may never fill up:
\* run_once takes what there is.
QueuedIsProcessed ==
  \A n \in 1..MaxPackets : submitted >= n ~> stats.processed >= n
=============================================================================
