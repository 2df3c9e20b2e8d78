# TLA+ verification of uxnet

uxnet is a user-space packet stack in C++. This directory holds TLA+ modules of
its parts, TLC configurations that check them on small instances, and TLAPS
proofs for every size. `PROJECT.json` lists components, runs, mutants, the map
from definitions to source lines, findings, hazards and theorems.

## The system

| Part | State | Operations | Interacts with | What is hard |
|---|---|---|---|---|
| BufferPool / FreeStack (`src/buffer_pool.cpp`) | `top_` (generation, index), a link in each descriptor, `size_`, totals | `acquire`, `release` (→ `pop`, `push`), ctor, dtor | every other part; any thread | ABA, retried compare-exchange, counters updated late, a constructor that throws half way |
| SPSCRing (`include/spsc_ring.h`) | `head_`, `tail_`, `slots_` | `push`, `pop`, `size`, `empty` | capture thread → worker | stale reads of the other side's counter, wrap |
| TCP-Lite (`src/tcp_lite.cpp`) | send window (`UnackedQueue`), receive window (`RecvBitmap`, `reasm_`), `pending_ack_` | `send`, `tick`, `on_packet_received`, dtor | BufferPool, UDP, the driver loop | loss, duplication, reordering, damage, wrap, shared pool, re-entrance |
| PacketRing (`src/packet_ring.cpp`) | status word per slot, `current_frame_`, `fd_`, `ring_` | setup, `receive`, `release`, cleanup | kernel | slot ownership, partial failure of setup |
| Single-queue capture (`src/capture.cpp`) | totals, `g_stop` | receive loop | PacketRing | frames before `bind`, interrupt |
| RSSDistributor (`src/rss_distributor.cpp`) | one SPSCRing per queue | `toeplitz`, `submit` | capture thread, workers | key window, flow order, full queue |
| WorkerPool (`src/worker_pool.cpp`) | threads, `stop_`, statistics | worker loop, `record_drop`, `stop` | RSSDistributor, BufferPool | stop with packets queued |
| Multi-queue capture (`src/multiqueue_capture.cpp`) | the loop's buffer and frame | receive, copy, dispatch, release | all of the above | drop paths |
| BatchProcessor (`src/batch_processor.cpp`) | batch, handler table | `run_once`, `dispatch_batch` | RSSDistributor, BufferPool | views must outlive their use, one flush per handler |
| PacketParser (`include/packet_parser.h`) | none | `parse` | capture, workers, batches | header lengths, checksum carries |
| HugePageAllocator (`src/huge_alloc.cpp`) | registry of mappings | `allocate`, `deallocate`, `is_huge`, page counts | BufferPool | the registry lags behind the kernel |
| LatencyHistogram, PerfCounter, PerfScope (`src/perf_counters.cpp`) | buckets, count, sum, max; counters | `record`, `percentile_ns`, `print`; open, start, read, close | benchmarks, tools | bucket boundaries, ranks; unavailable counters |
| NUMA helpers (`src/numa_util.cpp`) | none | `allocate_on_node`, `verify_allocation_node` | BufferPool | a file of starts without ends |
| Tools (`tools/`) | | `perf_baseline`, `pkt_gen`, `numa_info` | perf counters, TSC | what is measured, rate control |

## Modules

| Module | Models |
|---|---|
| `AtomicPool` | what a pool promises: a stack of free buffers, `Acquire` and `Release` in one step |
| `BufferPool` | `BufferPool` and `FreeStack`, one action per shared memory access |
| `BoundedFifo` | what a ring promises: a queue of at most N items |
| `SPSCRing`, `MCSPSCRing` | the ring, with late views of the other side |
| `TcpLiteSession` | the fields and handlers of one TCP-Lite session, as operators |
| `TcpLite`, `MCTcpLite` | two sessions over an unreliable network |
| `TcpLiteSync` | two sessions whose `transmit_` calls into the peer |
| `PacketChecksum` | CRC of a TCP-Lite packet and a wire that flips bits |
| `Pipeline`, `MCPipeline` | the multi-queue capture program: kernel, packet ring, capture thread, queues, workers |
| `Capture` | the single-queue program and the life of its `PacketRing` |
| `BatchProcessor` | `run_once` against a submitting thread |
| `Toeplitz` | the RSS hash, a turn of the inner loop per step |
| `PacketParser` | `parse` and `checksum_valid` |
| `HugePageAllocator`, `MCHugePageAllocator` | the registry, `allocate_on_node`, and pools as their clients |
| `MemInfo` | reading `/proc/meminfo` |
| `LatencyBuckets`, `LatencyHistogram` | bucket arithmetic; record, percentiles, rows |
| `NumaMaps` | `verify_allocation_node` |
| `PerfBaseline`, `PktGen` | the two tools, with `PerfScope` and `PerfCounter` |
| `Words` | 32-bit words as sets of bits |
| `MCAlgorithms` | the loops over data (`PacketParser`, `Toeplitz`, `PacketChecksum`, `NumaMaps`) for TLC: a behaviour runs one of them |
| `MCPrograms` | the smaller programs (`Capture`, `PktGen`, `PerfBaseline`) and `LatencyHistogram` for TLC, in the same way |
| `ProofBasics` | lemmas on `%`, on joined sequences, parts and tails of sequences |
| `BufferPoolProofs`, `SPSCRingProofs`, `TcpSessionProofs`, `TcpLiteProofs`, `PipelineProofs`, `BatchProcessorProofs`, `AlgorithmProofs` | theorems |

Definitions whose name says what is wrong (`BumpGenNever`, `FullOffByOne`,
`MarkAgain`, ...) stand just before the correct one. The specification never
uses them. Each is a plausible bug; with it in place of the correct definition a
property fails, so no property holds vacuously.

### BufferPool

`acquire` and `release` are split at every access another thread can see: load
of `top_` (`Acquire`, `Release`), access to a next link (`PopLink`, `PushLink`),
compare-exchange (`PopCas`, `PushCas`, and the `...Fail` actions, which may also
fail spuriously as the weak form does), `size_` (`PopSize`, `PushSize`), totals
and return. The next link is not atomic in the code: `pop` may read it while
another thread writes it. On the x86-64 build the load gives the old or the new
value, which is what the two orders of the actions give. Accesses are
sequentially consistent; the acquire and release orders of the code make the
link visible with the word that publishes it. `stack` (the list as a sequence)
and `stall` (updates that have overtaken a pop) are history.

The 32- and 64-bit counters are `% GenMod`, `% SizeMod`, `% TotalMod`.
`MaxStall` bounds how many updates overtake one pop between its load and its
compare-exchange. The application releases only buffers it owns (the assertion
in `release`).

### SPSCRing

`head`, `tail` are what their owner knows, `headSeen`, `tailSeen` what the other
side's acquire load returns. `HeadVisible` and `TailVisible` make a store
visible at any later time: that is the release/acquire guarantee and no more.
Writing or reading the slot is a step apart from publishing the counter.

### TcpLiteSession, TcpLite, TcpLiteSync

`TcpLiteSession` holds a session as a record with the fields of the class, and
the steps of its handlers as operators on such a record. A loop of the code
(`pump_tx`, `deliver_in_order`) is written as its result: `k` packets, a run of
`n` payloads. A payload is an interval of the bytes given to `send`, so content
and order can be told apart. Sequence numbers are `% SeqMod` and compared as the
code does (`SignedDiff`).

`TcpLite` puts two of them at the ends of a network. A session is used by one
thread, so a handler is one action: `Handle` is `on_packet_received` (acquire of
the buffer by the driver, `OnAck`, `PumpTx`, `OnData`, `DeliverInOrder`,
release), `Tick` is `Retransmit`, `PumpTx`, `SendAck`. The network is a set:
`Lose` (also a failed checksum), `Duplicate`, any order of `Deliver`. A
retransmission is the packet as first sent, its old ack number included.
`Timeout` marks a packet as due at any time. `DropNoBuffer` is the driver that
finds no buffer for a datagram it has read. `MaxLag` is an assumption on the
network: a datagram is gone once its sender is more than `MaxLag` packets
further, in either direction. Without such a bound a packet delayed for 2^31
packets would be taken for a new one. The driver is the drain loop of
`benchmarks/final_benchmark.cpp`. An echo from the data callback is a `Send`
right after the `Deliver`: both carry the same ack number.

`TcpLiteSync` wires the sessions as `tests/test_tcp_lite.cpp` does: `transmit_`
takes a buffer of the peer's pool and calls its `on_packet_received` before it
returns. A step runs from one call of `transmit_`, `acquire` or `release` to the
next, so that a session can be seen half way through: `Pump` has put a packet
into its slot and called `transmit_`, `Pumped` counts it in `next_seq_` and
`bytes_sent_` only when the call has come back. `TickB` keeps a buffer of A's
pool for the ACK until `Acknowledged`, while A fills the window the ACK has
opened and its data comes back into B; only then does `TickEnds` clear
`pending_ack_`. `pc` and `ticking` say how deep the calls are, and no other call
begins before they have returned.

`PacketChecksum` runs `compute_checksum` and `verify_checksum` on bytes, with
flips anywhere but in `payload_len` (which would change how much is read).

### Pipeline

`Pipeline` composes the parts as `multiqueue_capture.cpp` does. The pool is
`AtomicPool` itself (`Pool!Acquire`, `Pool!Release`), which `BufferPool` is
proved to implement; a queue is a sequence with the operations of `BoundedFifo`,
which `SPSCRing` is proved to implement. A push or pop that works with an old
counter is a push or pop a little earlier: nothing else tells the two threads
the order, since a buffer given back and acquired again carries the counter
with it.

`ring` holds the frame of each slot whose status is `TP_STATUS_USER`; `Arrive`
is the kernel, which loses a packet when its next slot is still the user's and
marks later frames `TP_STATUS_LOSING`. The capture thread (`Cap...`) and each
worker (`Worker...`) take one step per access to something shared. The copy out
of the slot is a step apart from `receive`, because `frame.data` points into the
slot. `CapStop` may come at any turn of the loop (signal or time). A header is
what `Parse` decides about it; the hash is any function of addresses and ports,
given as a constant (`Toeplitz` has its bits). A worker counts its iterations
modulo `CheckEvery` (1000 in the code); it gives its buffer back
(`WorkerRelease`) before it counts the packet (`WorkerCount`). Left out: thread pinning and priority,
`idle_spins`, printing, and the truncation of a frame to the buffer's capacity
(both are 2048 bytes).

### Capture

`capture.cpp` from `socket()` to the end. Each step of the `PacketRing`
constructor may fail (`Fail`); `cleanup` runs from the constructor's handler or
from the destructor. `kern` is the other side: the socket, the mapping, the
slots, and whose packets reach them (`hook`): those of every interface once
`PACKET_RX_RING` is set, those of `iface` after `bind`. The kernel side is
external and modelled from how `receive` reads it: slots are filled in turn, and
`TP_STATUS_LOSING` stays until somebody reads the statistics. Time is a choice:
the duration may be over at any turn, and each turn may report.

### BatchProcessor

`run_once` one loop turn per step, against a thread that acquires, fills and
submits at any moment; the pool is `AtomicPool`, the queue a bounded sequence.
Handlers are registered, replaced and removed between calls. `unflushed` is what
a handler may still be looking at: packets are handed over as views into the
buffers.

### HugePageAllocator, MemInfo

Sizes and addresses count regular pages, `HugePage` of them in a huge one.
`mmap` and the locked update of `registry()` are steps apart, as are the locked
erase and `munmap`. Every `mmap` may fail; `munmap` may fail and must fail when
it would split a huge page. Clients are `BufferPool` objects, on a node
(`allocate_on_node`, no registry) or not, and direct callers of `allocate` with
and without `force_huge`. `lost` is history: pages given up by a step that
failed. That includes the first region of a pool whose second one cannot be
mapped, since the destructor of an object under construction does not run, and
a pool on a node whose region is of huge pages but not a whole number of them:
`free_region` passes the length asked for, the kernel refuses it, and the result
is not looked at. `PagesAccountedFor` says that nothing else leaks.

`MemInfo` reads the words of `/proc/meminfo` as `operator>>` does. `print_stats`
prints sums over the registry and is left out.

### Pure algorithms

`LatencyBuckets` is plain arithmetic, `LatencyHistogram` the object: samples at
a frequency `GhzNum / GhzDen`, percentiles and rows against the bag of samples.
The code multiplies `p * count_` in doubles, the model in integers; for the five
percentiles printed and counts up to 2,000,000 both round down to the same rank
(compared by computation). `Toeplitz` and `PacketChecksum` work on words as sets
of bits and compare with the matrix product and with the division by the
polynomial. `PacketParser` sees a frame as length, ethertype and 16-bit words
and compares with how the frame was made. Frames come as built, with a total
length not filled in (the payload length then wraps, and there is room for a UDP
header), cut off by the capture within or after the IP header (a header of fewer
than 20 bytes is no IPv4 to `parse`, and the frame is valid), or with a bit of
the IP header flipped. The flips leave out the four bits of the header length,
which change what is summed. `NumaMaps` reads lines and then tokens, for an
address in one of the mappings or in none.

### Tools

`PerfBaseline`: `counters_` is a sequence, in which `count` looks for its event.
What a counter has counted is the set of parts of the program that ran while it
was on, each with the event, so that a field can be told to belong to its row
and column. Any counter may fail to open or to be read. `PktGen`: the TSC is a
counter that advances between any two steps; a stalled process is one that
takes no step for a while.

## Runs

| Run | Instance | Shows |
|---|---|---|
| `pool` | 2 threads, 2 buffers, 4 generations, at most 3 overtaking updates | `OneOwner`, `FreeListIntact`; `CountersAccountForAll`: `size_` and the totals are off by the operations under way only; refinement of `AtomicPool`; `LockFree`: who never returns is overtaken for ever |
| `ring` | 4 slots, counters mod 8, 2 items, stale reads | `NoSlotRace`, refinement of `BoundedFifo`, `EverythingIsPopped` |
| `tcp_both_ways` | window 2, pool 2, numbers mod 6, lag 3, A sends 2 packets, B 1, A may be destroyed | `InOrder`, `PoolConserved`, `ReassemblyMatchesSender`, `NoRetreat` |
| `tcp_wrap` | window 2, pool 3, numbers mod 6, lag 3, 13 bytes in packets of at most 2 | `WindowsAgree` and `SlotsMatchWindow` across the wrap, `AllDelivered` |
| `tcp_sync` | window 4, pool 5, numbers mod 12, 6 packets, a wire that drops | `SyncSafe`: order, slots and pools hold at every point of the nested calls; `SyncDelivered` |
| `tcp_sync_ack` | the same with 7 packets in one `send` | `AckWithinOneTick` is violated, see Findings |
| `pipeline` | 2 slots, 2 buffers, 2 queues of 1, 3 packets of 4 kinds, stop checked every 2nd iteration | `EachBufferInOnePlace`, `RingInStep`, `FlowsInOrder`, `EveryPacketAccountedFor`, `StopReturns`, `QueuedIsHandled` |
| `batch` | batches of 2, 2 buffers, queue of 2, 4 packets, 2 ports, 2 handlers | `ViewsLiveUntilFlush`, `FlushedOncePerBatch`, `BuffersConserved`, `HandledInOrder`, `QueuedIsProcessed` |
| `memory` | 2 threads, 7 pages, huge page = 2, 3 huge pages configured, 4 kinds of client | `PagesAccountedFor`, `RegistryMatchesKernel`, `PoolsAreTracked` |
| `memory_available` | the same | `AvailableIsFree` is violated, see Findings |
| `algorithms` | 19 frames as built, 15 cut short, 500 with one bit flipped; 8 tuples, the 4 published vectors among them; a data packet with up to 2 flips; 2 mappings and a target among 5 addresses, 2 nodes | `FramesParsed`, `OnesComplementSum`, `DigestsAreExact`, `NodeIsTheRightOne` |
| `programs` | 4 samples at the boundaries of the buckets, 110 samples of two values; capture with 3 slots, 6 packets and a failure at any step; `pkt_gen` at 7 cycles per second and 4 rates; `perf_baseline` with 3 counters and 5 pages | `SamplesAccountedFor`, `CaptureAccountsForAll`, `GeneratorNeverAhead`, `BaselineComparesRight`, `WaitsAreEnded` |

Bounds. With two buffers one thread can stall in `pop` while the other pops both
and pushes one back (ABA): three overtaking updates bring the first buffer back
to the top with another link. Two threads keep the liveness check small; the
safety properties of this run are theorems for any number of threads.
Four slots with counters mod 8 wrap both the slot index and the counter. A
window of two fills and moves on, and its second packet may wait beyond a gap.
Mod 6 is the least multiple of a window of two that signed comparison can work
with; lag 3 is half of it, the most the comparison can bear; seven packets pass
the wrap. With a pool of two every buffer may be unacknowledged, with three the
driver always finds one. In the pipeline three packets overflow two slots, fill
a queue of one, empty a pool of two and come round to the first slot and the
first buffer again. Four packets in batches of two use every buffer twice.
Seven pages hold one whole pool and part of a second client, so that mappings
succeed, fall back and run out; a region of three pages is not a whole number of
huge pages of two. `capture` sees twice as many packets as it has slots. Beyond
100 samples p99 is not the maximum any more. Two flips keep the run small;
nothing is claimed about more. The rates of `pkt_gen` include one above the TSC
frequency (interval 0) and two that do not divide it.

Symmetry over the threads is used in `memory` and `memory_available`, which check
no liveness. Deadlock is checked in every run: a program
that has ended and an instance that has used up its bound stutter in a step of
their own.

Fairness. `pool`: a thread inside an operation keeps running, and a
compare-exchange that could succeed again and again does not fail spuriously for
ever; no thread has to start an operation. `ring`: stores become visible, a
begun push ends, the consumer polls (the worker loop never blocks). `tcp_wrap`
and `tcp_sync`: the driver loop calls `tick` and reads the socket, calls return,
timers expire; the properties assume that from some moment on nothing is lost.
`pipeline`: the capture thread and the workers never block, so each goes on;
neither packets nor a stop have to come. `batch`: `run_once` is called again and
again and never blocks. `programs`: the main thread of `capture` and the process
of `pkt_gen` are scheduled and time passes; packets, interrupts and failures may
stay away.

## Findings

`tcp_sync_ack`. `tick` clears `pending_ack_` after `transmit_` returns. With the
synchronous wiring of the tests, data that arrives inside that call loses its
ACK and waits for a retransmission, against "no delayed-ACK batching beyond one
tick" (`include/tcp_lite.h:33`). `SyncDelivered` holds all the same.

`memory_available`. `read_meminfo_field` reads name, value and unit, but the
`HugePages_` lines have no unit. `HugePages_Free:` is taken for the unit of the
line before, the next value cannot be read, and `available_huge_pages` returns 0
whatever is free, against "/proc/meminfo HugePages_Free"
(`include/huge_alloc.h:23`).

Other places where the source and its comments part, met while modelling. The
models do what the code does; no run is about them.

* The comment in `FreeStack::pop` calls a stale `old` safe because a competing
  pop bumps the generation. The generation has 32 bits: after exactly 2^32
  updates the word is the same again. The theorems on the pool carry the exact
  condition, fewer overtaking updates than generations.
* Unacknowledged packets and incoming datagrams of a TCP-Lite session share one
  pool. When it is no larger than the window, all buffers may be unacknowledged
  and each ACK is dropped for want of a buffer; "retry next tick" then never
  succeeds. `AllDelivered` is therefore checked with a larger pool.
  `final_benchmark.cpp` uses 128 buffers with a window of 256, but never has
  that much in flight.
* The parser's comment says "Drop IPv4 packets whose header checksum does not
  verify", but `parse` only clears `valid`, and neither the capture loop nor the
  workers look at it: the callback gets the packet. `Pipeline` does the same.
* `PacketRing` installs the ring before `bind`, so slots fill with packets of
  every interface before "packets start filling the ring now".
* `TP_STATUS_LOSING` stays set after the first overflow because nobody reads
  `PACKET_STATISTICS`; `frames_dropped` then counts every frame.
* The fallback of `HugePageAllocator::allocate` returns a pointer aligned to
  regular pages; the header promises `HUGE_PAGE_SIZE`.
* `verify_allocation_node` judges an address that is in no mapping by the mapping
  below it, where there is one.

## Proofs

Each safety theorem names an inductive invariant, stronger than the property,
and has a lemma for each action that keeps it.

`BufferPoolProofs`. For every finite set of threads, number of buffers and
counter width (`PoolAssumption`, `ThreadsAssumption`), assuming
`MaxStall < GenMod` (`StallBounded`): type correctness, `OneOwner`,
`FreeListIntact`, `StaleOldFailsCas`, `HandedOutEmpty`, `ListedLinksFrozen`,
`CountersAccountForAll`, and that the pool implements `AtomicPool`. `OneOwner`
is not inductive: it needs to know that a pop that can win has not been
overtaken. The invariant `IInv` adds `PopWindows` (`top_` is `stall` generations
ahead of `old`; with `stall = 0` it is the same word and the link read is
current) and `Hands` (a push about to commit has linked its buffer to the word
it expects). `ModDistinct` turns `0 < stall < GenMod` into different
generations, so that a stale compare-exchange fails (`PopCasIsFresh`). The
counters are compared modulo their width with numbers of threads at a label
(`SizeCounted`, `TotalsCounted`); a step moves one thread, which changes each
such number by at most one (`CountAfterMove`), and the wrap cancels out.

`SPSCRingProofs`. For every capacity, counter width (a multiple of the capacity,
and larger) and set of items (`RingAssumption`): type correctness, `NoSlotRace`,
`SizesBracketContent` and the refinement of `BoundedFifo`. The invariant is
`Order`: going round the circle of counters one meets `headSeen`, `head`,
`tailSeen`, `tail` in this order within one capacity.

`TcpSessionProofs` and `TcpLiteProofs`. For every window, width of the sequence
numbers (even, a multiple of the window and more than two of them), payload,
pool, numbers of bytes, and sessions that may be destroyed (`SessionAssumption`,
`TcpAssumption`), on a network whose datagrams lag by at most half the width
(`LagAssumption`; the signed comparison of the code means nothing beyond): type
correctness, `InOrder`, `WindowsAgree`, `SlotsMatchWindow`,
`ReassemblyMatchesSender`, `PoolConserved` and the action property `NoRetreat`.
A sequence number does not say which packet it stands for once it has wrapped.
The invariant `TcpInv` says that there are histories that do: `H`, the payload
of every packet a session has made, by its number, and `U`, how many of them
have been acknowledged. Relative to them `Sender` says what `unacked_`,
`snd_una_` and the pool hold, `Receiver` what has been delivered and what
`reasm_` keeps, `PacketOK` and `Fresh` what a datagram on its way may be; all
sequence numbers are those counts modulo the width. `SignedDiffIs` and
`SeqDiffSmall` show that within the window and the lag the comparisons of the
code compare the counts. `TcpSessionProofs` follows one session through the
operators a handler is made of (`PumpTx`, `OnAck`, `OnData`, `DeliverInOrder`,
`Retransmit`, `SendAck`), with the loops as they are in the model, for any
number of turns; `TcpLiteProofs` puts the two sessions and the network together.
The properties then follow without looking at steps again, `NoRetreat`
from how far a step may move `U` and what is delivered (`Advances`).

`PipelineProofs`. For every number of slots, buffers, queues and packets, every
kind of traffic and every hash (`PipelineAssumption`, `HashAssumption`,
`NoneAssumption`), in three stages:

* `TypeOK` and `RingInStep`. The invariant `StepInv` adds `Hands` (at which
  point of its loop a thread holds a buffer) and `RingInv`: the occupied slots
  are the `k` slots from `current_frame_` on, the kernel stands right behind
  them, and their packets are in the order of arrival.
* `EachBufferInOnePlace`. The invariant `Placed` says that no buffer occurs
  twice in the pool, in the queues or in the workers' hands (`NoneTwice`), nor
  in two of these (`Apart`), and that none is missing (`NoneMissing`). Five
  kinds of step move a buffer, with a lemma each.
* `FlowsInOrder`. The invariant follows a packet from the slot to the callback:
  what a worker has seen, has in hand and has queued comes in this order
  (`FlowInv`), and what still waits in the slots came later than all of it
  (`FreshInv`). It needs `Placed`: a queued buffer is not filled again.

`BatchProcessorProofs`. For every number of buffers, queue and batch size, set
of ports and of handlers and number of packets (`BatchAssumption`):
`ViewsLiveUntilFlush`, `HandledInOrder`, `FlushedOncePerBatch` and
`BuffersConserved`. The invariant `BatchInv` says where `run_once` is in its
batch (`Phases`), that pool, queue and the part of the batch not given back hold
every buffer once (`Placed`), that the handlers to flush are those with views
(`Marked`), and that the numbers of the packets handled, left in the batch and
queued increase in this order (`Sorted`).

`AlgorithmProofs`. For every latency: it falls into the bucket chosen and into
no other, buckets are sorted, the middle of a bucket is within half a step below
1 ms, no bucket is split between two rows. For headers of every length and
content the loops of `checksum_valid` compute the one's-complement test
(`OnesComplementSum`, from the invariant `FoldInv`: each fold keeps the sum
modulo 65535 and keeps it positive).

Only model-checked:

* liveness (`LockFree`, `EverythingIsPopped`, `AllDelivered`, `SyncDelivered`,
  `StopReturns`, `QueuedIsHandled`, `QueuedIsProcessed`, `WaitsAreEnded`):
  fairness and `ENABLED` are beyond the prover;
* `EveryPacketAccountedFor` and `SamplesAccountedFor`: sums over queues or buckets
  are folds, and what a fold computes needs induction over data, which the
  prover does not do;
* `FramesParsed`, `DigestsAreExact` and `NodeIsTheRightOne`: they compare a loop
  with a recursive definition of what it should compute, or with given inputs;
* `SyncSafe`, `PagesAccountedFor`, `RegistryMatchesKernel`, `PoolsAreTracked`,
  `CaptureAccountsForAll`, `GeneratorNeverAhead` and `BaselineComparesRight`: no
  proof has been written.
  For `SyncSafe` the invariant would have to describe a session in the middle of
  a call; for the allocator and the programs the argument would be of the kind
  given above for the pool and the batches.

## Not modelled

* `include/rdtsc.h`: one instruction, and a calibration against the wall clock.
  Modules that use time take it as a choice, a constant or a counter.
* TCP-Lite: the RTT estimate and `retransmits_` (reported, never used to decide),
  `make_syn` (never transmitted), data in both directions over the synchronous
  wiring (the nesting is then bounded only by the pools), socket set-up.
* `numa_node_count`, `cpu_to_node`, `current_numa_node` and `tools/numa_info.cpp`:
  a file or a system call each, printed.
* `HugePageAllocator::print_stats`, event numbers and names of `PerfCounter`, the
  layout of what `PerfScope`, `LatencyHistogram` (its bars) and the tools print.
* Pinning, naming and priority of threads.
* `benchmarks/`: measurement drivers. The drain loop of `final_benchmark.cpp` is
  the environment of `TcpLite`.
