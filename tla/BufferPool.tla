----------------------------- MODULE BufferPool -----------------------------
(***************************************************************************)
(* The buffer pool of src/src/buffer_pool.cpp: a fixed set of buffers whose *)
(* free ones form a Treiber stack (FreeStack) linked through a field of the *)
(* descriptors themselves.  Any number of threads call acquire() and        *)
(* release().  One action is one access to memory that another thread may   *)
(* touch, so every interleaving of loads, link writes and compare-exchanges *)
(* is a behaviour.  The plain (non-atomic) read of a next link may race     *)
(* with the write of that link; on the x86-64 build an aligned 32-bit load  *)
(* returns either the old or the new value, which are the two orders of the *)
(* PopLink and PushLink actions.                                            *)
(***************************************************************************)
EXTENDS Integers, Sequences, FiniteSets

CONSTANTS
  Threads,      \* the threads that use the pool
  BufferCount,  \* buffer_count_
  GenMod,       \* the generation is 32 bits wide: 2^32 in the code
  SizeMod,      \* size_ is 32 bits wide: 2^32 in the code
  TotalMod,     \* the total_* counters are 64 bits wide: 2^64 in the code
  MaxStall      \* updates of top_ by others while one pop() sits between its
                \* load of top_ and its compare-exchange

ASSUME PoolAssumption ==
  /\ BufferCount \in Nat \ {0}
  /\ GenMod \in Nat \ {0, 1}
  /\ SizeMod \in Nat \ {0, 1}
  /\ TotalMod \in Nat \ {0, 1}
  /\ MaxStall \in Nat

(* What the counters are compared with are numbers of threads. *)
ASSUME ThreadsAssumption == IsFiniteSet(Threads)

VARIABLES
  top,              \* top_: generation and index packed in one 64-bit word
  link,             \* next_of(descriptors_[i])
  size,             \* size_
  total_acquires, total_releases, total_exhausted,
  dirty,            \* the buffers whose len is not 0
  held,             \* the buffers whose pointers the application owns
  pc,               \* where each thread is inside acquire() or release()
  old,              \* its local `old`
  next,             \* its local `next` (pop)
  buf,              \* the buffer it is pushing, or has popped
  stack,            \* history: the free list, bottom first
  stall             \* history: updates made since this pop() loaded top_

vars == <<top, link, size, total_acquires, total_releases, total_exhausted,
          dirty, held, pc, old, next, buf, stack, stall>>

totals == <<total_acquires, total_releases, total_exhausted>>

-----------------------------------------------------------------------------
Buffers == 0..(BufferCount - 1)

(* 0xFFFFFFFF, an index no buffer has. *)
kEmpty == -1

Index == Buffers \cup {kEmpty}

pack(g, i) == [gen |-> g, idx |-> i]

BumpGenNever(word) == word.gen

BumpGen(word) == (word.gen + 1) % GenMod

(* compare_exchange_weak on top_ with `old` as the expected value. *)
CasMatchIndexOnly(t) == top.idx = old[t].idx

CasMatch(t) == top = old[t]

(* A failed compare-exchange writes the current word to `old`. *)
CasReloadForgotten(t) == old

CasReload(t) == [old EXCEPT ![t] = top]

(* size_.fetch_sub(1) wraps: it may run before the fetch_add of the push    *)
(* whose buffer was popped.                                                 *)
SizeDec(n) == (n - 1) % SizeMod

SizeIncForgotten(n) == n

SizeInc(n) == (n + 1) % SizeMod

TotalInc(n) == (n + 1) % TotalMod

InPopWindow(t) == pc[t] \in {"pop_link", "pop_cas"}

(* History: thread t updates top_ while other pops are under way. *)
OneMoreUpdate(t) ==
  /\ \A u \in Threads \ {t} : InPopWindow(u) => stall[u] < MaxStall
  /\ stall' = [u \in Threads |-> IF u # t /\ InPopWindow(u) THEN stall[u] + 1
                                 ELSE IF u = t THEN 0 ELSE stall[u]]

(* The thread returns to its caller; its locals go out of scope. *)
Return(t) ==
  /\ pc' = [pc EXCEPT ![t] = "idle"]
  /\ old' = [old EXCEPT ![t] = pack(0, kEmpty)]
  /\ next' = [next EXCEPT ![t] = kEmpty]
  /\ buf' = [buf EXCEPT ![t] = kEmpty]
  /\ stall' = [stall EXCEPT ![t] = 0]

-----------------------------------------------------------------------------
(* The constructor pushes the buffers 0, 1, ... in order. *)
Init ==
  /\ top = pack(BufferCount % GenMod, BufferCount - 1)
  /\ link = [b \in Buffers |-> b - 1]
  /\ size = BufferCount % SizeMod
  /\ total_acquires = 0 /\ total_releases = 0 /\ total_exhausted = 0
  /\ dirty = {} /\ held = {}
  /\ pc = [t \in Threads |-> "idle"]
  /\ old = [t \in Threads |-> pack(0, kEmpty)]
  /\ next = [t \in Threads |-> kEmpty]
  /\ buf = [t \in Threads |-> kEmpty]
  /\ stack = [i \in 1..BufferCount |-> i - 1]
  /\ stall = [t \in Threads |-> 0]

(* acquire() calls pop(), which loads top_. *)
Acquire(t) ==
  /\ pc[t] = "idle"
  /\ pc' = [pc EXCEPT ![t] = "pop_link"]
  /\ old' = [old EXCEPT ![t] = top]
  /\ stall' = [stall EXCEPT ![t] = 0]
  /\ UNCHANGED <<top, link, size, totals, dirty, held, next, buf, stack>>

(* index == kEmpty: pop() fails and acquire() returns nullptr. *)
PopEmpty(t) ==
  /\ pc[t] = "pop_link" /\ old[t].idx = kEmpty
  /\ total_exhausted' = TotalInc(total_exhausted)
  /\ Return(t)
  /\ UNCHANGED <<top, link, size, total_acquires, total_releases, dirty, held,
                 stack>>

(* next = next_of(descriptors_[index]): the list may have moved on. *)
PopLink(t) ==
  /\ pc[t] = "pop_link" /\ old[t].idx # kEmpty
  /\ next' = [next EXCEPT ![t] = link[old[t].idx]]
  /\ pc' = [pc EXCEPT ![t] = "pop_cas"]
  /\ UNCHANGED <<top, link, size, totals, dirty, held, old, buf, stack, stall>>

PopCas(t) ==
  /\ pc[t] = "pop_cas" /\ CasMatch(t)
  /\ top' = pack(BumpGen(old[t]), next[t])
  /\ buf' = [buf EXCEPT ![t] = old[t].idx]
  /\ pc' = [pc EXCEPT ![t] = "pop_size"]
  /\ stack' = SubSeq(stack, 1, Len(stack) - 1)
  /\ OneMoreUpdate(t)
  /\ UNCHANGED <<link, size, totals, dirty, held, old, next>>

(* Also without a competitor: the weak form may fail for no reason. *)
PopCasFail(t) ==
  /\ pc[t] = "pop_cas"
  /\ old' = CasReload(t)
  /\ pc' = [pc EXCEPT ![t] = "pop_link"]
  /\ stall' = [stall EXCEPT ![t] = 0]
  /\ UNCHANGED <<top, link, size, totals, dirty, held, next, buf, stack>>

(* size_.fetch_sub(1), after the buffer has left the list. *)
PopSize(t) ==
  /\ pc[t] = "pop_size"
  /\ size' = SizeDec(size)
  /\ pc' = [pc EXCEPT ![t] = "acquired"]
  /\ UNCHANGED <<top, link, totals, dirty, held, old, next, buf, stack, stall>>

(* total_acquires_ is counted and the caller gets the descriptor. *)
AcquireReturn(t) ==
  /\ pc[t] = "acquired"
  /\ total_acquires' = TotalInc(total_acquires)
  /\ held' = held \cup {buf[t]}
  /\ Return(t)
  /\ UNCHANGED <<top, link, size, total_releases, total_exhausted, dirty, stack>>

(* The owner of a buffer writes a packet into it. *)
Fill(b) ==
  /\ b \in held
  /\ dirty' = dirty \cup {b}
  /\ UNCHANGED <<top, link, size, totals, held, pc, old, next, buf, stack, stall>>

(* buf->len = 0 *)
LenCleared(b) == dirty \ {b}

(* release() may be called by another thread than the one that acquired b. *)
(* It clears len, which only the owner touches, and push() loads top_.     *)
Release(t, b) ==
  /\ pc[t] = "idle" /\ b \in held
  /\ held' = held \ {b}
  /\ dirty' = LenCleared(b)
  /\ buf' = [buf EXCEPT ![t] = b]
  /\ old' = [old EXCEPT ![t] = top]
  /\ pc' = [pc EXCEPT ![t] = "push_link"]
  /\ UNCHANGED <<top, link, size, totals, next, stack, stall>>

PushLink(t) ==
  /\ pc[t] = "push_link"
  /\ link' = [link EXCEPT ![buf[t]] = old[t].idx]
  /\ pc' = [pc EXCEPT ![t] = "push_cas"]
  /\ UNCHANGED <<top, size, totals, dirty, held, old, next, buf, stack, stall>>

PushCas(t) ==
  /\ pc[t] = "push_cas" /\ CasMatch(t)
  /\ top' = pack(BumpGen(old[t]), buf[t])
  /\ pc' = [pc EXCEPT ![t] = "push_size"]
  /\ stack' = Append(stack, buf[t])
  /\ OneMoreUpdate(t)
  /\ UNCHANGED <<link, size, totals, dirty, held, old, next, buf>>

(* The retry goes back to the head of the loop, which rewrites the link. *)
PushRetrySkipsLink == "push_cas"

PushRetry == "push_link"

PushCasFail(t) ==
  /\ pc[t] = "push_cas"
  /\ old' = CasReload(t)
  /\ pc' = [pc EXCEPT ![t] = PushRetry]
  /\ UNCHANGED <<top, link, size, totals, dirty, held, next, buf, stack, stall>>

(* size_.fetch_add(1), after the buffer can already be popped again. *)
PushSize(t) ==
  /\ pc[t] = "push_size"
  /\ size' = SizeInc(size)
  /\ pc' = [pc EXCEPT ![t] = "released"]
  /\ UNCHANGED <<top, link, totals, dirty, held, old, next, buf, stack, stall>>

ReleaseReturn(t) ==
  /\ pc[t] = "released"
  /\ total_releases' = TotalInc(total_releases)
  /\ Return(t)
  /\ UNCHANGED <<top, link, size, total_acquires, total_exhausted, dirty, held,
                 stack>>

-----------------------------------------------------------------------------
CasSuccess(t) == PopCas(t) \/ PushCas(t)

(* The steps of an operation that has begun. *)
Step(t) ==
  \/ PopEmpty(t) \/ PopLink(t) \/ PopCasFail(t) \/ PopSize(t)
  \/ AcquireReturn(t)
  \/ PushLink(t) \/ PushCasFail(t) \/ PushSize(t) \/ ReleaseReturn(t)
  \/ CasSuccess(t)

Next ==
  \/ \E t \in Threads : Step(t)
  \/ \E t \in Threads : Acquire(t)
  \/ \E t \in Threads, b \in Buffers : Release(t, b)
  \/ \E b \in Buffers : Fill(b)

Spec == Init /\ [][Next]_vars

(* A thread inside acquire() or release() keeps running, and a compare-     *)
(* exchange that could succeed again and again does not fail spuriously for *)
(* ever.  Nothing obliges a thread to start an operation.                   *)
Fairness == \A t \in Threads : WF_vars(Step(t)) /\ SF_vars(CasSuccess(t))

FairSpec == Spec /\ Fairness

-----------------------------------------------------------------------------
(* Type correctness; size_ stays a 32-bit value although fetch_sub may run  *)
(* while it is 0.                                                           *)
Labels == {"idle", "pop_link", "pop_cas", "pop_size", "acquired",
           "push_link", "push_cas", "push_size", "released"}

Words == [gen : 0..(GenMod - 1), idx : Index]

TypeOK ==
  /\ top \in Words
  /\ link \in [Buffers -> Index]
  /\ size \in 0..(SizeMod - 1)
  /\ total_acquires \in 0..(TotalMod - 1)
  /\ total_releases \in 0..(TotalMod - 1)
  /\ total_exhausted \in 0..(TotalMod - 1)
  /\ dirty \subseteq Buffers /\ held \subseteq Buffers
  /\ pc \in [Threads -> Labels]
  /\ old \in [Threads -> Words]
  /\ next \in [Threads -> Index]
  /\ buf \in [Threads -> Index]
  /\ stack \in Seq(Buffers)
  /\ stall \in [Threads -> 0..MaxStall]

(* The thread is the only one to know this buffer. *)
InHand(t, b) ==
  buf[t] = b /\ pc[t] \in {"pop_size", "acquired", "push_link", "push_cas"}

Listed(b) == \E i \in 1..Len(stack) : stack[i] = b

(* A buffer is never given to two owners and never lost: at every moment it *)
(* is on the free list once, or owned by the application, or in the hands   *)
(* of exactly one thread inside acquire() or release().  A stale pop() that *)
(* won its compare-exchange (the ABA case) would break this.                *)
OneOwner ==
  /\ \A i, j \in 1..Len(stack) : stack[i] = stack[j] => i = j
  /\ \A b \in Buffers :
       /\ Listed(b) => b \notin held
       /\ \A t \in Threads : InHand(t, b) => ~Listed(b) /\ b \notin held
       /\ \A t, u \in Threads : InHand(t, b) /\ InHand(u, b) => t = u
       /\ Listed(b) \/ b \in held \/ \E t \in Threads : InHand(t, b)

(* Following the next links from top_ visits exactly the free buffers, in   *)
(* the reverse of the order in which they were pushed: no interleaving of   *)
(* link writes and compare-exchanges cuts the list or ties a knot in it.    *)
FreeListIntact ==
  /\ top.idx = IF stack = <<>> THEN kEmpty ELSE stack[Len(stack)]
  /\ \A i \in 1..Len(stack) :
       link[stack[i]] = IF i = 1 THEN kEmpty ELSE stack[i - 1]

(* A compare-exchange of pop() can succeed only on the word it loaded with  *)
(* the link it read: while top_ equals `old`, the `next` it is about to     *)
(* install is still the link of the first buffer (buffer_pool.cpp:32).      *)
StaleOldFailsCas ==
  \A t \in Threads :
    pc[t] = "pop_cas" /\ CasMatch(t) => next[t] = link[old[t].idx]

(* free_count() is exact when no operation is between its compare-exchange  *)
(* and its update of size_, and is otherwise off by exactly the operations  *)
(* that are (modulo 2^32: it may be -1 for a moment).                       *)
At(label) == {t \in Threads : pc[t] = label}

SizeAccountsForList ==
  (size + Cardinality(At("push_size")) - Cardinality(At("pop_size"))
        - Len(stack)) % SizeMod = 0

(* total_acquires() - total_releases() is the number of buffers that are    *)
(* out, counting those whose release() has not yet been counted.            *)
Releasing == At("push_link") \cup At("push_cas") \cup At("push_size")
               \cup At("released")

TotalsAccountForOwners ==
  (total_acquires - total_releases - Cardinality(held)
     - Cardinality(Releasing)) % TotalMod = 0

(* Whatever the interleaving, the counters that statistics read are off by  *)
(* the operations under way and by nothing else, although each is updated   *)
(* apart from the list (buffer_pool.cpp:38, 111).                           *)
CountersAccountForAll == SizeAccountsForList /\ TotalsAccountForOwners

(* acquire() hands out only buffers with len = 0, whoever filled and        *)
(* released them before.                                                    *)
HandedOutEmpty == dirty \subseteq held

(* A link is written only while its buffer is off the list, so no list that *)
(* a pop() can still commit to changes under it.                            *)
ListedLinksFrozen == [][\A b \in Buffers : Listed(b) => link'[b] = link[b]]_vars

(* The pool implements AtomicPool: every winning compare-exchange is one    *)
(* atomic acquire or release of the buffer that is really first on the      *)
(* list, and no other step moves a buffer.                                  *)
Out == {b \in Buffers : b \in held \/ \E t \in Threads : InHand(t, b)}

Pool == INSTANCE AtomicPool WITH list <- stack, out <- Out

ImplementsAtomicPool == Pool!Spec

(* Lock freedom: a thread can stay inside an operation for ever only if     *)
(* others keep completing compare-exchanges.                                *)
LockFree ==
  \A t \in Threads :
    (<>[](pc[t] # "idle")) => []<><<\E u \in Threads \ {t} : CasSuccess(u)>>_vars

=============================================================================
