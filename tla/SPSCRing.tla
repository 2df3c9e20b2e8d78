------------------------------ MODULE SPSCRing ------------------------------
(***************************************************************************)
(* The single-producer single-consumer ring of src/include/spsc_ring.h.     *)
(* The producer owns tail_, the consumer owns head_; each reads the other's *)
(* index with an acquire load and publishes its own with a release store.   *)
(* A store reaches the other core some time after it is made, in program    *)
(* order: headSeen and tailSeen are the last values that have, so every     *)
(* load may be stale.  Slot accesses are plain memory accesses.             *)
(***************************************************************************)
EXTENDS Integers, Sequences

CONSTANTS
  Values,    \* the items
  NoItem,    \* what an unwritten slot holds
  N,         \* capacity
  CtrMod     \* head_ and tail_ are size_t: 2^64 in the code

(* static_assert: N is a power of two, so it divides 2^64. *)
ASSUME RingAssumption ==
  /\ N \in Nat \ {0}
  /\ CtrMod \in Nat
  /\ CtrMod > N
  /\ CtrMod % N = 0
  /\ NoItem \notin Values

VARIABLES
  head, tail,           \* head_ and tail_ as their owners know them
  headSeen, tailSeen,   \* as the other thread's loads return them
  slots,                \* slots_
  ppc, item,            \* the producer: where it is in push(), and its argument
  cpc, got              \* the consumer: where it is in pop(), and its result

vars == <<head, tail, headSeen, tailSeen, slots, ppc, item, cpc, got>>

producer == <<tail, ppc, item>>
consumer == <<head, cpc, got>>

-----------------------------------------------------------------------------
Counters == 0..(CtrMod - 1)

Inc(c) == (c + 1) % CtrMod

(* size_t subtraction *)
Sub(a, b) == (a - b) % CtrMod

SlotModMask(c) == c % (N - 1)

(* c & (N - 1) *)
Slot(c) == c % N

FullOffByOne == Sub(tail, headSeen) = N + 1

Full == Sub(tail, headSeen) = N

EmptyOffByOne == head = tailSeen \/ Inc(head) = tailSeen

Empty == head = tailSeen

Init ==
  /\ head = 0 /\ tail = 0 /\ headSeen = 0 /\ tailSeen = 0
  /\ slots = [s \in 0..(N - 1) |-> NoItem]
  /\ ppc = "idle" /\ item = NoItem
  /\ cpc = "idle" /\ got = NoItem

(* push(v) loads both indices and passes the full check. *)
Push(v) ==
  /\ ppc = "idle" /\ ~Full
  /\ ppc' = "write" /\ item' = v
  /\ UNCHANGED <<tail, headSeen, tailSeen, slots, consumer>>

(* push(v) returns false. *)
PushFull ==
  /\ ppc = "idle" /\ Full
  /\ UNCHANGED vars

PushWrite ==
  /\ ppc = "write"
  /\ slots' = [slots EXCEPT ![Slot(tail)] = item]
  /\ ppc' = "publish"
  /\ UNCHANGED <<tail, item, headSeen, tailSeen, consumer>>

PushPublish ==
  /\ ppc = "publish"
  /\ tail' = Inc(tail)
  /\ ppc' = "idle" /\ item' = NoItem
  /\ UNCHANGED <<headSeen, tailSeen, slots, consumer>>

(* pop() loads both indices and finds an item. *)
Pop ==
  /\ cpc = "idle" /\ ~Empty
  /\ cpc' = "read"
  /\ UNCHANGED <<head, got, headSeen, tailSeen, slots, producer>>

(* pop() returns false. *)
PopEmpty ==
  /\ cpc = "idle" /\ Empty
  /\ UNCHANGED vars

PopRead ==
  /\ cpc = "read"
  /\ got' = slots[Slot(head)]
  /\ cpc' = "publish"
  /\ UNCHANGED <<head, headSeen, tailSeen, slots, producer>>

PopPublish ==
  /\ cpc = "publish"
  /\ head' = Inc(head)
  /\ cpc' = "idle"
  /\ UNCHANGED <<got, headSeen, tailSeen, slots, producer>>

(* A store of head_ (of tail_) becomes visible to the other core. *)
HeadVisible ==
  /\ headSeen # head
  /\ headSeen' = Inc(headSeen)
  /\ UNCHANGED <<tailSeen, slots, producer, consumer>>

TailVisible ==
  /\ tailSeen # tail
  /\ tailSeen' = Inc(tailSeen)
  /\ UNCHANGED <<headSeen, slots, producer, consumer>>

Next ==
  \/ \E v \in Values : Push(v)
  \/ PushFull \/ PushWrite \/ PushPublish
  \/ Pop \/ PopEmpty \/ PopRead \/ PopPublish
  \/ HeadVisible \/ TailVisible

Spec == Init /\ [][Next]_vars

(* Stores reach the other core; the consumer polls for ever and finishes    *)
(* each pop, and a producer finishes the push it has begun.                 *)
Fairness ==
  /\ WF_vars(HeadVisible) /\ WF_vars(TailVisible)
  /\ WF_vars(Pop \/ PopRead \/ PopPublish)
  /\ WF_vars(PushWrite \/ PushPublish)

FairSpec == Spec /\ Fairness

-----------------------------------------------------------------------------
(* Type correctness of the ring and of both threads' locals. *)
TypeOK ==
  /\ head \in Counters /\ tail \in Counters
  /\ headSeen \in Counters /\ tailSeen \in Counters
  /\ slots \in [0..(N - 1) -> Values \cup {NoItem}]
  /\ ppc \in {"idle", "write", "publish"} /\ item \in Values \cup {NoItem}
  /\ cpc \in {"idle", "read", "publish"} /\ got \in Values \cup {NoItem}

(* The producer never writes a slot the consumer is reading, although each  *)
(* decided with an index of the other that may be out of date.              *)
NoSlotRace == ~(ppc = "write" /\ cpc = "read" /\ Slot(tail) = Slot(head))

(* Seen from the consumer size() never exceeds what is in the ring, seen    *)
(* from the producer it is never less, and neither wraps: both lie in 0..N  *)
(* although the counters themselves wrap around 2^64.                       *)
SizesBracketContent ==
  /\ Sub(tailSeen, head) <= Sub(tail, head)
  /\ Sub(tail, head) <= Sub(tail, headSeen)
  /\ Sub(tail, headSeen) <= N

(* The ring is a FIFO queue of at most N items: nothing is lost, doubled or *)
(* reordered, no unwritten or overwritten slot is ever returned.  A push    *)
(* takes effect at the store of tail_, a pop when it reads its slot.        *)
Content == [i \in 1..Sub(tail, head) |-> slots[Slot(head + i - 1)]]

Queue == IF cpc = "publish" THEN Tail(Content) ELSE Content

Fifo == INSTANCE BoundedFifo WITH q <- Queue

ImplementsFifo == Fifo!Spec

(* Every item that was pushed is popped: head_ reaches every value that     *)
(* tail_ has had.                                                           *)
EverythingIsPopped == \A c \in Counters : (tail = c) ~> (head = c)

=============================================================================
