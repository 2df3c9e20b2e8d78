--------------------------- MODULE SPSCRingProofs ---------------------------
(***************************************************************************)
(* For every capacity, counter width and set of items, the ring is free of  *)
(* slot races and implements BoundedFifo, across the wrap of its counters   *)
(* and under arbitrarily stale loads.                                       *)
(***************************************************************************)
EXTENDS SPSCRing, ProofBasics, SequenceTheorems

(* Going around the circle of counters: headSeen, head, tailSeen, tail, and *)
(* back at most N after headSeen.  While a push or a pop is under way there *)
(* is room for it.                                                          *)
Order ==
  LET a == Sub(head, headSeen)
      b == Sub(tailSeen, head)
      c == Sub(tail, tailSeen)
  IN  /\ a + b + c <= N
      /\ ppc # "idle" => a + b + c < N
      /\ cpc # "idle" => b > 0

(* The item of a push that is about to publish is in its slot. *)
Written ==
  /\ ppc # "idle" => item \in Values
  /\ ppc = "publish" => slots[Slot(tail)] = item

IInv == TypeOK /\ Order /\ Written

-----------------------------------------------------------------------------
(* Incrementing a size_t, written without a remainder. *)
LEMMA IncDef ==
  ASSUME NEW x \in Counters
  PROVE  Inc(x) \in Counters /\ Inc(x) = IF x = CtrMod - 1 THEN 0 ELSE x + 1
<1>1. CtrMod \in Nat \ {0}
  BY RingAssumption
<1>2. CASE x = CtrMod - 1
  <2>1. x + 1 = CtrMod * 1 + 0 /\ 0 \in 0..(CtrMod - 1) /\ x + 1 \in Int
    BY <1>1, <1>2 DEF Counters
  <2>2. (x + 1) % CtrMod = 0
    BY <1>1, <2>1, ModUnique
  <2> QED BY <1>1, <1>2, <2>2 DEF Inc, Counters
<1>3. CASE x # CtrMod - 1
  <2>1. x + 1 \in 0..(CtrMod - 1)
    BY <1>1, <1>3 DEF Counters
  <2>2. (x + 1) % CtrMod = x + 1
    BY <1>1, <2>1, ModSmall
  <2> QED BY <1>3, <2>1, <2>2 DEF Inc, Counters
<1> QED BY <1>2, <1>3

(* Subtracting two size_t values, written without a remainder. *)
LEMMA SubDef ==
  ASSUME NEW x \in Counters, NEW y \in Counters
  PROVE  Sub(x, y) \in Counters /\ Sub(x, y) = IF x >= y THEN x - y ELSE x - y + CtrMod
<1>1. CtrMod \in Nat \ {0} /\ x \in Int /\ y \in Int
  BY RingAssumption DEF Counters
<1>2. CASE x >= y
  <2>1. x - y \in 0..(CtrMod - 1)
    BY <1>1, <1>2 DEF Counters
  <2>2. (x - y) % CtrMod = x - y
    BY <1>1, <2>1, ModSmall
  <2> QED BY <1>2, <2>1, <2>2 DEF Sub, Counters
<1>3. CASE ~(x >= y)
  <2>1. x - y + CtrMod \in 0..(CtrMod - 1) /\ x - y \in Int
          /\ x - y = CtrMod * (-1) + (x - y + CtrMod)
    BY <1>1, <1>3 DEF Counters
  <2>2. (x - y) % CtrMod = x - y + CtrMod
    BY <1>1, <2>1, ModUnique
  <2> QED BY <1>3, <2>1, <2>2 DEF Sub, Counters
<1> QED BY <1>2, <1>3

(* The distance of two counters, and how it changes when one moves up. *)
LEMMA SubFacts ==
  ASSUME NEW x \in Counters, NEW y \in Counters
  PROVE  /\ Sub(x, y) \in Nat
         /\ Sub(x, y) < CtrMod
         /\ Sub(x, y) = 0 <=> x = y
         /\ Sub(x, y) < CtrMod - 1 => Sub(Inc(x), y) = Sub(x, y) + 1
         /\ Sub(x, y) > 0 => Sub(x, Inc(y)) = Sub(x, y) - 1
<1>1. CtrMod \in Nat /\ x \in Int /\ y \in Int /\ x < CtrMod /\ y < CtrMod
        /\ x >= 0 /\ y >= 0
  BY RingAssumption DEF Counters
<1>2. Inc(x) \in Counters /\ Inc(y) \in Counters
  BY IncDef
<1>3. Sub(x, y) = IF x >= y THEN x - y ELSE x - y + CtrMod
  BY SubDef
<1>4. Sub(Inc(x), y) = IF Inc(x) >= y THEN Inc(x) - y ELSE Inc(x) - y + CtrMod
  BY <1>2, SubDef
<1>5. Sub(x, Inc(y)) = IF x >= Inc(y) THEN x - Inc(y) ELSE x - Inc(y) + CtrMod
  BY <1>2, SubDef
<1>6. /\ Inc(x) = IF x = CtrMod - 1 THEN 0 ELSE x + 1
      /\ Inc(y) = IF y = CtrMod - 1 THEN 0 ELSE y + 1
  BY IncDef
<1> QED BY <1>1, <1>3, <1>4, <1>5, <1>6

(* Distances add up as long as they do not go around the circle. *)
LEMMA SubSum ==
  ASSUME NEW x \in Counters, NEW y \in Counters, NEW z \in Counters,
         Sub(x, y) + Sub(y, z) < CtrMod
  PROVE  Sub(x, z) = Sub(x, y) + Sub(y, z)
<1>1. CtrMod \in Nat /\ x \in 0..(CtrMod - 1) /\ y \in 0..(CtrMod - 1)
        /\ z \in 0..(CtrMod - 1)
  BY RingAssumption DEF Counters
<1>2. /\ Sub(x, y) = IF x >= y THEN x - y ELSE x - y + CtrMod
      /\ Sub(y, z) = IF y >= z THEN y - z ELSE y - z + CtrMod
      /\ Sub(x, z) = IF x >= z THEN x - z ELSE x - z + CtrMod
  BY SubDef
<1> QED BY <1>1, <1>2

(* Distances derived from Order. *)
LEMMA OrderFacts ==
  ASSUME TypeOK, Order
  PROVE  /\ Sub(tail, head) = Sub(tailSeen, head) + Sub(tail, tailSeen)
         /\ Sub(tail, headSeen) = Sub(head, headSeen) + Sub(tail, head)
         /\ Sub(tail, head) \in 0..N
         /\ ppc # "idle" => Sub(tail, head) < N
         /\ cpc # "idle" => Sub(tail, head) > 0
<1> DEFINE a == Sub(head, headSeen)
           b == Sub(tailSeen, head)
           c == Sub(tail, tailSeen)
<1>1. a \in Nat /\ b \in Nat /\ c \in Nat /\ N \in Nat /\ N < CtrMod /\ CtrMod \in Nat
  BY SubFacts, RingAssumption DEF TypeOK
<1>2. /\ a + b + c <= N
      /\ ppc # "idle" => a + b + c < N
      /\ cpc # "idle" => b > 0
  BY DEF Order
<1>3. Sub(tail, head) = c + b
  <2>1. c + b < CtrMod
    BY <1>1, <1>2
  <2> QED BY <2>1, SubSum DEF TypeOK
<1>4. Sub(tail, headSeen) = Sub(tail, head) + a
  <2>1. Sub(tail, head) + a < CtrMod
    BY <1>1, <1>2, <1>3
  <2> QED BY <2>1, SubSum DEF TypeOK
<1> HIDE DEF a, b, c
<1>5. /\ Sub(tail, head) = b + c
      /\ Sub(tail, headSeen) = a + Sub(tail, head)
      /\ Sub(tail, head) \in 0..N
      /\ ppc # "idle" => Sub(tail, head) < N
      /\ cpc # "idle" => Sub(tail, head) > 0
  BY <1>1, <1>2, <1>3, <1>4
<1> QED BY <1>5 DEF a, b, c

(* Slot() ignores the wrap of the counters. *)
LEMMA SlotWrap ==
  ASSUME NEW x \in Int
  PROVE  Slot(x - CtrMod) = Slot(x) /\ Slot(x) \in 0..(N - 1)
<1> DEFINE k == CtrMod \div N
<1>1. N \in Nat \ {0} /\ CtrMod \in Int
  BY RingAssumption
<1>2. k \in Int /\ CtrMod = N * k + (CtrMod % N)
  BY <1>1, ModDef
<1>3. CtrMod = N * k
  BY <1>1, <1>2, RingAssumption
<1> HIDE DEF k
<1>4. x - CtrMod = x + N * (-k) /\ -k \in Int
  BY <1>1, <1>2, <1>3
<1>5. (x + N * (-k)) % N = x % N
  BY <1>1, <1>4, ModShift
<1>6. x % N \in 0..(N - 1)
  BY <1>1, ModDef
<1> QED BY <1>4, <1>5, <1>6 DEF Slot

(* The slot after the head's, and the slot of the tail, seen from the head. *)
LEMMA SlotFromHead ==
  ASSUME NEW x \in Counters, NEW y \in Counters, NEW k \in Nat
  PROVE  /\ Slot(Inc(x) + k) = Slot(x + 1 + k)
         /\ Slot(x) = Slot(y + Sub(x, y))
<1>1. x \in Int /\ y \in Int /\ CtrMod \in Int
  BY RingAssumption DEF Counters
<1>2. Slot(Inc(x) + k) = Slot(x + 1 + k)
  <2>1. CASE x = CtrMod - 1
    <3>1. Inc(x) + k = (x + 1 + k) - CtrMod /\ x + 1 + k \in Int
      BY <1>1, <2>1, IncDef
    <3> QED BY <3>1, SlotWrap
  <2>2. CASE x # CtrMod - 1
    <3>1. Inc(x) + k = x + 1 + k
      BY <2>2, IncDef
    <3> QED BY <3>1
  <2> QED BY <2>1, <2>2
<1>3. Slot(x) = Slot(y + Sub(x, y))
  <2>1. CASE x >= y
    <3>1. y + Sub(x, y) = x
      BY <1>1, <2>1, SubDef
    <3> QED BY <3>1
  <2>2. CASE ~(x >= y)
    <3>1. x = (y + Sub(x, y)) - CtrMod /\ y + Sub(x, y) \in Int
      BY <1>1, <2>2, SubDef
    <3> QED BY <3>1, SlotWrap
  <2> QED BY <2>1, <2>2
<1> QED BY <1>2, <1>3

(* Fewer than N apart, two positions have different slots. *)
LEMMA SlotDistinct ==
  ASSUME NEW x \in Int, NEW y \in Int, x < y, y - x < N
  PROVE  Slot(x) # Slot(y)
<1>1. N \in Nat \ {0}
  BY RingAssumption
<1> QED BY <1>1, ModDistinct DEF Slot

-----------------------------------------------------------------------------
(* An empty ring satisfies the invariant. *)
LEMMA InitIInv == Init => IInv
<1> SUFFICES ASSUME Init PROVE IInv
  OBVIOUS
<1>1. TypeOK
  BY RingAssumption DEF Init, TypeOK, Counters
<1>2. Sub(head, headSeen) = 0 /\ Sub(tailSeen, head) = 0 /\ Sub(tail, tailSeen) = 0
  BY <1>1, SubFacts DEF Init, TypeOK
<1> QED BY <1>1, <1>2, RingAssumption DEF Init, IInv, Order, Written

(* Every step preserves the types. *)
LEMMA NextTypeOK == IInv /\ [Next]_vars => TypeOK'
<1> SUFFICES ASSUME IInv, [Next]_vars PROVE TypeOK'
  OBVIOUS
<1>1. /\ Inc(head) \in Counters /\ Inc(tail) \in Counters
      /\ Inc(headSeen) \in Counters /\ Inc(tailSeen) \in Counters
  BY IncDef DEF IInv, TypeOK
<1>2. Slot(head) \in 0..(N - 1) /\ Slot(tail) \in 0..(N - 1)
  <2>1. head \in Int /\ tail \in Int
    BY RingAssumption DEF IInv, TypeOK, Counters
  <2> QED BY <2>1, SlotWrap
<1> USE DEF IInv, TypeOK, producer, consumer
<1>3. ASSUME NEW v \in Values, Push(v) PROVE TypeOK'
  BY <1>1, <1>2, <1>3 DEF Push
<1>4. ASSUME PushWrite PROVE TypeOK'
  BY <1>1, <1>2, <1>4 DEF PushWrite
<1>5. ASSUME PushPublish PROVE TypeOK'
  BY <1>1, <1>2, <1>5 DEF PushPublish
<1>6. ASSUME Pop PROVE TypeOK'
  BY <1>1, <1>2, <1>6 DEF Pop
<1>7. ASSUME PopRead PROVE TypeOK'
  BY <1>1, <1>2, <1>7 DEF PopRead
<1>8. ASSUME PopPublish PROVE TypeOK'
  BY <1>1, <1>2, <1>8 DEF PopPublish
<1>9. ASSUME HeadVisible PROVE TypeOK'
  BY <1>1, <1>2, <1>9 DEF HeadVisible
<1>10. ASSUME TailVisible PROVE TypeOK'
  BY <1>1, <1>2, <1>10 DEF TailVisible
<1>11. ASSUME PushFull \/ PopEmpty \/ UNCHANGED vars PROVE TypeOK'
  BY <1>1, <1>2, <1>11 DEF PushFull, PopEmpty, vars
<1> QED BY <1>3, <1>4, <1>5, <1>6, <1>7, <1>8, <1>9, <1>10, <1>11 DEF Next

(* Every step keeps the counters in order. *)
LEMMA NextOrder == IInv /\ [Next]_vars => Order'
<1> SUFFICES ASSUME IInv, [Next]_vars PROVE Order'
  OBVIOUS
<1> DEFINE a == Sub(head, headSeen)
           b == Sub(tailSeen, head)
           c == Sub(tail, tailSeen)
<1>0. a \in Nat /\ b \in Nat /\ c \in Nat /\ N \in Nat /\ N < CtrMod /\ CtrMod \in Nat
  BY SubFacts, RingAssumption DEF IInv, TypeOK
<1>1. /\ a + b + c <= N
      /\ ppc # "idle" => a + b + c < N
      /\ cpc # "idle" => b > 0
  BY DEF IInv, Order
<1>2. head \in Counters /\ tail \in Counters /\ headSeen \in Counters /\ tailSeen \in Counters
  BY DEF IInv, TypeOK
<1>3. ASSUME NEW v \in Values, Push(v) PROVE Order'
  <2>1. Sub(tail, headSeen) = a + b + c
    BY <1>0, OrderFacts DEF IInv
  <2>2. a + b + c < N
    BY <1>0, <1>1, <1>3, <2>1 DEF Push, Full
  <2> QED BY <1>1, <1>3, <2>2 DEF Push, Order, consumer
<1>4. ASSUME PushPublish PROVE Order'
  <2>1. Sub(tail', tailSeen) = c + 1
    BY <1>0, <1>1, <1>2, <1>4, SubFacts DEF PushPublish
  <2>2. /\ a + b + (c + 1) <= N /\ ppc' = "idle" /\ cpc' = cpc
        /\ UNCHANGED <<head, headSeen, tailSeen>>
    BY <1>0, <1>1, <1>4 DEF PushPublish, consumer
  <2> QED BY <1>1, <2>1, <2>2 DEF Order
<1>5. ASSUME Pop PROVE Order'
  <2>1. b > 0
    BY <1>0, <1>2, <1>5, SubFacts DEF Pop, Empty
  <2> QED BY <1>1, <1>5, <2>1 DEF Pop, Order, producer
<1>6. ASSUME PopPublish PROVE Order'
  <2>1. b > 0 /\ a < CtrMod - 1
    BY <1>0, <1>1, <1>6 DEF PopPublish
  <2>2. Sub(head', headSeen) = a + 1 /\ Sub(tailSeen, head') = b - 1
    BY <1>2, <1>6, <2>1, SubFacts DEF PopPublish
  <2>3. UNCHANGED <<tail, headSeen, tailSeen, ppc>> /\ cpc' = "idle"
    BY <1>6 DEF PopPublish, producer
  <2>4. (a + 1) + (b - 1) + c = a + b + c
    BY <1>0
  <2> QED BY <1>1, <2>2, <2>3, <2>4 DEF Order
<1>7. ASSUME HeadVisible PROVE Order'
  <2>1. a > 0
    BY <1>0, <1>2, <1>7, SubFacts DEF HeadVisible
  <2>2. Sub(head, headSeen') = a - 1
    BY <1>2, <1>7, <2>1, SubFacts DEF HeadVisible
  <2>3. UNCHANGED <<head, tail, tailSeen, ppc, cpc>>
    BY <1>7 DEF HeadVisible, producer, consumer
  <2>4. /\ (a - 1) + b + c <= N
        /\ ppc # "idle" => (a - 1) + b + c < N
    BY <1>0, <1>1
  <2> QED BY <1>1, <2>2, <2>3, <2>4 DEF Order
<1>8. ASSUME TailVisible PROVE Order'
  <2>1. c > 0 /\ b < CtrMod - 1
    <3>1. c # 0
      BY <1>2, <1>8, SubFacts DEF TailVisible
    <3> QED BY <1>0, <1>1, <3>1
  <2>2. Sub(tail, tailSeen') = c - 1 /\ Sub(tailSeen', head) = b + 1
    BY <1>2, <1>8, <2>1, SubFacts DEF TailVisible
  <2>3. UNCHANGED <<head, tail, headSeen, ppc, cpc>>
    BY <1>8 DEF TailVisible, producer, consumer
  <2>4. a + (b + 1) + (c - 1) = a + b + c /\ (b > 0 => b + 1 > 0)
    BY <1>0
  <2> QED BY <1>1, <2>2, <2>3, <2>4 DEF Order
<1>9. CASE PushFull \/ PopEmpty \/ UNCHANGED vars
  BY <1>1, <1>9 DEF PushFull, PopEmpty, vars, Order
<1>10. CASE PushWrite
  BY <1>1, <1>10 DEF PushWrite, consumer, Order
<1>11. CASE PopRead
  BY <1>1, <1>11 DEF PopRead, producer, Order
<1> QED BY <1>3, <1>4, <1>5, <1>6, <1>7, <1>8, <1>9, <1>10, <1>11 DEF Next

(* Only the producer touches its slot between the write and the store. *)
LEMMA NextWritten == IInv /\ [Next]_vars => Written'
<1> SUFFICES ASSUME IInv, [Next]_vars PROVE Written'
  OBVIOUS
<1>1. Slot(tail) \in 0..(N - 1)
  <2>1. tail \in Int
    BY RingAssumption DEF IInv, TypeOK, Counters
  <2> QED BY <2>1, SlotWrap
<1> USE DEF IInv, TypeOK, Written, producer, consumer
<1>2. ASSUME NEW v \in Values, Push(v) PROVE Written'
  BY <1>1, <1>2 DEF Push
<1>3. ASSUME PushWrite PROVE Written'
  BY <1>1, <1>3 DEF PushWrite
<1>4. ASSUME PushPublish PROVE Written'
  BY <1>1, <1>4 DEF PushPublish
<1>5. ASSUME Pop PROVE Written'
  BY <1>1, <1>5 DEF Pop
<1>6. ASSUME PopRead PROVE Written'
  BY <1>1, <1>6 DEF PopRead
<1>7. ASSUME PopPublish PROVE Written'
  BY <1>1, <1>7 DEF PopPublish
<1>8. ASSUME HeadVisible PROVE Written'
  BY <1>1, <1>8 DEF HeadVisible
<1>9. ASSUME TailVisible PROVE Written'
  BY <1>1, <1>9 DEF TailVisible
<1>10. ASSUME PushFull \/ PopEmpty \/ UNCHANGED vars PROVE Written'
  BY <1>1, <1>10 DEF PushFull, PopEmpty, vars
<1> QED BY <1>2, <1>3, <1>4, <1>5, <1>6, <1>7, <1>8, <1>9, <1>10 DEF Next

(* The ring's inductive invariant holds in every reachable state. *)
THEOREM RingInvariant == Spec => []IInv
<1>1. IInv /\ [Next]_vars => IInv'
  BY NextTypeOK, NextOrder, NextWritten DEF IInv
<1> QED BY <1>1, InitIInv, PTL DEF Spec

(* Every variable keeps its type; the counters stay below 2^64. *)
THEOREM RingTypeOK == Spec => []TypeOK
  BY RingInvariant, PTL DEF IInv

(* size() as the producer and as the consumer see it brackets the content. *)
THEOREM SizesAreBracketed == Spec => []SizesBracketContent
<1>1. IInv => SizesBracketContent
  <2> SUFFICES ASSUME IInv PROVE SizesBracketContent
    OBVIOUS
  <2>1. /\ Sub(head, headSeen) \in Nat /\ Sub(tailSeen, head) \in Nat
        /\ Sub(tail, tailSeen) \in Nat /\ N \in Nat
    BY SubFacts, RingAssumption DEF IInv, TypeOK
  <2>2. Sub(head, headSeen) + Sub(tailSeen, head) + Sub(tail, tailSeen) <= N
    BY DEF IInv, Order
  <2>3. /\ Sub(tail, head) = Sub(tailSeen, head) + Sub(tail, tailSeen)
        /\ Sub(tail, headSeen) = Sub(head, headSeen) + Sub(tail, head)
    BY OrderFacts DEF IInv
  <2> QED BY <2>1, <2>2, <2>3 DEF SizesBracketContent
<1> QED BY <1>1, RingInvariant, PTL

(* Producer and consumer never touch the same slot at the same time. *)
THEOREM SlotsAreRaceFree == Spec => []NoSlotRace
<1>1. IInv => NoSlotRace
  <2> SUFFICES ASSUME IInv, ppc = "write", cpc = "read" PROVE Slot(tail) # Slot(head)
    BY DEF NoSlotRace
  <2> DEFINE n == Sub(tail, head)
  <2>1. n \in Nat /\ n < N /\ n > 0 /\ head \in Int
    BY OrderFacts, RingAssumption DEF IInv, TypeOK, Counters
  <2>2. Slot(tail) = Slot(head + n)
    BY SlotFromHead DEF IInv, TypeOK
  <2> HIDE DEF n
  <2>3. Slot(head) # Slot(head + n)
    <3>1. head + n \in Int /\ head < head + n /\ (head + n) - head < N
      BY <2>1, RingAssumption
    <3> QED BY <2>1, <3>1, SlotDistinct
  <2> QED BY <2>2, <2>3
<1> QED BY <1>1, RingInvariant, PTL

-----------------------------------------------------------------------------
Items == Values \cup {NoItem}

ContentIsSeq ==
  /\ Content \in Seq(Items)
  /\ Len(Content) = Sub(tail, head)
  /\ \A i \in 1..Sub(tail, head) : Content[i] = slots[Slot(head + i - 1)]

(* The content is a sequence of Sub(tail, head) items. *)
LEMMA ContentFacts == IInv => ContentIsSeq
<1> SUFFICES ASSUME IInv PROVE ContentIsSeq
  OBVIOUS
<1>1. Sub(tail, head) \in 0..N /\ N \in Nat
  BY OrderFacts, RingAssumption DEF IInv
<1> DEFINE n == Sub(tail, head)
           f == [i \in 1..n |-> slots[Slot(head + i - 1)]]
<1>2. ASSUME NEW i \in 1..n PROVE slots[Slot(head + i - 1)] \in Items
  <2>1. head + i - 1 \in Int
    BY <1>1, RingAssumption DEF IInv, TypeOK, Counters
  <2>2. Slot(head + i - 1) \in 0..(N - 1)
    BY <2>1, SlotWrap
  <2> QED BY <2>2 DEF IInv, TypeOK, Items
<1>3. n \in Nat
  BY <1>1
<1> HIDE DEF n
<1>4. f \in [1..n -> Items]
  BY <1>2
<1>5. f \in Seq(Items)
  BY <1>3, <1>4, SeqDef
<1>6. Len(f) = n
  BY <1>3, <1>5, LenProperties
<1>7. Content = f
  BY DEF Content, n
<1>8. \A i \in 1..n : f[i] = slots[Slot(head + i - 1)]
  OBVIOUS
<1> QED BY <1>5, <1>6, <1>7, <1>8 DEF n, ContentIsSeq

(* The same in the next state. *)
LEMMA ContentFactsNext == IInv' => ContentIsSeq'
  BY ContentFacts, PTL

(* Writing the slot of the tail leaves the content alone. *)
LEMMA WriteKeepsContent ==
  ASSUME IInv, PushWrite
  PROVE  Content' = Content
<1> DEFINE n == Sub(tail, head)
<1>1. n \in Nat /\ n < N /\ head \in Int /\ N \in Nat
  BY OrderFacts, RingAssumption DEF PushWrite, IInv, TypeOK, Counters
<1>2. UNCHANGED <<head, tail>>
  BY DEF PushWrite, consumer
<1>3. Slot(tail) = Slot(head + n)
  BY SlotFromHead DEF IInv, TypeOK
<1> HIDE DEF n
<1>4. ASSUME NEW i \in 1..n
      PROVE  slots'[Slot(head + i - 1)] = slots[Slot(head + i - 1)]
  <2>1. /\ head + i - 1 \in Int /\ head + n \in Int
        /\ head + i - 1 < head + n /\ (head + n) - (head + i - 1) < N
    <3>1. (head + n) - (head + i - 1) = n - i + 1
      BY <1>1
    <3>2. n - i + 1 <= n
      BY <1>1
    <3> QED BY <1>1, <3>1, <3>2
  <2>2. Slot(head + i - 1) # Slot(tail)
    BY <1>3, <2>1, SlotDistinct
  <2>3. Slot(head + i - 1) \in 0..(N - 1)
    BY <2>1, SlotWrap
  <2> QED BY <2>2, <2>3 DEF PushWrite, IInv, TypeOK
<1> QED BY <1>2, <1>4 DEF Content, n

(* Storing tail_ appends the item that was written. *)
LEMMA PublishAppends ==
  ASSUME IInv, IInv', PushPublish
  PROVE  Content' = Append(Content, item) /\ item \in Values
<1> DEFINE n == Sub(tail, head)
<1>1. n \in Nat /\ n < N /\ N < CtrMod /\ N \in Nat /\ CtrMod \in Nat /\ head \in Int
  BY OrderFacts, RingAssumption DEF PushPublish, IInv, TypeOK, Counters
<1>2. UNCHANGED <<head, slots>> /\ tail' = Inc(tail)
  BY DEF PushPublish, consumer
<1>3. Sub(tail', head') = n + 1
  BY <1>1, <1>2, SubFacts DEF IInv, TypeOK
<1>4. item \in Values /\ slots[Slot(head + n)] = item
  BY SlotFromHead DEF IInv, TypeOK, Written, PushPublish
<1>5. /\ Content \in Seq(Items) /\ Len(Content) = n
      /\ \A i \in 1..n : Content[i] = slots[Slot(head + i - 1)]
  BY ContentFacts DEF ContentIsSeq
<1>6. /\ Content' \in Seq(Items) /\ Len(Content') = n + 1
      /\ \A i \in 1..(n + 1) : Content'[i] = slots[Slot(head + i - 1)]
  BY <1>2, <1>3, ContentFactsNext DEF ContentIsSeq
<1> HIDE DEF n
<1> DEFINE ap == Append(Content, item)
<1>7. /\ ap \in Seq(Items) /\ Len(ap) = n + 1
      /\ \A i \in 1..n : ap[i] = Content[i]
      /\ ap[n + 1] = item
  BY <1>4, <1>5, AppendProperties DEF Items
<1> HIDE DEF ap
<1>8. ASSUME NEW i \in 1..(n + 1) PROVE Content'[i] = ap[i]
  <2>1. CASE i \in 1..n
    BY <1>5, <1>6, <1>7, <2>1
  <2>2. CASE i = n + 1
    <3>1. head + i - 1 = head + n
      BY <1>1, <2>2
    <3> QED BY <1>4, <1>6, <1>7, <2>2, <3>1
  <2> QED BY <1>1, <2>1, <2>2
<1>9. Content' = ap
  BY <1>6, <1>7, <1>8, SeqEqual
<1> QED BY <1>4, <1>9 DEF ap

(* Storing head_ drops the oldest item. *)
LEMMA PublishDrops ==
  ASSUME IInv, IInv', PopPublish
  PROVE  Content' = Tail(Content)
<1> DEFINE n == Sub(tail, head)
           tl == Tail(Content)
<1>1. n \in Nat /\ n > 0 /\ head \in Int
  BY OrderFacts, RingAssumption DEF PopPublish, IInv, TypeOK, Counters
<1>2. UNCHANGED <<tail, slots>> /\ head' = Inc(head)
  BY DEF PopPublish, producer
<1>3. Sub(tail', head') = n - 1
  BY <1>1, <1>2, SubFacts DEF IInv, TypeOK
<1>4. /\ Content \in Seq(Items) /\ Len(Content) = n
      /\ \A i \in 1..n : Content[i] = slots[Slot(head + i - 1)]
  BY ContentFacts DEF ContentIsSeq
<1>5. /\ Content' \in Seq(Items) /\ Len(Content') = n - 1
      /\ \A i \in 1..(n - 1) : Content'[i] = slots[Slot(head' + i - 1)]
  BY <1>2, <1>3, ContentFactsNext DEF ContentIsSeq
<1> HIDE DEF n
<1>6. Content # <<>>
  BY <1>1, <1>4, EmptySeq
<1>7. tl \in Seq(Items) /\ Len(tl) = n - 1 /\ \A i \in 1..(n - 1) : tl[i] = Content[i + 1]
  BY <1>4, <1>6, HeadTailProperties
<1> HIDE DEF tl
<1>8. ASSUME NEW i \in 1..(n - 1) PROVE Content'[i] = tl[i]
  <2>1. i - 1 \in Nat /\ i + 1 \in 1..n
    BY <1>1
  <2>2. Slot(Inc(head) + (i - 1)) = Slot(head + 1 + (i - 1))
    BY <2>1, SlotFromHead DEF IInv, TypeOK
  <2>3. /\ head + 1 + (i - 1) = head + (i + 1) - 1
        /\ head' + i - 1 = Inc(head) + (i - 1)
    <3>1. Inc(head) \in Int
      BY IncDef, RingAssumption DEF IInv, TypeOK, Counters
    <3> QED BY <1>1, <1>2, <3>1
  <2>4. Content'[i] = slots[Slot(head' + i - 1)]
    BY Zenon, <1>5, <1>8
  <2>5. Content[i + 1] = slots[Slot(head + (i + 1) - 1)]
    BY Zenon, <1>4, <2>1
  <2>6. tl[i] = Content[i + 1]
    BY Zenon, <1>7, <1>8
  <2> QED BY Zenon, <2>2, <2>3, <2>4, <2>5, <2>6
<1>9. Content' = tl
  BY <1>5, <1>7, <1>8, SeqEqual
<1> QED BY <1>9 DEF tl

(* The ring is a FIFO queue of at most N items. *)
THEOREM RingIsFifo == Spec => ImplementsFifo
<1>1. Init => Fifo!Init
  <2> SUFFICES ASSUME Init PROVE Queue = <<>> /\ got = NoItem
    BY DEF Fifo!Init
  <2>1. IInv
    BY InitIInv
  <2>2. Sub(tail, head) = 0
    BY <2>1, SubFacts DEF Init, IInv, TypeOK
  <2>3. Content = <<>>
    BY <2>1, <2>2, ContentFacts, EmptySeq DEF ContentIsSeq
  <2> QED BY <2>3 DEF Init, Queue
<1>2. IInv /\ IInv' /\ [Next]_vars => [Fifo!Next]_<<Queue, got>>
  <2> SUFFICES ASSUME IInv, IInv', [Next]_vars
               PROVE  Fifo!Next \/ UNCHANGED <<Queue, got>>
    OBVIOUS
  <2>1. ASSUME UNCHANGED <<head, tail, slots, cpc, got>>
        PROVE  UNCHANGED <<Queue, got>>
    BY <2>1 DEF Queue, Content
  <2>2. ASSUME PushWrite PROVE UNCHANGED <<Queue, got>>
    BY <2>2, WriteKeepsContent DEF Queue, PushWrite, consumer
  <2>3. ASSUME PushPublish PROVE Fifo!Push(item) /\ item \in Values
    <3>1. Content' = Append(Content, item) /\ item \in Values
      BY <2>3, PublishAppends
    <3>2. cpc' = cpc /\ got' = got /\ ppc # "idle"
      BY <2>3 DEF PushPublish, consumer
    <3>3. Content \in Seq(Items) /\ Len(Content) = Sub(tail, head) /\ item \in Items
      BY <3>1, ContentFacts DEF ContentIsSeq, Items
    <3>4. Sub(tail, head) < N /\ Sub(tail, head) \in Nat /\ N \in Nat
      BY <3>2, OrderFacts, RingAssumption DEF IInv
    <3>5. CASE cpc # "publish"
      BY <3>1, <3>2, <3>3, <3>4, <3>5 DEF Fifo!Push, Queue
    <3>6. CASE cpc = "publish"
      <4>1. Sub(tail, head) > 0
        BY <3>6, OrderFacts DEF IInv
      <4>2. Content # <<>>
        BY <3>3, <4>1, EmptySeq
      <4>3. Tail(Append(Content, item)) = Append(Tail(Content), item)
        BY <3>3, <4>2, HeadTailAppend
      <4>4. Len(Tail(Content)) < N
        BY <3>3, <3>4, <4>2, HeadTailProperties
      <4> QED BY <3>1, <3>2, <3>6, <4>3, <4>4 DEF Fifo!Push, Queue
    <3> QED BY <3>1, <3>5, <3>6
  <2>4. ASSUME PopRead PROVE Fifo!Pop
    <3>1. UNCHANGED <<head, tail, slots>> /\ cpc = "read" /\ cpc' = "publish"
      BY <2>4 DEF PopRead, producer
    <3>2. Content' = Content
      BY <3>1 DEF Content
    <3>3. /\ Content \in Seq(Items) /\ Len(Content) = Sub(tail, head)
          /\ \A i \in 1..Sub(tail, head) : Content[i] = slots[Slot(head + i - 1)]
      BY ContentFacts DEF ContentIsSeq
    <3>4. Sub(tail, head) > 0 /\ Sub(tail, head) \in Nat /\ head \in Int
      BY <3>1, OrderFacts, RingAssumption DEF IInv, TypeOK, Counters
    <3>5. Content # <<>>
      BY <3>3, <3>4, EmptySeq
    <3>6. Content[1] = slots[Slot(head)]
      <4>1. 1 \in 1..Sub(tail, head) /\ head + 1 - 1 = head
        BY <3>4
      <4> QED BY <3>3, <4>1
    <3>7. got' = Head(Content)
      BY <2>4, <3>3, <3>5, <3>6 DEF PopRead
    <3> QED BY <3>1, <3>2, <3>5, <3>7 DEF Fifo!Pop, Queue
  <2>5. ASSUME PopPublish PROVE UNCHANGED <<Queue, got>>
    BY <2>5, PublishDrops DEF PopPublish, Queue
  <2>6. ASSUME Pop PROVE UNCHANGED <<Queue, got>>
    <3>1. UNCHANGED <<head, tail, slots, got>> /\ cpc = "idle" /\ cpc' = "read"
      BY <2>6 DEF Pop, producer
    <3> QED BY <3>1 DEF Queue, Content
  <2>7. ASSUME NEW v \in Values, Push(v) PROVE UNCHANGED <<Queue, got>>
    BY <2>1, <2>7 DEF Push, consumer
  <2>8. CASE PushFull \/ PopEmpty \/ HeadVisible \/ TailVisible \/ UNCHANGED vars
    BY <2>1, <2>8 DEF PushFull, PopEmpty, HeadVisible, TailVisible, vars,
                      producer, consumer
  <2> QED BY <2>2, <2>3, <2>4, <2>5, <2>6, <2>7, <2>8 DEF Next, Fifo!Next
<1>3. IInv /\ [Next]_vars => IInv'
  BY NextTypeOK, NextOrder, NextWritten DEF IInv
<1> QED BY <1>1, <1>2, <1>3, RingInvariant, PTL DEF Spec, Fifo!Spec, ImplementsFifo

=============================================================================
