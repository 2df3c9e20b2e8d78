-------------------------- MODULE BufferPoolProofs --------------------------
(***************************************************************************)
(* For every number of threads and buffers: as long as no pop() stays       *)
(* between its load and its compare-exchange while 2^32 or more updates of  *)
(* top_ happen (StallBounded), the pool hands no buffer out twice, loses    *)
(* none, keeps its list intact and implements AtomicPool.                   *)
(***************************************************************************)
EXTENDS BufferPool, ProofBasics, SequenceTheorems, FiniteSetTheorems

(* The generation does not come back to its value within one pop(). *)
StallBounded == MaxStall < GenMod

(* What a thread between its load and its compare-exchange knows: top_ has  *)
(* moved on by stall[t] generations; if it has not moved, `old` is top_ and *)
(* the link it read is current.                                             *)
WindowOf(t) ==
  /\ InPopWindow(t) =>
       /\ top.gen = (old[t].gen + stall[t]) % GenMod
       /\ stall[t] = 0 => top = old[t]
  /\ pc[t] = "pop_cas" =>
       /\ old[t].idx # kEmpty
       /\ stall[t] = 0 => next[t] = link[old[t].idx]

PopWindows == \A t \in Threads : WindowOf(t)

(* A thread that owns a buffer inside an operation knows which one, and a   *)
(* push about to commit has linked it to the word it expects.               *)
HandOf(t) ==
  /\ pc[t] \in {"pop_size", "acquired", "push_link", "push_cas"}
       => buf[t] \in Buffers
  /\ pc[t] = "push_cas" => link[buf[t]] = old[t].idx

Hands == \A t \in Threads : HandOf(t)

IInv == TypeOK /\ PopWindows /\ Hands /\ OneOwner /\ FreeListIntact

-----------------------------------------------------------------------------
(* Removing the last element of a sequence. *)
LEMMA FrontProperties ==
  ASSUME NEW S, NEW s \in Seq(S), s # <<>>
  PROVE  LET f == SubSeq(s, 1, Len(s) - 1)
         IN  /\ f \in Seq(S)
             /\ Len(f) = Len(s) - 1
             /\ \A i \in 1..(Len(s) - 1) : f[i] = s[i]
<1> DEFINE n == Len(s) - 1
           f == SubSeq(s, 1, n)
<1>1. n \in Nat /\ \A i \in 1..n : s[i] \in S
  BY EmptySeq, LenProperties
<1>2. f \in Seq(S) /\ Len(f) = (IF 1 <= n THEN n - 1 + 1 ELSE 0)
  BY <1>1, SubSeqProperties
<1>3. \A i \in 1..(n - 1 + 1) : f[i] = s[1 + i - 1]
  BY <1>1, SubSeqProperties
<1> HIDE DEF n, f
<1>4. Len(f) = n /\ \A i \in 1..n : f[i] = s[i]
  BY <1>1, <1>2, <1>3
<1> QED BY Zenon, <1>2, <1>4 DEF n, f

(* BumpGen keeps a generation in its range. *)
LEMMA BumpGenType ==
  ASSUME NEW w \in Words
  PROVE  BumpGen(w) \in 0..(GenMod - 1)
<1>1. w.gen + 1 \in Int
  BY PoolAssumption DEF Words
<1> QED BY Zenon, <1>1, PoolAssumption, ModDef DEF BumpGen

(* Type correctness of the initial state. *)
LEMMA InitTypeOK == Init => TypeOK
<1> SUFFICES ASSUME Init PROVE TypeOK
  BY Zenon
<1>1. BufferCount % GenMod \in 0..(GenMod - 1) /\ BufferCount % SizeMod \in 0..(SizeMod - 1)
  BY PoolAssumption, ModDef
<1>2. stack \in Seq(Buffers)
  BY PoolAssumption, IsASeq DEF Init, Buffers
<1> QED
  BY SMTT(20), <1>1, <1>2, PoolAssumption
     DEF Init, TypeOK, Words, Index, Buffers, pack, kEmpty, Labels

(* Every step preserves type correctness. *)
LEMMA NextTypeOK == TypeOK /\ Hands /\ [Next]_vars => TypeOK'
<1> SUFFICES ASSUME TypeOK, Hands, [Next]_vars PROVE TypeOK'
  BY Zenon
<1> USE DEF TypeOK, Labels, totals
<1>0. kEmpty \in Index /\ pack(0, kEmpty) \in Words
  BY PoolAssumption DEF Index, Words, pack
<1>1. ASSUME NEW t \in Threads, Return(t)
      PROVE  /\ pc' \in [Threads -> Labels] /\ old' \in [Threads -> Words]
             /\ next' \in [Threads -> Index] /\ buf' \in [Threads -> Index]
             /\ stall' \in [Threads -> 0..MaxStall]
  BY SMTT(30), <1>0, <1>1, PoolAssumption DEF Return
<1>2. ASSUME NEW t \in Threads, OneMoreUpdate(t)
      PROVE  stall' \in [Threads -> 0..MaxStall]
  BY <1>2, PoolAssumption DEF OneMoreUpdate
<1>3. ASSUME NEW n \in Int
      PROVE  (n % SizeMod) \in 0..(SizeMod - 1) /\ (n % TotalMod) \in 0..(TotalMod - 1)
  BY Zenon, PoolAssumption, ModDef
<1>4. ASSUME NEW t \in Threads, Acquire(t) PROVE TypeOK'
  BY <1>4, PoolAssumption DEF Acquire
<1>5. ASSUME NEW t \in Threads, PopEmpty(t) PROVE TypeOK'
  <2>1. total_exhausted + 1 \in Int
    OBVIOUS
  <2> QED BY ZenonT(30), <1>1, <1>3, <1>5, <2>1 DEF PopEmpty, TotalInc
<1>6. ASSUME NEW t \in Threads, PopLink(t) PROVE TypeOK'
  <2>1. link[old[t].idx] \in Index
    BY Zenon, <1>6 DEF PopLink, Words, Index
  <2> QED BY Zenon, <1>6, <2>1 DEF PopLink
<1>7. ASSUME NEW t \in Threads, PopCas(t) PROVE TypeOK'
  <2>1. top' \in Words
    BY Zenon, <1>7, BumpGenType DEF PopCas, pack, Words
  <2>2. old[t].idx \in Index
    BY Zenon DEF Words
  <2>3. stack' \in Seq(Buffers)
    BY SMTT(30), <1>7, SubSeqProperties, LenProperties DEF PopCas
  <2> QED BY ZenonT(30), <1>2, <1>7, <2>1, <2>2, <2>3 DEF PopCas
<1>8. ASSUME NEW t \in Threads, PopCasFail(t) PROVE TypeOK'
  BY <1>8, PoolAssumption DEF PopCasFail, CasReload
<1>9. ASSUME NEW t \in Threads, PopSize(t) PROVE TypeOK'
  <2>1. size - 1 \in Int
    OBVIOUS
  <2> QED BY ZenonT(30), <1>3, <1>9, <2>1 DEF PopSize, SizeDec
<1>10. ASSUME NEW t \in Threads, AcquireReturn(t) PROVE TypeOK'
  <2>1. total_acquires + 1 \in Int
    OBVIOUS
  <2>2. buf[t] \in Buffers
    BY Zenon, <1>10 DEF AcquireReturn, Hands, HandOf
  <2> QED BY ZenonT(30), <1>1, <1>3, <1>10, <2>1, <2>2 DEF AcquireReturn, TotalInc
<1>11. ASSUME NEW b \in Buffers, Fill(b) PROVE TypeOK'
  BY Zenon, <1>11 DEF Fill
<1>12. ASSUME NEW t \in Threads, NEW b \in Buffers, Release(t, b) PROVE TypeOK'
  BY Zenon, <1>12 DEF Release, LenCleared, Index
<1>13. ASSUME NEW t \in Threads, PushLink(t) PROVE TypeOK'
  BY Zenon, <1>13 DEF PushLink, Words
<1>14. ASSUME NEW t \in Threads, PushCas(t) PROVE TypeOK'
  <2>1. top' \in Words
    BY Zenon, <1>14, BumpGenType DEF PushCas, pack, Words
  <2>2. buf[t] \in Buffers
    BY Zenon, <1>14 DEF PushCas, Hands, HandOf
  <2>3. stack' \in Seq(Buffers)
    BY ZenonT(30), <1>14, <2>2, AppendProperties DEF PushCas
  <2> QED BY SMTT(30), <1>2, <1>14, <2>1, <2>3 DEF PushCas
<1>15. ASSUME NEW t \in Threads, PushCasFail(t) PROVE TypeOK'
  BY Zenon, <1>15 DEF PushCasFail, CasReload, PushRetry
<1>16. ASSUME NEW t \in Threads, PushSize(t) PROVE TypeOK'
  <2>1. size + 1 \in Int
    OBVIOUS
  <2> QED BY ZenonT(30), <1>3, <1>16, <2>1 DEF PushSize, SizeInc
<1>17. ASSUME NEW t \in Threads, ReleaseReturn(t) PROVE TypeOK'
  <2>1. total_releases + 1 \in Int
    OBVIOUS
  <2> QED BY ZenonT(30), <1>1, <1>3, <1>17, <2>1 DEF ReleaseReturn, TotalInc
<1>18. CASE UNCHANGED vars
  BY Zenon, <1>18 DEF vars
<1> QED
  BY ZenonT(30), <1>4, <1>5, <1>6, <1>7, <1>8, <1>9, <1>10, <1>11, <1>12, <1>13, <1>14,
     <1>15, <1>16, <1>17, <1>18 DEF Next, Step, CasSuccess

-----------------------------------------------------------------------------
(* Taking the first buffer off the list removes it and no other. *)
LEMMA ListedAfterPop ==
  ASSUME IInv, stack # <<>>, stack' = SubSeq(stack, 1, Len(stack) - 1),
         NEW b \in Buffers
  PROVE  Listed(b)' <=> Listed(b) /\ b # stack[Len(stack)]
<1>1. Len(stack) \in Nat \ {0}
  BY Zenon, EmptySeq DEF IInv, TypeOK
<1>2. /\ Len(stack') = Len(stack) - 1
      /\ \A i \in 1..(Len(stack) - 1) : stack'[i] = stack[i]
  BY Zenon, FrontProperties DEF IInv, TypeOK
<1>3. \A i, j \in 1..Len(stack) : stack[i] = stack[j] => i = j
  BY Zenon DEF IInv, OneOwner
<1>4. ASSUME Listed(b)' PROVE Listed(b) /\ b # stack[Len(stack)]
  <2>1. PICK i \in 1..(Len(stack) - 1) : stack'[i] = b
    BY Zenon, <1>2, <1>4 DEF Listed
  <2>2. /\ i \in 1..Len(stack) /\ i # Len(stack) /\ stack[i] = b
        /\ Len(stack) \in 1..Len(stack)
    BY <1>1, <1>2, <2>1
  <2> QED BY Zenon, <1>3, <2>2 DEF Listed
<1>5. ASSUME Listed(b), b # stack[Len(stack)] PROVE Listed(b)'
  <2>1. PICK i \in 1..Len(stack) : stack[i] = b
    BY Zenon, <1>5 DEF Listed
  <2>2. i \in 1..(Len(stack) - 1)
    BY <1>1, <1>5, <2>1
  <2> QED BY Zenon, <1>2, <2>1, <2>2 DEF Listed
<1> QED BY Zenon, <1>4, <1>5

(* Putting a buffer on the list adds it and no other. *)
LEMMA ListedAfterPush ==
  ASSUME IInv, NEW x \in Buffers, stack' = Append(stack, x), NEW b \in Buffers
  PROVE  Listed(b)' <=> Listed(b) \/ b = x
<1>1. /\ Len(stack) \in Nat /\ Len(stack') = Len(stack) + 1
      /\ \A i \in 1..Len(stack) : stack'[i] = stack[i]
      /\ stack'[Len(stack) + 1] = x
  BY AppendProperties, LenProperties DEF IInv, TypeOK
<1>2. ASSUME Listed(b)' PROVE Listed(b) \/ b = x
  <2>1. PICK i \in 1..(Len(stack) + 1) : stack'[i] = b
    BY Zenon, <1>1, <1>2 DEF Listed
  <2>2. i = Len(stack) + 1 \/ i \in 1..Len(stack)
    BY <1>1, <2>1
  <2> QED BY Zenon, <1>1, <2>1, <2>2 DEF Listed
<1>3. ASSUME Listed(b) PROVE Listed(b)'
  <2>1. PICK i \in 1..Len(stack) : stack[i] = b
    BY Zenon, <1>3 DEF Listed
  <2>2. i \in 1..Len(stack') /\ stack'[i] = b
    BY <1>1, <2>1
  <2> QED BY Zenon, <2>2 DEF Listed
<1>4. ASSUME b = x PROVE Listed(b)'
  <2>1. Len(stack) + 1 \in 1..Len(stack') /\ stack'[Len(stack) + 1] = b
    BY <1>1, <1>4
  <2> QED BY Zenon, <2>1 DEF Listed
<1> QED BY Zenon, <1>2, <1>3, <1>4

(* The word and the link a pop() commits with are current: after 1 to       *)
(* MaxStall updates the generation differs from the one it loaded.          *)
LEMMA PopCasIsFresh ==
  ASSUME StallBounded, IInv, NEW t \in Threads, pc[t] = "pop_cas", CasMatch(t)
  PROVE  /\ stall[t] = 0
         /\ next[t] = link[top.idx]
         /\ stack # <<>>
         /\ top.idx = stack[Len(stack)]
         /\ next[t] = IF Len(stack) = 1 THEN kEmpty ELSE stack[Len(stack) - 1]
<1>1. stall[t] = 0
  <2> SUFFICES ASSUME stall[t] # 0 PROVE FALSE
    BY Zenon
  <2>1. stall[t] \in 1..(GenMod - 1) /\ old[t].gen \in 0..(GenMod - 1)
    BY PoolAssumption DEF IInv, TypeOK, StallBounded, Words
  <2>2. old[t].gen % GenMod # (old[t].gen + stall[t]) % GenMod
    <3> DEFINE x == old[t].gen
               y == old[t].gen + stall[t]
    <3>1. x \in Int /\ y \in Int /\ x < y /\ y - x < GenMod /\ GenMod \in Nat \ {0}
      BY <2>1, PoolAssumption
    <3> HIDE DEF x, y
    <3>2. x % GenMod # y % GenMod
      BY Zenon, <3>1, ModDistinct
    <3> QED BY Zenon, <3>2 DEF x, y
  <2>3. old[t].gen % GenMod = old[t].gen
    BY <2>1, PoolAssumption
  <2>4. top.gen = (old[t].gen + stall[t]) % GenMod
    BY Zenon DEF IInv, PopWindows, WindowOf, InPopWindow
  <2> QED BY Zenon, <2>2, <2>3, <2>4 DEF CasMatch
<1>2. top = old[t] /\ top.idx # kEmpty /\ next[t] = link[top.idx]
  BY Zenon, <1>1 DEF IInv, PopWindows, WindowOf, InPopWindow, CasMatch
<1>3. stack # <<>> /\ top.idx = stack[Len(stack)]
  BY Zenon, <1>2 DEF IInv, FreeListIntact
<1>4. Len(stack) \in Nat \ {0}
  BY Zenon, <1>3, EmptySeq DEF IInv, TypeOK
<1>5. link[stack[Len(stack)]]
        = IF Len(stack) = 1 THEN kEmpty ELSE stack[Len(stack) - 1]
  <2> DEFINE n == Len(stack)
  <2>1. n \in 1..Len(stack)
    BY <1>4
  <2> QED BY Zenon, <2>1 DEF IInv, FreeListIntact
<1> QED BY Zenon, <1>1, <1>2, <1>3, <1>5

(* One more update of top_: the windows of the other pops shift by one. *)
LEMMA UpdateShiftsWindows ==
  ASSUME IInv, NEW t \in Threads, OneMoreUpdate(t),
         top'.gen = BumpGen(top), link' = link, 
         \A u \in Threads \ {t} : /\ pc'[u] = pc[u] /\ old'[u] = old[u]
                                   /\ next'[u] = next[u],
         pc'[t] \notin {"pop_link", "pop_cas"}
  PROVE  PopWindows'
<1> SUFFICES ASSUME NEW u \in Threads
             PROVE  /\ InPopWindow(u)' =>
                         /\ top'.gen = (old'[u].gen + stall'[u]) % GenMod
                         /\ stall'[u] = 0 => top' = old'[u]
                    /\ pc'[u] = "pop_cas" =>
                         /\ old'[u].idx # kEmpty
                         /\ stall'[u] = 0 => next'[u] = link'[old'[u].idx]
  BY Zenon DEF PopWindows, WindowOf
<1>1. CASE u = t
  BY Zenon, <1>1 DEF InPopWindow
<1>2. CASE u # t /\ ~InPopWindow(u)
  BY Zenon, <1>2 DEF InPopWindow
<1>3. CASE u # t /\ InPopWindow(u)
  <2>1. stall'[u] = stall[u] + 1 /\ stall[u] \in Nat
    BY <1>3, PoolAssumption DEF OneMoreUpdate, IInv, TypeOK
  <2>2. top.gen = (old[u].gen + stall[u]) % GenMod
    BY Zenon, <1>3 DEF IInv, PopWindows, WindowOf
  <2>3. old[u].gen + stall[u] \in Int
    BY SMTT(30), <2>1, PoolAssumption DEF IInv, TypeOK, Words
  <2>4. (((old[u].gen + stall[u]) % GenMod) + 1) % GenMod
          = ((old[u].gen + stall[u]) + 1) % GenMod
    BY SMTT(30), <2>3, PoolAssumption, ModAdd
  <2>5. (old[u].gen + stall[u]) + 1 = old[u].gen + (stall[u] + 1)
    BY <2>1, PoolAssumption DEF IInv, TypeOK, Words
  <2>6. top'.gen = (old'[u].gen + stall'[u]) % GenMod
    BY ZenonT(30), <1>3, <2>1, <2>2, <2>4, <2>5 DEF BumpGen
  <2>7. pc'[u] = "pop_cas" => old'[u].idx # kEmpty
    BY Zenon, <1>3 DEF IInv, PopWindows, WindowOf
  <2>8. stall'[u] # 0
    BY <2>1
  <2> QED BY ZenonT(30), <2>6, <2>7, <2>8
<1> QED BY Zenon, <1>1, <1>2, <1>3

-----------------------------------------------------------------------------
(* The constructor leaves the invariant behind. *)
LEMMA InitIInv == Init => IInv
<1> SUFFICES ASSUME Init PROVE IInv
  BY Zenon
<1> USE PoolAssumption DEF Init
<1>1. TypeOK
  BY Zenon, InitTypeOK
<1>2. PopWindows /\ Hands
  BY Zenon DEF PopWindows, WindowOf, Hands, HandOf, InPopWindow
<1>3. Len(stack) = BufferCount /\ \A i \in 1..BufferCount : stack[i] = i - 1
  OBVIOUS
<1>4. OneOwner
  <2>1. \A b \in Buffers : b + 1 \in 1..Len(stack) /\ stack[b + 1] = b
    BY <1>3 DEF Buffers
  <2>2. \A b \in Buffers : Listed(b)
    BY Zenon, <2>1 DEF Listed
  <2>3. \A t \in Threads, b \in Buffers : ~InHand(t, b)
    BY Zenon DEF InHand
  <2> QED BY SMTT(30), <1>3, <2>2, <2>3 DEF OneOwner
<1>5. FreeListIntact
  <2>1. stack # <<>>
    BY Zenon, <1>1, <1>3, EmptySeq DEF TypeOK
  <2>2. top.idx = stack[Len(stack)]
    <3>1. stack[BufferCount] = BufferCount - 1
      BY <1>3
    <3> QED BY Zenon, <1>3, <3>1 DEF pack
  <2>3. ASSUME NEW i \in 1..Len(stack)
        PROVE  link[stack[i]] = IF i = 1 THEN kEmpty ELSE stack[i - 1]
    <3>1. stack[i] = i - 1 /\ i - 1 \in Buffers /\ link[i - 1] = i - 2
      BY <1>3 DEF Buffers
    <3>2. i # 1 => stack[i - 1] = i - 2
      BY <1>3
    <3> QED BY SMTT(30), <3>1, <3>2 DEF kEmpty
  <2> QED BY Zenon, <2>1, <2>2, <2>3 DEF FreeListIntact
<1> QED BY ZenonT(30), <1>1, <1>2, <1>4, <1>5 DEF IInv

(* What the invariant says of a thread whose locals a step leaves alone. *)
Untouched(u) ==
  /\ pc'[u] = pc[u] /\ old'[u] = old[u] /\ next'[u] = next[u]
  /\ buf'[u] = buf[u] /\ stall'[u] = stall[u]

LEMMA UntouchedThread ==
  ASSUME NEW u \in Threads, Untouched(u), UNCHANGED <<top, link>>,
         WindowOf(u), HandOf(u)
  PROVE  WindowOf(u)' /\ HandOf(u)'
<1>1. WindowOf(u)'
  BY Zenon DEF Untouched, WindowOf, InPopWindow
<1>2. HandOf(u)'
  BY Zenon DEF Untouched, HandOf
<1> QED BY Zenon, <1>1, <1>2

(* Ownership when no buffer moves. *)
LEMMA SameOwners ==
  ASSUME OneOwner, UNCHANGED <<stack, held>>,
         \A u \in Threads, b \in Buffers : InHand(u, b)' <=> InHand(u, b)
  PROVE  OneOwner'
<1>1. \A b \in Buffers : Listed(b)' <=> Listed(b)
  BY Zenon DEF Listed
<1> QED BY Zenon, <1>1 DEF OneOwner

(* The steps that move no buffer and touch no shared word of the list. *)
LEMMA QuietSteps ==
  ASSUME IInv, NEW t \in Threads,
         \/ Acquire(t) \/ PopEmpty(t) \/ PopLink(t) \/ PopCasFail(t)
         \/ PopSize(t) \/ PushCasFail(t) \/ PushSize(t) \/ ReleaseReturn(t)
  PROVE  (PopWindows /\ Hands /\ OneOwner /\ FreeListIntact)'
<1>1. UNCHANGED <<top, link, stack, held>>
  BY Zenon DEF Acquire, PopEmpty, PopLink, PopCasFail, PopSize, PushCasFail,
         PushSize, ReleaseReturn
<1>2. FreeListIntact'
  BY ZenonT(30), <1>1 DEF FreeListIntact, IInv
<1>3. \A u \in Threads \ {t} : Untouched(u)
  BY SMTT(30) DEF Untouched, Acquire, PopEmpty, PopLink, PopCasFail, PopSize, PushCasFail,
         PushSize, ReleaseReturn, Return, CasReload, IInv, TypeOK
<1>4. \A b \in Buffers : InHand(t, b)' <=> InHand(t, b)
  BY SMTT(20) DEF Acquire, PopEmpty, PopLink, PopCasFail, PopSize, PushCasFail,
         PushSize, ReleaseReturn, Return, InHand, PushRetry, IInv, TypeOK
<1>5. OneOwner'
  <2>1. \A u \in Threads, b \in Buffers : InHand(u, b)' <=> InHand(u, b)
    BY Zenon, <1>3, <1>4 DEF InHand, Untouched, IInv, TypeOK
  <2>2. OneOwner
    BY Zenon DEF IInv
  <2> QED BY ZenonT(30), <1>1, <2>1, <2>2, SameOwners
<1>a. \A u \in Threads \ {t} : WindowOf(u)' /\ HandOf(u)'
  <2>1. \A u \in Threads : WindowOf(u) /\ HandOf(u)
    BY Zenon DEF IInv, PopWindows, Hands
  <2> QED BY ZenonT(30), <1>1, <1>3, <2>1, UntouchedThread
<1>6. Hands'
  <2>1. /\ pc'[t] \in {"pop_size", "acquired", "push_link", "push_cas"}
             => buf'[t] \in Buffers
        /\ pc'[t] # "push_cas"
    BY ZenonT(30) DEF Acquire, PopEmpty, PopLink, PopCasFail, PopSize, PushCasFail,
           PushSize, ReleaseReturn, Return, Hands, HandOf, PushRetry, IInv, TypeOK
  <2>2. HandOf(t)'
    BY Zenon, <2>1 DEF HandOf, IInv
  <2> QED BY ZenonT(30), <1>a, <2>2 DEF Hands
<1>7. PopWindows'
  <2>1. WindowOf(t)'
    <3>1. (top.gen + 0) % GenMod = top.gen
      <4> DEFINE g == top.gen
      <4>1. g \in 0..(GenMod - 1)
        BY Zenon DEF Words, IInv, TypeOK
      <4> HIDE DEF g
      <4>2. GenMod \in Nat \ {0}
        BY Zenon, PoolAssumption
      <4>3. g % GenMod = g
        BY Zenon, <4>1, <4>2, ModSmall
      <4>4. g + 0 = g
        BY <4>1, <4>2
      <4> QED BY Zenon, <4>3, <4>4 DEF g
    <3>2. CASE Acquire(t)
      BY Zenon, <3>1, <3>2 DEF Acquire, InPopWindow, WindowOf, IInv, TypeOK
    <3>3. CASE PopEmpty(t)
      BY Zenon, <3>3 DEF PopEmpty, Return, InPopWindow, WindowOf, IInv, TypeOK
    <3>4. CASE PopLink(t)
      BY Zenon, <3>4 DEF PopLink, InPopWindow, PopWindows, WindowOf, IInv, TypeOK
    <3>5. CASE PopCasFail(t)
      BY ZenonT(30), <3>1, <3>5 DEF PopCasFail, CasReload, InPopWindow, WindowOf, IInv, TypeOK
    <3>6. CASE PopSize(t) \/ PushCasFail(t) \/ PushSize(t) \/ ReleaseReturn(t)
      BY Zenon, <3>6 DEF PopSize, PushCasFail, PushSize, ReleaseReturn, Return,
                  InPopWindow, PushRetry, WindowOf, IInv, TypeOK
    <3> QED BY ZenonT(30), <3>2, <3>3, <3>4, <3>5, <3>6
  <2> QED BY <1>a, <2>1 DEF PopWindows
<1> QED BY ZenonT(30), <1>2, <1>5, <1>6, <1>7 DEF IInv, TypeOK

(* A pop() that wins takes the first buffer of the list into its hands. *)
LEMMA PopCasStep ==
  ASSUME StallBounded, IInv, NEW t \in Threads, PopCas(t)
  PROVE  (PopWindows /\ Hands /\ OneOwner /\ FreeListIntact)'
<1> DEFINE n == Len(stack)
<1>0. pc[t] = "pop_cas" /\ CasMatch(t) /\ OneMoreUpdate(t)
        /\ UNCHANGED <<link, held, old, next>>
  BY Zenon DEF PopCas
<1>1. /\ stack # <<>> /\ top.idx = stack[n] /\ old[t] = top
      /\ next[t] = IF n = 1 THEN kEmpty ELSE stack[n - 1]
  BY Zenon, <1>0, PopCasIsFresh DEF CasMatch
<1>2. n \in Nat \ {0} /\ \A i \in 1..n : stack[i] \in Buffers
  BY ZenonT(30), <1>1, EmptySeq, ElementOfSeq DEF IInv, TypeOK
<1>3. /\ stack' \in Seq(Buffers)
      /\ Len(stack') = n - 1
      /\ \A i \in 1..(n - 1) : stack'[i] = stack[i]
  BY Zenon, <1>1, FrontProperties DEF PopCas, IInv, TypeOK
<1>4. /\ pc'[t] = "pop_size" /\ buf'[t] = stack[n]
      /\ top'.gen = BumpGen(top) /\ top'.idx = next[t]
      /\ \A u \in Threads \ {t} : pc'[u] = pc[u] /\ buf'[u] = buf[u]
  BY Zenon, <1>1 DEF PopCas, pack, IInv, TypeOK
<1> HIDE DEF n
<1>5. PopWindows'
  BY ZenonT(30), <1>0, <1>4, UpdateShiftsWindows DEF IInv, TypeOK
<1>6. Hands'
  BY SMTT(30), <1>0, <1>2, <1>4 DEF Hands, HandOf, IInv, TypeOK
<1>7. OneOwner'
  <2>0. \A i, j \in 1..n : stack[i] = stack[j] => i = j
    BY Zenon DEF OneOwner, n, IInv
  <2>1. \A b \in Buffers : Listed(b)' <=> Listed(b) /\ b # stack[n]
    BY Zenon, <1>1, ListedAfterPop DEF PopCas, n
  <2>2. \A b \in Buffers : InHand(t, b)' <=> b = stack[n]
    BY Zenon, <1>4 DEF InHand
  <2>3. \A b \in Buffers, u \in Threads \ {t} : InHand(u, b)' <=> InHand(u, b)
    BY Zenon, <1>4 DEF InHand
  <2>4. \A b \in Buffers : ~InHand(t, b)
    BY Zenon, <1>0 DEF InHand
  <2>5. stack[n] \in Buffers /\ Listed(stack[n])
    BY <1>2 DEF Listed, n
  <2>6. ASSUME NEW i \in 1..Len(stack'), NEW j \in 1..Len(stack'),
               stack'[i] = stack'[j]
        PROVE  i = j
    <3>1. i \in 1..n /\ j \in 1..n /\ stack[i] = stack[j]
      BY SMTT(30), <1>2, <1>3, <2>6
    <3> QED BY Zenon, <2>0, <3>1
  <2>7. ASSUME NEW b \in Buffers
        PROVE  /\ Listed(b)' => b \notin held'
               /\ \A u \in Threads : InHand(u, b)' => ~Listed(b)' /\ b \notin held'
               /\ \A u, v \in Threads : InHand(u, b)' /\ InHand(v, b)' => u = v
               /\ Listed(b)' \/ b \in held' \/ \E u \in Threads : InHand(u, b)'
    <3>1. CASE b = stack[n]
      <4>1. ~Listed(b)' /\ b \notin held' /\ InHand(t, b)'
        BY SMTT(30), <1>0, <2>1, <2>2, <2>5, <3>1 DEF OneOwner, IInv
      <4>2. \A u \in Threads : InHand(u, b)' => u = t
        BY ZenonT(30), <2>3, <2>5, <3>1 DEF OneOwner, IInv
      <4> QED BY ZenonT(30), <4>1, <4>2
    <3>2. CASE b # stack[n]
      <4>1. /\ Listed(b)' <=> Listed(b)
            /\ b \in held' <=> b \in held
            /\ \A u \in Threads : InHand(u, b)' <=> InHand(u, b)
        BY ZenonT(30), <1>0, <2>1, <2>2, <2>3, <2>4, <3>2
      <4> QED BY <4>1 DEF OneOwner, IInv
    <3> QED BY Zenon, <3>1, <3>2
  <2> QED BY Zenon, <2>6, <2>7 DEF OneOwner
<1>8. FreeListIntact'
  <2>1. top'.idx = IF stack' = <<>> THEN kEmpty ELSE stack'[Len(stack')]
    <3>1. CASE n = 1
      <4>1. stack' = <<>>
        BY SMTT(30), <1>3, <3>1, EmptySeq
      <4> QED BY SMTT(30), <4>1, <1>1, <1>4, <3>1 DEF n
    <3>2. CASE n # 1
      <4>1. n - 1 \in 1..(n - 1) /\ Len(stack') # 0
        BY SMTT(30), <1>2, <1>3, <3>2
      <4>2. stack' # <<>>
        BY Zenon, <4>1, EmptySeq
      <4> QED BY ZenonT(30), <4>1, <4>2, <1>1, <1>3, <1>4, <3>2 DEF n, IInv
    <3> QED BY ZenonT(30), <3>1, <3>2
  <2>2. ASSUME NEW i \in 1..Len(stack')
        PROVE  link'[stack'[i]] = IF i = 1 THEN kEmpty ELSE stack'[i - 1]
    <3>1. i \in 1..n /\ stack'[i] = stack[i] /\ (i # 1 => stack'[i - 1] = stack[i - 1])
      BY SMTT(30), <1>2, <1>3
    <3>2. link[stack[i]] = IF i = 1 THEN kEmpty ELSE stack[i - 1]
      BY Zenon, <3>1 DEF FreeListIntact, n, IInv
    <3> QED BY ZenonT(30), <1>0, <3>1, <3>2
  <2> QED BY ZenonT(30), <2>1, <2>2 DEF FreeListIntact
<1> QED BY ZenonT(30), <1>5, <1>6, <1>7, <1>8

(* A push() that wins puts its own buffer in front. *)
LEMMA PushCasStep ==
  ASSUME IInv, NEW t \in Threads, PushCas(t)
  PROVE  (PopWindows /\ Hands /\ OneOwner /\ FreeListIntact)'
<1> DEFINE n == Len(stack)
           x == buf[t]
<1>0. /\ pc[t] = "push_cas" /\ OneMoreUpdate(t) /\ old[t] = top
      /\ UNCHANGED <<link, held, old, next, buf>>
  BY Zenon DEF PushCas, CasMatch
<1>1. x \in Buffers /\ link[x] = top.idx /\ InHand(t, x)
  BY Zenon, <1>0 DEF Hands, HandOf, InHand, IInv
<1>2. /\ n \in Nat /\ Len(stack') = n + 1
      /\ \A i \in 1..n : stack'[i] = stack[i]
      /\ stack'[n + 1] = x
      /\ stack' # <<>>
  <2>1. stack \in Seq(Buffers) /\ stack' = Append(stack, x)
    BY Zenon DEF PushCas, IInv, TypeOK
  <2> HIDE DEF x
  <2> QED BY SMTT(30), <1>1, <2>1, AppendProperties, LenProperties, EmptySeq
<1>3. /\ pc'[t] = "push_size"
      /\ top'.gen = BumpGen(top) /\ top'.idx = x
      /\ \A u \in Threads \ {t} : pc'[u] = pc[u]
  BY SMTT(20), <1>0 DEF PushCas, pack, IInv, TypeOK
<1>4. ~Listed(x) /\ x \notin held /\ \A u \in Threads : InHand(u, x) => u = t
  BY Zenon, <1>1 DEF OneOwner, IInv
<1> HIDE DEF n, x
<1>5. PopWindows'
  BY ZenonT(30), <1>0, <1>3, UpdateShiftsWindows
<1>6. Hands'
  BY Zenon, <1>0, <1>3 DEF Hands, HandOf, IInv
<1>7. OneOwner'
  <2>1. \A b \in Buffers : Listed(b)' <=> Listed(b) \/ b = x
    BY Zenon, <1>1, ListedAfterPush DEF PushCas, x
  <2>2. \A b \in Buffers : ~InHand(t, b)'
    BY Zenon, <1>3 DEF InHand
  <2>3. \A b \in Buffers, u \in Threads \ {t} : InHand(u, b)' <=> InHand(u, b)
    BY Zenon, <1>0, <1>3 DEF InHand, IInv
  <2>4. \A b \in Buffers : InHand(t, b) => b = x
    BY Zenon DEF InHand, x
  <2>5. ASSUME NEW i \in 1..Len(stack'), NEW j \in 1..Len(stack'),
               stack'[i] = stack'[j]
        PROVE  i = j
    <3>1. \A k \in 1..n : stack'[k] = stack[k] /\ stack[k] # x
      BY Zenon, <1>2, <1>4 DEF Listed, n
    <3>2. \A k, l \in 1..n : stack[k] = stack[l] => k = l
      BY Zenon DEF OneOwner, n, IInv
    <3>3. (i \in 1..n \/ i = n + 1) /\ (j \in 1..n \/ j = n + 1) /\ stack'[n + 1] = x
      BY <1>2
    <3> QED BY ZenonT(30), <2>5, <3>1, <3>2, <3>3
  <2>6. ASSUME NEW b \in Buffers
        PROVE  /\ Listed(b)' => b \notin held'
               /\ \A u \in Threads : InHand(u, b)' => ~Listed(b)' /\ b \notin held'
               /\ \A u, v \in Threads : InHand(u, b)' /\ InHand(v, b)' => u = v
               /\ Listed(b)' \/ b \in held' \/ \E u \in Threads : InHand(u, b)'
    <3>1. held' = held /\ \A u \in Threads : InHand(u, b)' => u # t /\ InHand(u, b)
      BY ZenonT(30), <1>0, <2>2, <2>3
    <3>2. /\ Listed(b) => b \notin held
          /\ \A u \in Threads : InHand(u, b) => ~Listed(b) /\ b \notin held
          /\ \A u, v \in Threads : InHand(u, b) /\ InHand(v, b) => u = v
          /\ Listed(b) \/ b \in held \/ \E u \in Threads : InHand(u, b)
      BY Zenon DEF OneOwner, IInv
    <3>3. Listed(b)' => b \notin held'
      BY ZenonT(30), <1>4, <2>1, <3>1, <3>2
    <3>4. \A u \in Threads : InHand(u, b)' => ~Listed(b)' /\ b \notin held'
      BY ZenonT(30), <1>4, <2>1, <3>1, <3>2
    <3>5. \A u, v \in Threads : InHand(u, b)' /\ InHand(v, b)' => u = v
      BY Zenon, <3>1, <3>2
    <3>6. Listed(b)' \/ b \in held' \/ \E u \in Threads : InHand(u, b)'
      BY ZenonT(30), <2>1, <2>3, <2>4, <3>1, <3>2
    <3> QED BY ZenonT(30), <3>3, <3>4, <3>5, <3>6
  <2> QED BY ZenonT(30), <2>5, <2>6 DEF OneOwner
<1>8. FreeListIntact'
  <2>1. top'.idx = stack'[Len(stack')]
    BY Zenon, <1>2, <1>3
  <2>2. ASSUME NEW i \in 1..Len(stack')
        PROVE  link'[stack'[i]] = IF i = 1 THEN kEmpty ELSE stack'[i - 1]
    <3>1. CASE i \in 1..n
      <4>1. stack'[i] = stack[i] /\ (i # 1 => stack'[i - 1] = stack[i - 1])
        BY SMTT(30), <1>2, <3>1
      <4>2. link[stack[i]] = IF i = 1 THEN kEmpty ELSE stack[i - 1]
        BY Zenon, <3>1 DEF FreeListIntact, n, IInv
      <4> QED BY ZenonT(30), <1>0, <4>1, <4>2 DEF IInv
    <3>2. CASE i = n + 1
      <4>1. link'[stack'[i]] = top.idx
        BY SMTT(30), <1>0, <1>1, <1>2, <3>2 DEF IInv
      <4>2. CASE n = 0
        <5>1. stack = <<>>
          BY SMTT(30), <4>2, EmptySeq DEF n
        <5> QED BY SMTT(30), <4>1, <4>2, <5>1, <3>2 DEF FreeListIntact, IInv
      <4>3. CASE n # 0
        <5>1. stack # <<>> /\ n \in 1..n /\ i # 1 /\ i - 1 = n
          BY SMTT(30), <1>2, <3>2, <4>3, EmptySeq DEF n
        <5> QED BY SMTT(30), <1>2, <4>1, <5>1 DEF FreeListIntact, n, IInv
      <4> QED BY ZenonT(30), <4>2, <4>3 DEF IInv
    <3> QED BY SMTT(30), <1>2, <3>1, <3>2
  <2> QED BY ZenonT(30), <1>2, <2>1, <2>2 DEF FreeListIntact, IInv
<1> QED BY ZenonT(30), <1>5, <1>6, <1>7, <1>8

(* push() writes the link of the buffer it owns, which no valid pop window  *)
(* and no other push looks at.                                              *)
LEMMA PushLinkStep ==
  ASSUME IInv, NEW t \in Threads, PushLink(t)
  PROVE  (PopWindows /\ Hands /\ OneOwner /\ FreeListIntact)'
<1> DEFINE x == buf[t]
<1>0. /\ pc[t] = "push_link" /\ pc'[t] = "push_cas"
      /\ \A u \in Threads \ {t} : pc'[u] = pc[u]
      /\ UNCHANGED <<top, held, old, next, buf, stack, stall>>
  BY Zenon DEF PushLink, IInv, TypeOK
<1>1. /\ x \in Buffers /\ InHand(t, x)
      /\ link'[x] = old[t].idx
      /\ \A b \in Buffers \ {x} : link'[b] = link[b]
  BY Zenon, <1>0 DEF PushLink, Hands, HandOf, InHand, IInv, TypeOK
<1>2. ~Listed(x) /\ \A u \in Threads : InHand(u, x) => u = t
  BY Zenon, <1>1 DEF OneOwner, IInv
<1> HIDE DEF x
<1>3. \A i \in 1..Len(stack) : stack[i] \in Buffers \ {x}
  BY Zenon, <1>2, ElementOfSeq DEF Listed, IInv, TypeOK
<1>4. top.idx # kEmpty => top.idx \in Buffers \ {x}
  <2>1. ASSUME top.idx # kEmpty PROVE top.idx \in Buffers \ {x}
    <3>1. stack # <<>> /\ top.idx = stack[Len(stack)]
      BY Zenon, <2>1 DEF FreeListIntact, IInv
    <3>2. Len(stack) \in 1..Len(stack)
      BY <3>1, EmptySeq
    <3> QED BY ZenonT(30), <1>3, <3>1, <3>2
  <2> QED BY Zenon, <2>1
<1>5. PopWindows'
  <2>1. ASSUME NEW u \in Threads, pc'[u] = "pop_cas", stall[u] = 0
        PROVE  next[u] = link'[old[u].idx]
    <3>1. pc[u] = "pop_cas" /\ old[u].idx # kEmpty /\ next[u] = link[old[u].idx]
            /\ top = old[u]
      BY Zenon, <1>0, <2>1 DEF PopWindows, WindowOf, InPopWindow, IInv, TypeOK
    <3> QED BY ZenonT(30), <1>1, <1>4, <3>1 DEF IInv
  <2> QED BY Zenon, <1>0, <2>1 DEF PopWindows, WindowOf, InPopWindow, IInv
<1>6. Hands'
  <2>1. ASSUME NEW u \in Threads \ {t}, pc[u] = "push_cas"
        PROVE  link'[buf[u]] = old[u].idx
    <3>1. buf[u] \in Buffers /\ InHand(u, buf[u]) /\ link[buf[u]] = old[u].idx
      BY Zenon, <2>1 DEF Hands, HandOf, InHand, IInv
    <3> QED BY ZenonT(30), <1>1, <1>2, <3>1
  <2> QED BY ZenonT(30), <1>0, <1>1, <2>1 DEF Hands, HandOf, x, IInv
<1>7. OneOwner'
  <2>1. \A u \in Threads, b \in Buffers : InHand(u, b)' <=> InHand(u, b)
    BY Zenon, <1>0 DEF InHand, IInv
  <2>2. OneOwner
    BY Zenon DEF IInv
  <2> QED BY ZenonT(30), <1>0, <2>1, <2>2, SameOwners DEF IInv
<1>8. FreeListIntact'
  BY SMTT(30), <1>0, <1>1, <1>3 DEF FreeListIntact, IInv
<1> QED BY Zenon, <1>5, <1>6, <1>7, <1>8

(* A buffer changes hands between the application and a thread. *)
LEMMA HandoverSteps ==
  ASSUME IInv, NEW t \in Threads, NEW b \in Buffers,
         Release(t, b) \/ (AcquireReturn(t) /\ b = buf[t])
  PROVE  (PopWindows /\ Hands /\ OneOwner /\ FreeListIntact)'
<1>0. /\ UNCHANGED <<top, link, stack>>
      /\ \A u \in Threads \ {t} : Untouched(u)
      /\ pc'[t] \in {"push_link", "idle"}
  BY DEF Release, AcquireReturn, Return, Untouched, IInv, TypeOK
<1>a. \A u \in Threads \ {t} : WindowOf(u)' /\ HandOf(u)'
  <2>1. \A u \in Threads : WindowOf(u) /\ HandOf(u)
    BY Zenon DEF IInv, PopWindows, Hands
  <2> QED BY ZenonT(30), <1>0, <2>1, UntouchedThread
<1>1. PopWindows'
  <2>1. WindowOf(t)'
    BY Zenon, <1>0 DEF WindowOf, InPopWindow
  <2> QED BY Zenon, <1>a, <2>1 DEF PopWindows, IInv
<1>2. Hands'
  <2>1. pc'[t] = "push_link" => buf'[t] \in Buffers
    BY SMTT(20) DEF Release, AcquireReturn, Return, IInv, TypeOK
  <2>2. HandOf(t)'
    BY Zenon, <1>0, <2>1 DEF HandOf, IInv
  <2> QED BY ZenonT(30), <1>a, <2>2 DEF Hands, IInv
<1>3. FreeListIntact'
  BY Zenon, <1>0 DEF FreeListIntact, IInv, TypeOK
<1>4. OneOwner'
  <2>1. \A c \in Buffers : Listed(c)' <=> Listed(c)
    BY Zenon, <1>0 DEF Listed
  <2>2. \A u \in Threads \ {t}, c \in Buffers : InHand(u, c)' <=> InHand(u, c)
    BY Zenon, <1>0 DEF InHand, Untouched, IInv
  <2>3. \A i, j \in 1..Len(stack') : stack'[i] = stack'[j] => i = j
    BY Zenon, <1>0 DEF OneOwner, IInv
  <2>4. CASE Release(t, b)
    <3>1. /\ b \in held /\ held' = held \ {b}
          /\ \A c \in Buffers : InHand(t, c)' <=> c = b
          /\ \A c \in Buffers : ~InHand(t, c)
      BY Zenon, <2>4 DEF Release, InHand, IInv, TypeOK
    <3>2. ASSUME NEW c \in Buffers
          PROVE  /\ Listed(c)' => c \notin held'
                 /\ \A u \in Threads : InHand(u, c)' => ~Listed(c)' /\ c \notin held'
                 /\ \A u, v \in Threads : InHand(u, c)' /\ InHand(v, c)' => u = v
                 /\ Listed(c)' \/ c \in held' \/ \E u \in Threads : InHand(u, c)'
      <4>1. CASE c = b
        <5>1. ~Listed(c)' /\ c \notin held' /\ InHand(t, c)'
          BY ZenonT(30), <2>1, <3>1, <4>1 DEF OneOwner, IInv
        <5>2. \A u \in Threads : InHand(u, c)' => u = t
          BY SMTT(30), <2>2, <3>1, <4>1 DEF OneOwner, IInv
        <5> QED BY SMTT(30), <5>1, <5>2 DEF IInv
      <4>2. CASE c # b
        <5>1. /\ Listed(c)' <=> Listed(c)
              /\ c \in held' <=> c \in held
              /\ \A u \in Threads : InHand(u, c)' <=> InHand(u, c)
          BY ZenonT(30), <2>1, <2>2, <3>1, <4>2 DEF IInv
        <5> QED BY ZenonT(30), <5>1 DEF OneOwner, IInv
      <4> QED BY ZenonT(30), <4>1, <4>2 DEF IInv
    <3> QED BY Zenon, <2>3, <3>2 DEF OneOwner
  <2>5. CASE AcquireReturn(t) /\ b = buf[t]
    <3>1. /\ held' = held \cup {b}
          /\ \A c \in Buffers : ~InHand(t, c)'
          /\ \A c \in Buffers : InHand(t, c) <=> c = b
      BY Zenon, <2>5 DEF AcquireReturn, Return, InHand, IInv, TypeOK
    <3>2. ASSUME NEW c \in Buffers
          PROVE  /\ Listed(c)' => c \notin held'
                 /\ \A u \in Threads : InHand(u, c)' => ~Listed(c)' /\ c \notin held'
                 /\ \A u, v \in Threads : InHand(u, c)' /\ InHand(v, c)' => u = v
                 /\ Listed(c)' \/ c \in held' \/ \E u \in Threads : InHand(u, c)'
      <4>1. CASE c = b
        <5>1. ~Listed(c)' /\ c \in held'
          BY ZenonT(30), <2>1, <3>1, <4>1 DEF OneOwner, IInv
        <5>2. \A u \in Threads : ~InHand(u, c)'
          BY SMTT(30), <2>2, <3>1, <4>1 DEF OneOwner, IInv
        <5> QED BY SMTT(30), <5>1, <5>2
      <4>2. CASE c # b
        <5>1. /\ Listed(c)' <=> Listed(c)
              /\ c \in held' <=> c \in held
              /\ \A u \in Threads : InHand(u, c)' <=> InHand(u, c)
          BY ZenonT(30), <2>1, <2>2, <3>1, <4>2
        <5> QED BY ZenonT(30), <5>1 DEF OneOwner, IInv
      <4> QED BY ZenonT(30), <4>1, <4>2
    <3> QED BY Zenon, <2>3, <3>2 DEF OneOwner
  <2> QED BY Zenon, <2>4, <2>5
<1> QED BY ZenonT(30), <1>1, <1>2, <1>3, <1>4

(* Steps that change nothing the invariant mentions but types. *)
LEMMA OtherSteps ==
  ASSUME IInv, UNCHANGED vars \/ \E b \in Buffers : Fill(b)
  PROVE  (PopWindows /\ Hands /\ OneOwner /\ FreeListIntact)'
<1>1. UNCHANGED <<top, link, held, pc, old, next, buf, stack, stall>>
  BY Zenon DEF Fill, vars
<1>2. \A u \in Threads : WindowOf(u) /\ HandOf(u) /\ Untouched(u)
  BY Zenon, <1>1 DEF IInv, PopWindows, Hands, Untouched
<1>3. (PopWindows /\ Hands)'
  BY ZenonT(30), <1>1, <1>2, UntouchedThread DEF PopWindows, Hands
<1>4. \A u \in Threads, b \in Buffers : InHand(u, b)' <=> InHand(u, b)
  BY Zenon, <1>1 DEF InHand
<1>5. OneOwner'
  BY ZenonT(30), <1>1, <1>4, SameOwners DEF IInv
<1>6. FreeListIntact'
  BY Zenon, <1>1 DEF IInv, FreeListIntact
<1> QED BY ZenonT(30), <1>3, <1>5, <1>6

(* IInv is inductive. *)
LEMMA NextIInv == StallBounded /\ IInv /\ [Next]_vars => IInv'
<1> SUFFICES ASSUME StallBounded, IInv, [Next]_vars PROVE IInv'
  BY Zenon
<1>1. TypeOK'
  BY Zenon, NextTypeOK DEF IInv
<1>2. ASSUME NEW t \in Threads, AcquireReturn(t)
      PROVE  (PopWindows /\ Hands /\ OneOwner /\ FreeListIntact)'
  <2>1. buf[t] \in Buffers
    BY ZenonT(30), <1>2 DEF AcquireReturn, IInv, Hands, HandOf
  <2> QED BY ZenonT(30), <1>2, <2>1, HandoverSteps
<1>3. (PopWindows /\ Hands /\ OneOwner /\ FreeListIntact)'
  BY SMTT(30), <1>2, QuietSteps, PopCasStep, PushCasStep, PushLinkStep, HandoverSteps,
     OtherSteps DEF Next, Step, CasSuccess
<1> QED BY Zenon, <1>1, <1>3 DEF IInv

-----------------------------------------------------------------------------
(* The invariant holds in every reachable state of the pool. *)
THEOREM PoolInvariant == StallBounded => (Spec => []IInv)
<1> SUFFICES ASSUME StallBounded PROVE Spec => []IInv
  BY Zenon
<1>1. IInv /\ [Next]_vars => IInv'
  BY Zenon, NextIInv
<1> QED BY <1>1, InitIInv, PTL DEF Spec

(* The free list is never corrupted, whatever the threads do. *)
THEOREM FreeListIsIntact == StallBounded => (Spec => []FreeListIntact)
  BY PoolInvariant, PTL DEF IInv

(* No buffer has two owners and none is lost. *)
THEOREM EveryBufferHasOneOwner == StallBounded => (Spec => []OneOwner)
  BY PoolInvariant, PTL DEF IInv

(* Every variable keeps its type; the pool's counters stay in their width. *)
THEOREM PoolTypeOK == StallBounded => (Spec => []TypeOK)
  BY PoolInvariant, PTL DEF IInv

(* The comment at buffer_pool.cpp:32 is right under StallBounded: a         *)
(* compare-exchange that can succeed acts on a current link.                *)
THEOREM StaleOldNeverWins == StallBounded => (Spec => []StaleOldFailsCas)
<1> SUFFICES ASSUME StallBounded PROVE Spec => []StaleOldFailsCas
  BY Zenon
<1>1. IInv => StaleOldFailsCas
  BY Zenon, PopCasIsFresh DEF StaleOldFailsCas, CasMatch
<1> QED BY <1>1, PoolInvariant, PTL

(* acquire() hands out buffers with len = 0. *)
THEOREM BuffersComeEmpty == Spec => []HandedOutEmpty
<1>1. Init => HandedOutEmpty
  BY Zenon DEF Init, HandedOutEmpty
<1>2. HandedOutEmpty /\ [Next]_vars => HandedOutEmpty'
  <2> SUFFICES ASSUME HandedOutEmpty, [Next]_vars PROVE HandedOutEmpty'
    BY Zenon
  <2>1. ASSUME NEW t \in Threads, AcquireReturn(t) PROVE HandedOutEmpty'
    BY Zenon, <2>1 DEF AcquireReturn, HandedOutEmpty
  <2>2. ASSUME NEW t \in Threads, NEW b \in Buffers, Release(t, b)
        PROVE  HandedOutEmpty'
    BY Zenon, <2>2 DEF Release, LenCleared, HandedOutEmpty
  <2>3. ASSUME NEW b \in Buffers, Fill(b) PROVE HandedOutEmpty'
    BY Zenon, <2>3 DEF Fill, HandedOutEmpty
  <2>4. CASE UNCHANGED <<dirty, held>>
    BY Zenon, <2>4 DEF HandedOutEmpty
  <2> QED
    BY ZenonT(30), <2>1, <2>2, <2>3, <2>4
       DEF Next, Step, CasSuccess, Acquire, PopEmpty, PopLink, PopCas, PopCasFail,
           PopSize, PushLink, PushCas, PushCasFail, PushSize, ReleaseReturn, vars
<1> QED BY <1>1, <1>2, PTL DEF Spec

(* No step writes the link of a buffer on the list. *)
THEOREM LinksOnTheListAreFrozen == StallBounded => (Spec => ListedLinksFrozen)
<1> SUFFICES ASSUME StallBounded PROVE Spec => ListedLinksFrozen
  OBVIOUS
<1>1. IInv /\ [Next]_vars
        => [\A b \in Buffers : Listed(b) => link'[b] = link[b]]_vars
  <2> SUFFICES ASSUME IInv, Next, NEW b \in Buffers, Listed(b)
               PROVE  link'[b] = link[b]
    BY Zenon DEF vars
  <2>1. CASE link' = link
    BY Zenon, <2>1
  <2>2. ASSUME NEW t \in Threads, PushLink(t) PROVE link'[b] = link[b]
    <3>1. buf[t] \in Buffers /\ InHand(t, buf[t])
      BY Zenon, <2>2 DEF PushLink, IInv, Hands, HandOf, InHand
    <3>2. b # buf[t]
      BY Zenon, <3>1 DEF IInv, OneOwner
    <3> QED BY ZenonT(30), <2>2, <3>1, <3>2 DEF PushLink, IInv, TypeOK
  <2> QED
    BY ZenonT(30), <2>1, <2>2
       DEF Next, Step, CasSuccess, Acquire, PopEmpty, PopLink, PopCas, PopCasFail,
           PopSize, AcquireReturn, Fill, Release, PushCas, PushCasFail, PushSize,
           ReleaseReturn
<1> QED BY <1>1, PoolInvariant, PTL DEF Spec, ListedLinksFrozen

(* The interleaved pool implements the atomic one: the compare-exchanges    *)
(* are the instants at which acquire() and release() take effect.           *)
THEOREM PoolIsAtomic == StallBounded => (Spec => ImplementsAtomicPool)
<1> SUFFICES ASSUME StallBounded PROVE Spec => Pool!Spec
  BY Zenon DEF ImplementsAtomicPool
<1>1. Init => Pool!Init
  <2> SUFFICES ASSUME Init PROVE Pool!Init
    BY Zenon
  <2>1. IInv
    BY Zenon, InitIInv
  <2>2. \A b \in Buffers : b \notin Out /\ Listed(b)
    BY Zenon, <2>1 DEF Init, Out, InHand, IInv, OneOwner
  <2>3. Out = {}
    BY Zenon, <2>2 DEF Out
  <2> QED BY ZenonT(30), <2>1, <2>2, <2>3 DEF Pool!Init, IInv, TypeOK, OneOwner, Listed
<1>2. IInv /\ IInv' /\ [Next]_vars => [Pool!Next]_<<stack, Out>>
  <2> SUFFICES ASSUME IInv, IInv', [Next]_vars
               PROVE  Pool!Next \/ (stack' = stack /\ Out' = Out)
    BY Zenon
  <2>0. /\ Out = {b \in Buffers : ~Listed(b)}
        /\ Out' = {b \in Buffers : ~Listed(b)'}
    <3>1. \A b \in Buffers : b \in Out <=> ~Listed(b)
      BY Zenon DEF IInv, OneOwner, Out
    <3>2. \A b \in Buffers : b \in Out' <=> ~Listed(b)'
      BY Zenon DEF IInv, OneOwner, Out
    <3> QED BY Zenon, <3>1, <3>2 DEF Out
  <2>1. ASSUME stack' = stack PROVE Out' = Out
    BY Zenon, <2>0, <2>1 DEF Listed
  <2>2. ASSUME NEW t \in Threads, PopCas(t) PROVE Pool!Acquire
    <3>1. stack # <<>>
      BY Zenon, <2>2, PopCasIsFresh DEF PopCas
    <3>2. stack' = SubSeq(stack, 1, Len(stack) - 1)
      BY Zenon, <2>2 DEF PopCas
    <3>3. \A b \in Buffers : Listed(b)' <=> Listed(b) /\ b # stack[Len(stack)]
      BY ZenonT(30), <3>1, <3>2, ListedAfterPop
    <3>4. Len(stack) \in 1..Len(stack)
      BY SMTT(30), <3>1, EmptySeq DEF IInv, TypeOK
    <3>5. stack[Len(stack)] \in Buffers
      BY Zenon, <3>4, ElementOfSeq DEF IInv, TypeOK
    <3>6. Out' = Out \cup {stack[Len(stack)]}
      BY Zenon, <2>0, <3>3, <3>5
    <3> QED BY ZenonT(30), <3>1, <3>2, <3>6 DEF Pool!Acquire
  <2>3. ASSUME NEW t \in Threads, PushCas(t) PROVE Pool!Release(buf[t])
    <3> DEFINE x == buf[t]
    <3>1. x \in Buffers /\ InHand(t, x)
      BY Zenon, <2>3 DEF PushCas, IInv, Hands, HandOf, InHand
    <3>2. x \in Out
      BY Zenon, <3>1 DEF Out
    <3>3. stack' = Append(stack, x)
      BY Zenon, <2>3 DEF PushCas
    <3> HIDE DEF x
    <3>4. \A b \in Buffers : Listed(b)' <=> Listed(b) \/ b = x
      BY Zenon, <3>1, <3>3, ListedAfterPush
    <3>5. Out' = Out \ {x}
      BY Zenon, <2>0, <3>4
    <3> QED BY ZenonT(30), <3>2, <3>3, <3>5 DEF Pool!Release, x
  <2>4. ASSUME NEW t \in Threads, PushCas(t) PROVE Pool!Next
    <3>1. buf[t] \in Buffers
      BY ZenonT(30), <2>4 DEF PushCas, IInv, Hands, HandOf
    <3> QED BY Zenon, <2>3, <2>4, <3>1 DEF Pool!Next
  <2> QED
    BY ZenonT(30), <2>1, <2>2, <2>4
       DEF Next, Step, CasSuccess, Acquire, PopEmpty, PopLink, PopCasFail, PopSize,
           AcquireReturn, Fill, Release, PushLink, PushCasFail, PushSize,
           ReleaseReturn, vars, Pool!Next
<1>3. IInv /\ [Next]_vars => IInv'
  BY Zenon, NextIInv
<1> QED BY <1>1, <1>2, <1>3, PoolInvariant, PTL DEF Spec, Pool!Spec

-----------------------------------------------------------------------------
(* How many threads are at one of some labels, and how a thread that moves  *)
(* from one label to another changes that.                                  *)
AtAny(L) == {t \in Threads : pc[t] \in L}

MovesTo(t, l) == pc' = [pc EXCEPT ![t] = l]

LEMMA CountsAreNumbers ==
  ASSUME NEW S \in SUBSET Threads
  PROVE  IsFiniteSet(S) /\ Cardinality(S) \in Nat
BY ZenonT(30), ThreadsAssumption, FS_Subset, FS_CardinalityType

LEMMA CountAfterMove ==
  ASSUME TypeOK, NEW t \in Threads, NEW l \in Labels, MovesTo(t, l), NEW L
  PROVE  Cardinality(AtAny(L)') = Cardinality(AtAny(L)) + (IF l \in L THEN 1 ELSE 0)
                                    - (IF pc[t] \in L THEN 1 ELSE 0)
<1> DEFINE S == AtAny(L)
           T == AtAny(L)'
<1>1. S \in SUBSET Threads /\ IsFiniteSet(S) /\ Cardinality(S) \in Nat
  BY Zenon, CountsAreNumbers DEF AtAny
<1>2. pc'[t] = l /\ \A u \in Threads : u # t => pc'[u] = pc[u]
  BY Zenon DEF TypeOK, MovesTo
<1>3. (t \in S <=> pc[t] \in L) /\ (t \in T <=> l \in L)
  BY Zenon, <1>2 DEF AtAny
<1>4. T \ {t} = S \ {t}
  BY Zenon, <1>2 DEF AtAny
<1> HIDE DEF S, T
<1>5. T = IF l \in L THEN (S \ {t}) \cup {t} ELSE S \ {t}
  BY ZenonT(30), <1>3, <1>4
<1>6. /\ IsFiniteSet(S \ {t})
      /\ Cardinality(S \ {t}) = Cardinality(S) - (IF pc[t] \in L THEN 1 ELSE 0)
  BY SMTT(30), <1>1, <1>3, FS_RemoveElement
<1>7. Cardinality((S \ {t}) \cup {t}) = Cardinality(S \ {t}) + 1
  BY Zenon, <1>6, FS_AddElement
<1> QED BY SMTT(30), <1>1, <1>5, <1>6, <1>7 DEF S, T

(* What the two counts are made of. *)
ReleaseLabels == {"push_link", "push_cas", "push_size", "released"}

PushSizes == Cardinality(AtAny({"push_size"}))
PopSizes == Cardinality(AtAny({"pop_size"}))
Releases == Cardinality(AtAny(ReleaseLabels))

LEMMA CountersRead ==
  /\ SizeAccountsForList <=> (size + PushSizes - PopSizes - Len(stack)) % SizeMod = 0
  /\ TotalsAccountForOwners <=>
       (total_acquires - total_releases - Cardinality(held) - Releases) % TotalMod = 0
<1>1. At("push_size") = AtAny({"push_size"}) /\ At("pop_size") = AtAny({"pop_size"})
  BY Zenon DEF At, AtAny
<1>2. Releasing = AtAny(ReleaseLabels)
  BY Zenon DEF Releasing, At, AtAny, ReleaseLabels
<1> QED BY Zenon, <1>1, <1>2 DEF SizeAccountsForList, TotalsAccountForOwners, PushSizes, PopSizes, Releases

LEMMA CountTypes ==
  ASSUME TypeOK
  PROVE  /\ PushSizes \in Nat /\ PopSizes \in Nat /\ Releases \in Nat /\ Len(stack) \in Nat
         /\ IsFiniteSet(held) /\ Cardinality(held) \in Nat
         /\ size \in Int /\ total_acquires \in Int /\ total_releases \in Int
<1>1. PushSizes \in Nat /\ PopSizes \in Nat /\ Releases \in Nat
  BY Zenon, CountsAreNumbers DEF PushSizes, PopSizes, Releases, AtAny
<1>2. IsFiniteSet(held) /\ Cardinality(held) \in Nat
  <2>1. IsFiniteSet(Buffers) /\ held \in SUBSET Buffers
    BY SMTT(30), PoolAssumption, FS_Interval DEF Buffers, TypeOK
  <2> QED BY ZenonT(30), <2>1, FS_Subset, FS_CardinalityType
<1>3. Len(stack) \in Nat /\ size \in Int /\ total_acquires \in Int /\ total_releases \in Int
  BY LenProperties DEF TypeOK
<1> QED BY ZenonT(30), <1>1, <1>2, <1>3

(* The counts of threads after a move of one of them. *)
LEMMA CountsAfterMove ==
  ASSUME TypeOK, NEW t \in Threads, NEW l \in Labels, MovesTo(t, l)
  PROVE  /\ PushSizes' = PushSizes + (IF l = "push_size" THEN 1 ELSE 0)
                                   - (IF pc[t] = "push_size" THEN 1 ELSE 0)
         /\ PopSizes' = PopSizes + (IF l = "pop_size" THEN 1 ELSE 0)
                                 - (IF pc[t] = "pop_size" THEN 1 ELSE 0)
         /\ Releases' = Releases + (IF l \in ReleaseLabels THEN 1 ELSE 0)
                                 - (IF pc[t] \in ReleaseLabels THEN 1 ELSE 0)
<1>1. \A L : Cardinality(AtAny(L)') = Cardinality(AtAny(L)) + (IF l \in L THEN 1 ELSE 0)
                                    - (IF pc[t] \in L THEN 1 ELSE 0)
  BY Zenon, CountAfterMove
<1>2. \A a, b : a \in {b} <=> a = b
  BY Zenon
<1> QED BY Zenon, <1>1, <1>2 DEF PushSizes, PopSizes, Releases

SizeCounted == (size + PushSizes - PopSizes - Len(stack)) % SizeMod = 0
TotalsCounted ==
  (total_acquires - total_releases - Cardinality(held) - Releases) % TotalMod = 0

LEMMA InitCounted == Init => SizeCounted /\ TotalsCounted
<1> SUFFICES ASSUME Init PROVE SizeCounted /\ TotalsCounted
  BY Zenon
<1>1. PushSizes = 0 /\ PopSizes = 0 /\ Releases = 0 /\ Cardinality(held) = 0
  <2>1. \A L \in {{"push_size"}, {"pop_size"}, ReleaseLabels} : AtAny(L) = {}
    BY Zenon DEF Init, AtAny, ReleaseLabels
  <2> QED BY ZenonT(30), <2>1, FS_EmptySet DEF Init, PushSizes, PopSizes, Releases
<1>2. Len(stack) = BufferCount /\ size = BufferCount % SizeMod /\ BufferCount \in Nat
  BY SMTT(30), PoolAssumption DEF Init
<1>3. size \in Int /\ size + 0 - 0 - BufferCount = size + (0 - BufferCount) /\ 0 - BufferCount \in Int
  BY SMTT(30), <1>2, PoolAssumption, ModDef
<1>4. SizeMod \in Nat \ {0} /\ BufferCount \in Int
  BY PoolAssumption
<1>5. (size + (0 - BufferCount)) % SizeMod = (BufferCount + (0 - BufferCount)) % SizeMod
  BY ZenonT(30), <1>2, <1>3, <1>4, ModAdd
<1>6. 0 % SizeMod = 0 /\ 0 % TotalMod = 0 /\ BufferCount + (0 - BufferCount) = 0
  BY SMTT(30), <1>2, PoolAssumption, ModSmall
<1>7. SizeCounted
  BY ZenonT(30), <1>1, <1>2, <1>3, <1>5, <1>6 DEF SizeCounted
<1>8. TotalsCounted
  BY SMTT(30), <1>1, <1>6 DEF TotalsCounted, Init
<1> QED BY Zenon, <1>7, <1>8

(* A step that counts nothing leaves both sums as they were; the others     *)
(* change two of their terms.                                               *)
LEMMA SizeStaysCounted ==
  ASSUME StallBounded, IInv, SizeCounted, [Next]_vars
  PROVE  SizeCounted'
<1> DEFINE x == size + PushSizes - PopSizes - Len(stack)
<1>1. /\ PushSizes \in Nat /\ PopSizes \in Nat /\ Len(stack) \in Nat /\ size \in Int
      /\ TypeOK /\ x \in Int /\ x % SizeMod = 0
  BY CountTypes DEF IInv, SizeCounted
<1>2. ASSUME UNCHANGED <<size, stack>>,
             UNCHANGED pc \/ \E t \in Threads, l \in Labels :
               /\ MovesTo(t, l)
               /\ {l, pc[t]} \cap {"push_size", "pop_size"} = {}
      PROVE  SizeCounted'
  <2>1. CASE UNCHANGED pc
    BY ZenonT(30), <1>2, <2>1 DEF SizeCounted, PushSizes, PopSizes, AtAny
  <2>2. CASE \E t \in Threads, l \in Labels :
               /\ MovesTo(t, l)
               /\ {l, pc[t]} \cap {"push_size", "pop_size"} = {}
    <3>1. PICK t \in Threads, l \in Labels :
            MovesTo(t, l) /\ {l, pc[t]} \cap {"push_size", "pop_size"} = {}
      BY Zenon, <2>2
    <3>2. l # "push_size" /\ pc[t] # "push_size" /\ l # "pop_size" /\ pc[t] # "pop_size"
      BY ZenonT(30), <3>1
    <3>3. PushSizes' = PushSizes /\ PopSizes' = PopSizes
      BY SMTT(30), <1>1, <3>1, <3>2, CountsAfterMove
    <3> QED BY Zenon, <1>2, <3>3 DEF SizeCounted
  <2> QED BY ZenonT(30), <1>2, <2>1, <2>2
<1>3. ASSUME NEW t \in Threads, PopCas(t) PROVE SizeCounted'
  <2>1. PushSizes' = PushSizes /\ PopSizes' = PopSizes + 1 /\ size' = size
    <3>1. MovesTo(t, "pop_size") /\ "pop_size" \in Labels /\ pc[t] = "pop_cas" /\ size' = size
      BY Zenon, <1>3 DEF PopCas, MovesTo, Labels
    <3> QED BY SMTT(30), <1>1, <3>1, CountsAfterMove
  <2>2. Len(stack') = Len(stack) - 1
    <3>1. stack # <<>> /\ stack \in Seq(Buffers) /\ stack' = SubSeq(stack, 1, Len(stack) - 1)
      BY SMTT(30), <1>1, <1>3, PopCasIsFresh DEF PopCas, TypeOK
    <3> QED BY ZenonT(30), <3>1, FrontProperties
  <2>3. size' + PushSizes' - PopSizes' - Len(stack') = x
    BY SMTT(30), <1>1, <2>1, <2>2
  <2> QED BY ZenonT(30), <1>1, <2>3 DEF SizeCounted
<1>4. ASSUME NEW t \in Threads, PushCas(t) PROVE SizeCounted'
  <2>1. PushSizes' = PushSizes + 1 /\ PopSizes' = PopSizes /\ size' = size
    <3>1. MovesTo(t, "push_size") /\ "push_size" \in Labels /\ pc[t] = "push_cas" /\ size' = size
      BY Zenon, <1>4 DEF PushCas, MovesTo, Labels
    <3> QED BY SMTT(30), <1>1, <3>1, CountsAfterMove
  <2>2. Len(stack') = Len(stack) + 1
    <3>1. buf[t] \in Buffers /\ stack \in Seq(Buffers) /\ stack' = Append(stack, buf[t])
      BY ZenonT(30), <1>4 DEF PushCas, IInv, TypeOK, Hands, HandOf
    <3> QED BY ZenonT(30), <3>1, AppendProperties
  <2>3. size' + PushSizes' - PopSizes' - Len(stack') = x
    BY SMTT(30), <1>1, <2>1, <2>2
  <2> QED BY Zenon, <1>1, <2>3 DEF SizeCounted
<1>5. ASSUME NEW t \in Threads, PopSize(t) PROVE SizeCounted'
  <2>1. PushSizes' = PushSizes /\ PopSizes' = PopSizes - 1
    <3>1. MovesTo(t, "acquired") /\ "acquired" \in Labels /\ pc[t] = "pop_size"
      BY Zenon, <1>5 DEF PopSize, MovesTo, Labels
    <3> QED BY SMTT(30), <1>1, <3>1, CountsAfterMove
  <2>2. stack' = stack /\ size' = (size - 1) % SizeMod
    BY Zenon, <1>5 DEF PopSize, SizeDec
  <2> DEFINE y == PushSizes - (PopSizes - 1) - Len(stack)
  <2>3. (((size - 1) % SizeMod) + y) % SizeMod = (size - 1 + y) % SizeMod
    <3>1. size - 1 \in Int /\ y \in Int /\ SizeMod \in Nat \ {0}
      BY SMTT(30), <1>1, PoolAssumption
    <3> QED BY ZenonT(30), <3>1, ModAdd
  <2>4. (size - 1) % SizeMod \in Int
    BY SMTT(30), <1>1, PoolAssumption, ModDef
  <2>5. size' + PushSizes' - PopSizes' - Len(stack') = ((size - 1) % SizeMod) + y /\ size - 1 + y = x
    BY SMTT(30), <1>1, <2>1, <2>2, <2>4
  <2> QED BY ZenonT(30), <1>1, <2>3, <2>5 DEF SizeCounted
<1>6. ASSUME NEW t \in Threads, PushSize(t) PROVE SizeCounted'
  <2>1. PushSizes' = PushSizes - 1 /\ PopSizes' = PopSizes
    <3>1. MovesTo(t, "released") /\ "released" \in Labels /\ pc[t] = "push_size"
      BY ZenonT(30), <1>6 DEF PushSize, MovesTo, Labels
    <3> QED BY SMTT(30), <1>1, <3>1, CountsAfterMove
  <2>2. stack' = stack /\ size' = (size + 1) % SizeMod
    BY Zenon, <1>6 DEF PushSize, SizeInc
  <2> DEFINE y == (PushSizes - 1) - PopSizes - Len(stack)
  <2>3. (((size + 1) % SizeMod) + y) % SizeMod = (size + 1 + y) % SizeMod
    <3>1. size + 1 \in Int /\ y \in Int /\ SizeMod \in Nat \ {0}
      BY SMTT(30), <1>1, PoolAssumption
    <3> QED BY ZenonT(30), <3>1, ModAdd
  <2>4. (size + 1) % SizeMod \in Int
    BY SMTT(30), <1>1, PoolAssumption, ModDef
  <2>5. size' + PushSizes' - PopSizes' - Len(stack') = ((size + 1) % SizeMod) + y /\ size + 1 + y = x
    BY SMTT(30), <1>1, <2>1, <2>2, <2>4
  <2> QED BY ZenonT(30), <1>1, <2>3, <2>5 DEF SizeCounted
<1>7. ASSUME NEW t \in Threads,
             \/ Acquire(t) \/ PopEmpty(t) \/ PopLink(t) \/ PopCasFail(t) \/ AcquireReturn(t)
             \/ PushLink(t) \/ PushCasFail(t) \/ ReleaseReturn(t)
             \/ \E b \in Buffers : Release(t, b)
      PROVE  SizeCounted'
  <2>1. UNCHANGED <<size, stack>>
    BY ZenonT(30), <1>7 DEF Acquire, PopEmpty, PopLink, PopCasFail, AcquireReturn, PushLink, PushCasFail,
       ReleaseReturn, Release
  <2>2. \E l \in Labels : /\ MovesTo(t, l)
                         /\ {l, pc[t]} \cap {"push_size", "pop_size"} = {}
    BY Zenon, <1>7 DEF Acquire, PopEmpty, PopLink, PopCasFail, AcquireReturn, PushLink, PushCasFail,
       ReleaseReturn, Release, Return, PushRetry, Labels, MovesTo
  <2> QED BY ZenonT(30), <1>2, <2>1, <2>2
<1>8. ASSUME UNCHANGED vars \/ \E b \in Buffers : Fill(b) PROVE SizeCounted'
  BY Zenon, <1>2, <1>8 DEF vars, Fill
<1> QED BY ZenonT(30), <1>3, <1>4, <1>5, <1>6, <1>7, <1>8 DEF Next, Step, CasSuccess

LEMMA TotalsStayCounted ==
  ASSUME IInv, TotalsCounted, [Next]_vars
  PROVE  TotalsCounted'
<1> DEFINE h == Cardinality(held)
           x == total_acquires - total_releases - h - Releases
<1>1. /\ Releases \in Nat /\ IsFiniteSet(held) /\ h \in Nat /\ TypeOK
      /\ total_acquires \in Int /\ total_releases \in Int /\ x \in Int /\ x % TotalMod = 0
  BY CountTypes DEF IInv, TotalsCounted
<1>2. TotalMod \in Nat \ {0}
  BY Zenon, PoolAssumption
<1>3. ASSUME UNCHANGED <<total_acquires, total_releases, held>>,
             UNCHANGED pc \/ \E t \in Threads, l \in Labels :
               MovesTo(t, l) /\ (l \in ReleaseLabels <=> pc[t] \in ReleaseLabels)
      PROVE  TotalsCounted'
  <2>1. CASE UNCHANGED pc
    BY Zenon, <1>3, <2>1 DEF TotalsCounted, Releases, AtAny
  <2>2. CASE \E t \in Threads, l \in Labels :
               MovesTo(t, l) /\ (l \in ReleaseLabels <=> pc[t] \in ReleaseLabels)
    <3>1. PICK t \in Threads, l \in Labels :
            MovesTo(t, l) /\ (l \in ReleaseLabels <=> pc[t] \in ReleaseLabels)
      BY Zenon, <2>2
    <3>2. Releases' = Releases
      BY SMTT(30), <1>1, <3>1, CountsAfterMove
    <3> QED BY ZenonT(30), <1>3, <3>2 DEF TotalsCounted
  <2> QED BY SMTT(30), <1>3, <2>1, <2>2
<1>4. ASSUME NEW t \in Threads, NEW b \in Buffers, Release(t, b) PROVE TotalsCounted'
  <2>1. Releases' = Releases + 1
    <3>1. MovesTo(t, "push_link") /\ "push_link" \in Labels /\ pc[t] = "idle"
      BY Zenon, <1>4 DEF Release, MovesTo, Labels
    <3>2. "push_link" \in ReleaseLabels /\ "idle" \notin ReleaseLabels
      BY Zenon DEF ReleaseLabels
    <3> QED BY SMTT(30), <1>1, <3>1, <3>2, CountsAfterMove
  <2>2. Cardinality(held') = h - 1 /\ UNCHANGED <<total_acquires, total_releases>>
    <3>1. b \in held /\ held' = held \ {b} /\ UNCHANGED <<total_acquires, total_releases>>
      BY Zenon, <1>4 DEF Release, totals
    <3> QED BY ZenonT(30), <1>1, <3>1, FS_RemoveElement
  <2>3. total_acquires' - total_releases' - Cardinality(held') - Releases' = x
    BY SMTT(30), <1>1, <2>1, <2>2
  <2> QED BY Zenon, <1>1, <2>3 DEF TotalsCounted
<1>5. ASSUME NEW t \in Threads, AcquireReturn(t) PROVE TotalsCounted'
  <2>1. Releases' = Releases
    <3>1. MovesTo(t, "idle") /\ "idle" \in Labels /\ pc[t] = "acquired"
      BY Zenon, <1>5 DEF AcquireReturn, Return, MovesTo, Labels
    <3>2. "acquired" \notin ReleaseLabels /\ "idle" \notin ReleaseLabels
      BY Zenon DEF ReleaseLabels
    <3> QED BY SMTT(30), <1>1, <3>1, <3>2, CountsAfterMove
  <2>2. Cardinality(held') = h + 1
    <3>1. buf[t] \in Buffers /\ InHand(t, buf[t]) /\ held' = held \cup {buf[t]}
      BY Zenon, <1>5 DEF AcquireReturn, IInv, Hands, HandOf, InHand
    <3>2. buf[t] \notin held
      BY Zenon, <3>1 DEF IInv, OneOwner
    <3> QED BY ZenonT(30), <1>1, <3>1, <3>2, FS_AddElement
  <2>3. total_acquires' = (total_acquires + 1) % TotalMod /\ total_releases' = total_releases
    BY Zenon, <1>5 DEF AcquireReturn, TotalInc
  <2> DEFINE y == 0 - total_releases - (h + 1) - Releases
  <2>4. total_acquires + 1 \in Int /\ y \in Int
    BY <1>1
  <2>5. (((total_acquires + 1) % TotalMod) + y) % TotalMod = (total_acquires + 1 + y) % TotalMod
    BY ZenonT(30), <1>2, <2>4, ModAdd
  <2>6. (total_acquires + 1) % TotalMod \in Int
    BY SMTT(30), <1>2, <2>4, ModDef
  <2>7. /\ total_acquires' - total_releases' - Cardinality(held') - Releases'
             = ((total_acquires + 1) % TotalMod) + y
        /\ total_acquires + 1 + y = x
    BY SMTT(30), <1>1, <2>1, <2>2, <2>3, <2>6
  <2> QED BY ZenonT(30), <1>1, <2>5, <2>7 DEF TotalsCounted
<1>6. ASSUME NEW t \in Threads, ReleaseReturn(t) PROVE TotalsCounted'
  <2>1. Releases' = Releases - 1
    <3>1. MovesTo(t, "idle") /\ "idle" \in Labels /\ pc[t] = "released"
      BY Zenon, <1>6 DEF ReleaseReturn, Return, MovesTo, Labels
    <3>2. "released" \in ReleaseLabels /\ "idle" \notin ReleaseLabels
      BY Zenon DEF ReleaseLabels
    <3> QED BY SMTT(30), <1>1, <3>1, <3>2, CountsAfterMove
  <2>2. /\ total_releases' = (total_releases + 1) % TotalMod
        /\ UNCHANGED <<total_acquires, held>>
    BY Zenon, <1>6 DEF ReleaseReturn, TotalInc
  <2> DEFINE y == total_acquires - h - (Releases - 1)
  <2>3. total_releases + 1 \in Int /\ y \in Int
    BY SMTT(30), <1>1
  <2>4. (y - ((total_releases + 1) % TotalMod)) % TotalMod = (y - (total_releases + 1)) % TotalMod
    BY ZenonT(30), <1>2, <2>3, ModSub
  <2>5. (total_releases + 1) % TotalMod \in Int
    BY SMTT(30), <1>2, <2>3, ModDef
  <2>6. /\ total_acquires' - total_releases' - Cardinality(held') - Releases'
             = y - ((total_releases + 1) % TotalMod)
        /\ y - (total_releases + 1) = x
    BY SMTT(30), <1>1, <2>1, <2>2, <2>5
  <2> QED BY ZenonT(30), <1>1, <2>4, <2>6 DEF TotalsCounted
<1>7. ASSUME NEW t \in Threads,
             \/ Acquire(t) \/ PopEmpty(t) \/ PopLink(t) \/ PopCas(t) \/ PopCasFail(t) \/ PopSize(t)
             \/ PushLink(t) \/ PushCas(t) \/ PushCasFail(t) \/ PushSize(t)
      PROVE  TotalsCounted'
  <2>1. UNCHANGED <<total_acquires, total_releases, held>>
    BY ZenonT(30), <1>7 DEF Acquire, PopEmpty, PopLink, PopCas, PopCasFail, PopSize, PushLink, PushCas,
       PushCasFail, PushSize, totals
  <2>2. \E l \in Labels : MovesTo(t, l) /\ (l \in ReleaseLabels <=> pc[t] \in ReleaseLabels)
    BY Zenon, <1>7 DEF Acquire, PopEmpty, PopLink, PopCas, PopCasFail, PopSize, PushLink, PushCas,
       PushCasFail, PushSize, Return, PushRetry, Labels, ReleaseLabels, MovesTo
  <2> QED BY ZenonT(30), <1>3, <2>1, <2>2
<1>8. ASSUME UNCHANGED vars \/ \E b \in Buffers : Fill(b) PROVE TotalsCounted'
  BY ZenonT(30), <1>3, <1>8 DEF vars, Fill, totals
<1> QED BY ZenonT(30), <1>4, <1>5, <1>6, <1>7, <1>8 DEF Next, Step, CasSuccess

(* free_count() and the totals are off by the operations under way and by   *)
(* nothing else, for any number of threads, although each is counted apart  *)
(* from the compare-exchange.                                               *)
THEOREM CountersAreExact == StallBounded => (Spec => []CountersAccountForAll)
<1> SUFFICES ASSUME StallBounded PROVE Spec => []CountersAccountForAll
  BY Zenon
<1>1. IInv /\ IInv' /\ SizeCounted /\ TotalsCounted /\ [Next]_vars => SizeCounted' /\ TotalsCounted'
  BY Zenon, SizeStaysCounted, TotalsStayCounted
<1>2. SizeCounted /\ TotalsCounted => CountersAccountForAll
  BY Zenon, CountersRead DEF SizeCounted, TotalsCounted, CountersAccountForAll
<1> QED BY <1>1, <1>2, InitCounted, PoolInvariant, PTL DEF Spec
=============================================================================
