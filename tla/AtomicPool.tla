----------------------------- MODULE AtomicPool -----------------------------
(***************************************************************************)
(* What the buffer pool promises its users: acquire() and release() take    *)
(* effect at one instant; a buffer is either in the pool or out, never      *)
(* both; the buffer handed out is the one that came back last.              *)
(***************************************************************************)
EXTENDS Integers, Sequences

CONSTANT Buffers

VARIABLES
  list,   \* the buffers in the pool, the next one to hand out last
  out     \* the buffers that are out

Init ==
  /\ list \in Seq(Buffers)
  /\ \A i, j \in 1..Len(list) : list[i] = list[j] => i = j
  /\ \A b \in Buffers : \E i \in 1..Len(list) : list[i] = b
  /\ out = {}

Acquire ==
  /\ list # <<>>
  /\ list' = SubSeq(list, 1, Len(list) - 1)
  /\ out' = out \cup {list[Len(list)]}

Release(b) ==
  /\ b \in out
  /\ list' = Append(list, b)
  /\ out' = out \ {b}

Next == Acquire \/ \E b \in Buffers : Release(b)

Spec == Init /\ [][Next]_<<list, out>>

=============================================================================
