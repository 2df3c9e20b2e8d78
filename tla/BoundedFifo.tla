---------------------------- MODULE BoundedFifo -----------------------------
(***************************************************************************)
(* What the ring promises: a first-in first-out queue of at most N items.   *)
(* push() fails only on a queue its caller still sees full, so a failing    *)
(* push changes nothing here.                                               *)
(***************************************************************************)
EXTENDS Integers, Sequences

CONSTANTS Values, N, NoItem

VARIABLES
  q,      \* the items in the queue, oldest first
  got     \* the item the consumer took last

Init == q = <<>> /\ got = NoItem

Push(v) ==
  /\ Len(q) < N
  /\ q' = Append(q, v)
  /\ UNCHANGED got

Pop ==
  /\ q # <<>>
  /\ got' = Head(q)
  /\ q' = Tail(q)

Next == Pop \/ \E v \in Values : Push(v)

Spec == Init /\ [][Next]_<<q, got>>

=============================================================================
