---------------------------- MODULE MCTcpLite -----------------------------
(* Instances of TcpLite for TLC: how many bytes each application sends. *)
EXTENDS TcpLite

BothWays == [A |-> 2, B |-> 1]
PastTheWrap == [A |-> 13, B |-> 0]
============================================================================
