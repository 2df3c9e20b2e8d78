----------------------------- MODULE MCPipeline -----------------------------
(* The capture pipeline for TLC: headers of packets, and a hash. *)
EXTENDS Pipeline, TLC

Udp(addr, ports) == [eth |-> TRUE, ipv4 |-> TRUE, udp |-> TRUE, csum |-> TRUE,
                     addr |-> addr, ports |-> ports]
Short == [Udp(0, 0) EXCEPT !.eth = FALSE]
Icmp(addr) == [Udp(addr, 0) EXCEPT !.udp = FALSE]
BadSum(addr) == [Udp(addr, 1) EXCEPT !.csum = FALSE]

(* UDP flows for different queues, one of them with bad checksums, and      *)
(* frames that go to queue 0 for want of an IP or UDP header.               *)
AllKinds == {Udp(0, 1), BadSum(1), Icmp(1), Short}

(* The hash exceeds the number of queues. *)
SomeHash == [addr \in 0..1, ports \in 0..1 |-> 6 + addr + ports]

=============================================================================
