------------------------------ MODULE Capture ------------------------------
(***************************************************************************)
(* The single-queue capture program (src/capture.cpp) and the whole life of *)
(* its PacketRing (src/packet_ring.cpp): the steps of the constructor, each *)
(* of which may fail, set_busy_poll, the receive loop with its reports, and *)
(* cleanup on every way out, while the kernel fills the slots.              *)
(***************************************************************************)
EXTENDS Integers

CONSTANTS
  Frames,       \* total_frames_
  MaxPackets    \* bound: packets that arrive

Sources == {"iface", "elsewhere"}
Kernel == [seq |-> 0]                \* TP_STATUS_KERNEL

VARIABLES
  pc,       \* where main is
  ring,     \* the PacketRing: fd_ and ring_ set or not, current_frame_, drops_
  count,    \* main's total and last_total, and the sum of its packets/sec lines
  stop,     \* g_stop
  kern,     \* the kernel: socket and mapping, whose packets reach the slots,
            \* the slots, packets stored and dropped so far
  seen      \* the frame receive returned last

vars == <<pc, ring, count, stop, kern, seen>>

Init ==
  /\ pc = "socket" /\ stop = FALSE /\ seen = Kernel
  /\ ring = [fd |-> FALSE, ring |-> FALSE, current |-> 0, drops |-> 0]
  /\ count = [total |-> 0, last |-> 0, reported |-> 0]
  /\ kern = [socket |-> FALSE, mapping |-> FALSE, hook |-> {},
             slots |-> [s \in 0..(Frames - 1) |-> Kernel], stored |-> 0, drops |-> 0]

Goto(from, to) == pc = from /\ pc' = to

(* The kernel puts a packet into the next slot if that is free.  It marks   *)
(* frames LOSING as long as nobody has read, and so cleared, its count of   *)
(* drops; PacketRing never does.                                            *)
Arrive(from) ==
  /\ from \in kern.hook /\ kern.stored + kern.drops < MaxPackets
  /\ LET s == kern.stored % Frames IN
     kern' = IF kern.slots[s] = Kernel
             THEN [kern EXCEPT !.stored = @ + 1, !.slots[s] =
                     [seq |-> kern.stored + 1, from |-> from, losing |-> kern.drops > 0]]
             ELSE [kern EXCEPT !.drops = @ + 1]
  /\ UNCHANGED <<pc, ring, count, stop, seen>>

(* SIGINT *)
Interrupt == ~stop /\ stop' = TRUE /\ UNCHANGED <<pc, ring, count, kern, seen>>
-----------------------------------------------------------------------------
(* 1. A raw socket: its packets do not go into slots yet.                   *)
Socket ==
  /\ Goto("socket", "configure")
  /\ ring' = [ring EXCEPT !.fd = TRUE] /\ kern' = [kern EXCEPT !.socket = TRUE]
  /\ UNCHANGED <<count, stop, seen>>

(* 2.-4. Index, version, ring: a socket that is not bound yet gets the      *)
(* packets of every interface.                                              *)
InstallRing ==
  /\ Goto("configure", "mmap")
  /\ kern' = [kern EXCEPT !.hook = Sources]
  /\ UNCHANGED <<ring, count, stop, seen>>

(* 5. and 6. Map it, and find the slots. *)
Mmap ==
  /\ Goto("mmap", "bind")
  /\ ring' = [ring EXCEPT !.ring = TRUE] /\ kern' = [kern EXCEPT !.mapping = TRUE]
  /\ UNCHANGED <<count, stop, seen>>

(* 7. From now on only the packets of iface. *)
Bind ==
  /\ Goto("bind", "busy_poll")
  /\ kern' = [kern EXCEPT !.hook = {"iface"}]
  /\ UNCHANGED <<ring, count, stop, seen>>

SetBusyPoll == Goto("busy_poll", "loop") /\ UNCHANGED <<ring, count, stop, kern, seen>>

(* A step throws: the constructor's catch, or the destructor on the way to  *)
(* main's, cleans up.                                                       *)
Fail ==
  /\ pc \in {"socket", "configure", "mmap", "bind", "busy_poll"} /\ pc' = "cleanup"
  /\ UNCHANGED <<ring, count, stop, kern, seen>>

CleanupMapped ==
  /\ Goto("cleanup", "ended")
  /\ kern' = IF ring.ring THEN [kern EXCEPT !.mapping = FALSE, !.socket = FALSE, !.hook = {}]
             ELSE kern
  /\ ring' = [ring EXCEPT !.ring = FALSE, !.fd = FALSE]
  /\ UNCHANGED <<count, stop, seen>>

(* munmap if there is a mapping, close if there is a socket. *)
Cleanup ==
  /\ Goto("cleanup", "ended")
  /\ kern' = [kern EXCEPT !.mapping = @ /\ ~ring.ring, !.socket = @ /\ ~ring.fd,
                          !.hook = IF ring.fd THEN {} ELSE @]
  /\ ring' = [ring EXCEPT !.ring = FALSE, !.fd = FALSE]
  /\ UNCHANGED <<count, stop, seen>>
-----------------------------------------------------------------------------
Current == kern.slots[ring.current]

(* receive: the slot is ours; count it and what it says of drops. *)
Receive ==
  /\ Current # Kernel /\ ~stop
  /\ Goto("loop", "held")
  /\ seen' = Current
  /\ ring' = [ring EXCEPT !.drops = @ + IF Current.losing THEN 1 ELSE 0]
  /\ count' = [count EXCEPT !.total = @ + 1]
  /\ UNCHANGED <<stop, kern>>

ReceiveSpins ==
  /\ Current = Kernel
  /\ Goto("loop", "tick")
  /\ UNCHANGED <<ring, count, stop, kern, seen>>

(* receive: the slot is the kernel's. *)
ReceiveNothing ==
  /\ Current = Kernel /\ ~stop
  /\ Goto("loop", "tick")
  /\ UNCHANGED <<ring, count, stop, kern, seen>>

(* (current_frame_ + 1) % total_frames_ *)
NextFrame(i) == (i + 1) % Frames

Release ==
  /\ Goto("held", "tick")
  /\ kern' = [kern EXCEPT !.slots[ring.current] = Kernel]
  /\ ring' = [ring EXCEPT !.current = NextFrame(@)]
  /\ UNCHANGED <<count, stop, seen>>

(* Print how many packets came since the last report. *)
Report(c) == [c EXCEPT !.reported = @ + (c.total - c.last), !.last = c.total]

(* Once a second. *)
Tick ==
  /\ Goto("tick", "loop")
  /\ count' \in {count, Report(count)}
  /\ UNCHANGED <<ring, stop, kern, seen>>

(* g_stop is set or the time is up: the summary, and the destructor. *)
Leave == Goto("loop", "cleanup") /\ UNCHANGED <<ring, count, stop, kern, seen>>

Ended == pc = "ended" /\ UNCHANGED vars

Main ==
  \/ Socket \/ InstallRing \/ Mmap \/ Bind \/ SetBusyPoll \/ Fail \/ Cleanup
  \/ Receive \/ ReceiveNothing \/ Release \/ Tick \/ Leave

Next == Main \/ (\E from \in Sources : Arrive(from)) \/ Interrupt \/ Ended

Spec == Init /\ [][Next]_vars /\ WF_vars(Main)
-----------------------------------------------------------------------------
Occupied == {s \in DOMAIN kern.slots : kern.slots[s] # Kernel}

(* Counters and the slot being read stay in range. *)
TypeOK ==
  /\ ring \in [fd : BOOLEAN, ring : BOOLEAN, current : 0..(Frames - 1), drops : 0..MaxPackets]
  /\ count \in [total : 0..MaxPackets, last : 0..MaxPackets, reported : 0..MaxPackets]
  /\ kern.stored + kern.drops \in 0..MaxPackets

(* The object and the kernel agree at every step of the constructor, of     *)
(* cleanup and of main about what is open and mapped, so that a step that   *)
(* throws leaves nothing behind and nothing is closed twice                 *)
(* (packet_ring.cpp:106-123).                                               *)
NothingLeftBehind ==
  /\ ring.fd = kern.socket /\ ring.ring = kern.mapping
  /\ kern.hook # {} => kern.socket
  /\ kern.mapping => kern.socket
  /\ pc = "ended" => ~kern.socket /\ ~kern.mapping

(* Every packet that found a slot is received once and in order, those that *)
(* arrived before the ring was mapped or bound too, and the reports add up: *)
(* stored packets are the ones counted and the ones waiting, in the slots   *)
(* from current_frame_ on.                                                  *)
EveryFrameCounted ==
  LET pending == kern.stored - count.total + IF pc = "held" THEN 1 ELSE 0 IN
  /\ seen.seq = count.total
  /\ Occupied = {(ring.current + i) % Frames : i \in 0..(pending - 1)}
  /\ \A i \in 0..(pending - 1) : kern.slots[(ring.current + i) % Frames].seq = kern.stored - pending + 1 + i
  /\ count.reported = count.last

(* Once interrupted the program ends, however many packets are waiting.     *)
InterruptEnds == stop ~> pc = "ended"

(* A packet waiting in its slot is received unless the program ends.        *)
WaitingIsReceived ==
  \A n \in 1..MaxPackets : kern.stored >= n ~> (count.total >= n \/ pc \in {"cleanup", "ended"})

=============================================================================
