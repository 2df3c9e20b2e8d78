------------------------------- MODULE PktGen -------------------------------
(***************************************************************************)
(* tools/pkt_gen.cpp: send a packet each interval of the time stamp         *)
(* counter, report the rate each second, until interrupted.  The process    *)
(* may lose the processor anywhere, and a send may fail.                    *)
(***************************************************************************)
EXTENDS Integers

CONSTANTS
  TscHz,     \* cycles per second
  Rates,     \* values of pps, 0 for no limit
  MaxTime,   \* bound: no new round begins at or after this time
  MaxSent    \* bound on the packets sent

VARIABLES now, pc, pps, next, sec_mark, sent, last_sent, g_stop, reports
vars == <<now, pc, pps, next, sec_mark, sent, last_sent, g_stop, reports>>

interval == IF pps = 0 THEN 0 ELSE TscHz \div pps

Init ==
  /\ now = 0 /\ pc = "loop" /\ pps \in Rates
  /\ next = 0 /\ sec_mark = 0 /\ sent = 0 /\ last_sent = 0
  /\ g_stop = FALSE /\ reports = 0

\* The head of the loop; the handler has set g_stop or a round begins.
Loop ==
  /\ pc = "loop"
  /\ \/ g_stop /\ pc' = "exit" /\ next' = next
     \/ ~g_stop /\ now < MaxTime /\ sent < MaxSent /\ next' = next + interval /\ pc' = "wait"
  /\ UNCHANGED <<now, pps, sec_mark, sent, last_sent, g_stop, reports>>

\* while (rdtsc() < next), which does not look at g_stop, and the send.
DueEarly == now + 1 >= next
Due == now >= next

Spin == pc = "wait" /\ ~Due /\ UNCHANGED vars

Send ==
  /\ pc = "wait" /\ Due
  /\ sent' \in {sent, sent + 1}
  /\ pc' = "report"
  /\ UNCHANGED <<now, pps, next, sec_mark, last_sent, g_stop, reports>>

\* A second is reported when it is over, a missed one with a later packet.
MarkNext == sec_mark + TscHz

Report ==
  /\ pc = "report"
  /\ pc' = "loop"
  /\ IF now - sec_mark >= TscHz
     THEN last_sent' = sent /\ sec_mark' = MarkNext /\ reports' = reports + 1
     ELSE UNCHANGED <<last_sent, sec_mark, reports>>
  /\ UNCHANGED <<now, pps, next, sent, g_stop>>

on_sigint ==
  /\ ~g_stop /\ pc # "exit"
  /\ g_stop' = TRUE
  /\ UNCHANGED <<now, pc, pps, next, sec_mark, sent, last_sent, reports>>

\* The counter advances; past the bound only for a send that waits for it.
Tick ==
  /\ pc # "exit"
  /\ now < MaxTime \/ (pc = "wait" /\ now < next)
  /\ now' = now + 1
  /\ UNCHANGED <<pc, pps, next, sec_mark, sent, last_sent, g_stop, reports>>

Exited == pc = "exit" /\ UNCHANGED vars

Main == Loop \/ Send \/ Report

Next == Main \/ Spin \/ on_sigint \/ Tick \/ Exited

\* The process is scheduled and time passes; nobody has to interrupt it.
Spec == Init /\ [][Next]_vars /\ WF_vars(Main) /\ WF_vars(Tick)
-----------------------------------------------------------------------------
\* However long the process was stalled and however it then hurries, it has
\* never sent more packets than whole intervals have passed: next advances by
\* one interval per packet and is never set back (pkt_gen.cpp:87).
NeverAhead == sent * interval <= now

\* No more seconds are reported than have passed, though several reports may
\* follow each other after a stall (pkt_gen.cpp:95-101).
ReportsNeverEarly == reports * TscHz <= now

\* An interrupt ends the program, also one that comes while it waits for its
\* next packet, where g_stop is not looked at (pkt_gen.cpp:86-88).
InterruptEnds == g_stop ~> pc = "exit"
=============================================================================
