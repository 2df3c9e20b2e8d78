----------------------------- MODULE MCPrograms -----------------------------
(***************************************************************************)
(* The programs beside the capture pipeline and the histogram they print,   *)
(* for TLC: capture, pkt_gen, perf_baseline and LatencyHistogram.  They are *)
(* processes of their own and share no state; a behaviour runs one of them, *)
(* the variables of the others keep their first value.                      *)
(***************************************************************************)
EXTENDS LatencyHistogram

CONSTANTS
  FewSamples,                       \* bound: samples of boundary values
  Frames, MaxPackets,               \* Capture
  TscHz, Rates, MaxTime, MaxSent,   \* PktGen
  Scope, Bytes, HugePage            \* PerfBaseline

VARIABLES
  program,                                          \* the one that runs
  capture_pc, ring, count, stop, kern, seen,        \* Capture
  gen_pc, now, pps, next, sec_mark, sent, last_sent,
  g_stop, reports,                                  \* PktGen
  perf_pc, k, r, regions, kernel, counters, metrics \* PerfBaseline

histogramVars == vars
captureVars == <<capture_pc, ring, count, stop, kern, seen>>
genVars == <<gen_pc, now, pps, next, sec_mark, sent, last_sent, g_stop, reports>>
perfVars == <<perf_pc, k, r, regions, kernel, counters, metrics>>
allVars == <<program, histogramVars, captureVars, genVars, perfVars>>

C == INSTANCE Capture WITH pc <- capture_pc
G == INSTANCE PktGen WITH pc <- gen_pc
P == INSTANCE PerfBaseline WITH pc <- perf_pc
-----------------------------------------------------------------------------
(* At 2.5 GHz: TSC differences that become the values at the boundaries of  *)
(* the bucket ranges, and a difference that is not positive; and two values *)
(* many of which make the higher percentiles differ.                        *)
ToCycles(ns) == (5 * ns + 1) \div 2

Boundaries ==
  {-3, 1} \cup {ToCycles(ns) : ns \in {999, 1000, 1009, 4995, 9999, 10000, 99999,
                                       100000, 249999, 999999, 1000000, 3000000}}

TwoValues == {0, ToCycles(2507), ToCycles(1700000)}

AllCycles == Boundaries \cup TwoValues

(* Three of the six events that measure counts. *)
ThreeEvents == <<"TLB_LOAD_MISSES", "TLB_STORE_MISSES", "CYCLES">>

Recording ==
  \/ /\ program = "boundaries" /\ count_ < FewSamples
     /\ \E cycles \in Boundaries : record(cycles) \/ RecordIgnored(cycles)
  \/ /\ program = "ranks"
     /\ \E cycles \in TwoValues : record(cycles) \/ RecordIgnored(cycles)
  \/ /\ program = "boundaries" /\ count_ = FewSamples /\ UNCHANGED vars
-----------------------------------------------------------------------------
MCInit ==
  /\ program \in {"boundaries", "ranks", "capture", "pkt_gen", "perf_baseline"}
  /\ program = "pkt_gen" \/ pps = 0
  /\ Init /\ C!Init /\ G!Init /\ P!Init

Only(own) ==
  /\ UNCHANGED program
  /\ own # "histogram" => UNCHANGED histogramVars
  /\ own # "capture" => UNCHANGED captureVars
  /\ own # "pkt_gen" => UNCHANGED genVars
  /\ own # "perf_baseline" => UNCHANGED perfVars

MCNext ==
  \/ Recording /\ Only("histogram")
  \/ program = "capture" /\ C!Next /\ Only("capture")
  \/ program = "pkt_gen" /\ G!Next /\ Only("pkt_gen")
  \/ program = "perf_baseline" /\ P!Next /\ Only("perf_baseline")

(* The process that runs is scheduled, and time passes; nobody has to       *)
(* interrupt it.                                                            *)
MCSpec ==
  /\ MCInit /\ [][MCNext]_allVars
  /\ WF_allVars(program = "capture" /\ C!Main /\ Only("capture"))
  /\ WF_allVars(program = "pkt_gen" /\ G!Main /\ Only("pkt_gen"))
  /\ WF_allVars(program = "pkt_gen" /\ G!Tick /\ Only("pkt_gen"))
-----------------------------------------------------------------------------
(* LatencyHistogram: record, percentile_ns and print agree with the samples *)
(* at every boundary of the buckets and at every rank.                      *)
SamplesAccountedFor ==
  TypeOK /\ BucketsCountSamples /\ PercentilesNearRank /\ RowsCountSamples

(* capture: every packet that found a slot is received once and in order,   *)
(* and the reports add up; the object and the kernel agree at every step    *)
(* about what is open and mapped, and nothing is left open at the end.      *)
CaptureAccountsForAll == C!TypeOK /\ C!EveryFrameCounted /\ C!NothingLeftBehind

(* pkt_gen sends no more packets than whole intervals have passed and       *)
(* reports no more seconds than have passed, however long it was stalled    *)
(* (pkt_gen.cpp:87-101).                                                    *)
GeneratorNeverAhead == G!NeverAhead /\ G!ReportsNeverEarly

(* A column of perf_baseline counts each event over the workload of its own *)
(* region only, whichever counters are missing, and its counters and        *)
(* regions are given back (perf_baseline.cpp:76-89, perf_counters.cpp:128). *)
BaselineComparesRight == P!ColumnsAreTheirOwn /\ P!GivenBack

(* capture and pkt_gen: an interrupt ends the program, however many packets *)
(* wait and also while it waits for its next packet; until then a packet    *)
(* waiting in its slot is received.                                         *)
WaitsAreEnded == C!InterruptEnds /\ C!WaitingIsReceived /\ G!InterruptEnds
=============================================================================
