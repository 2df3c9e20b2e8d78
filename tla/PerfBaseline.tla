---------------------------- MODULE PerfBaseline ----------------------------
(***************************************************************************)
(* tools/perf_baseline.cpp with PerfScope and PerfCounter                   *)
(* (src/perf_counters.cpp): map a region of 4K pages and one of huge pages, *)
(* run the same workload on each under a scope of counters, any of which    *)
(* may be unavailable, and give everything back.  What a counter has        *)
(* counted is the set of the parts of the program that ran while it was on, *)
(* each with the counter's event.                                           *)
(***************************************************************************)
EXTENDS Integers, Sequences, SequencesExt

CONSTANTS
  Scope,     \* the events of the scope, in the order of the fields of Metrics;
             \* six in the code
  Bytes,     \* size of the working set
  HugePage   \* size of a huge page

Regions == {"4k", "huge"}
Events == ToSet(Scope)

VARIABLES
  pc, k, r,   \* the phase, the loop index, the region being measured
  regions,    \* r4k and rhuge
  kernel,     \* the mappings: length and whether of huge pages
  counters,   \* counters_ of the scope, in the order they were pushed
  metrics     \* the two Metrics, and whether each counter could be read

vars == <<pc, k, r, regions, kernel, counters, metrics>>

Failed == [base |-> FALSE, bytes |-> 0, huge |-> FALSE]    \* a Region {}
Unmapped == [len |-> 0, huge |-> FALSE]
Zero == [valid |-> FALSE, value |-> {}]

Init ==
  /\ pc = "map" /\ k = 1 /\ r = "4k"
  /\ regions = [x \in Regions |-> Failed]
  /\ kernel = [x \in Regions |-> Unmapped]
  /\ counters = <<>>
  /\ metrics = [x \in Regions |-> [e \in Events |-> Zero]]

Rounded == ((Bytes + HugePage - 1) \div HugePage) * HugePage

\* mmap succeeds and the Region describes the mapping.
Mapped(len, huge) ==
  /\ regions' = [regions EXCEPT ![r] = [base |-> TRUE, bytes |-> len, huge |-> huge]]
  /\ kernel' = [kernel EXCEPT ![r] = [len |-> len, huge |-> huge]]

\* alloc_4k, alloc_huge with its fallback; either may fail altogether.
Map ==
  /\ pc = "map"
  /\ \/ Mapped(Bytes, FALSE)
     \/ r = "huge" /\ Mapped(Rounded, TRUE)
     \/ UNCHANGED <<regions, kernel>>
  /\ IF r = "4k" THEN r' = "huge" /\ pc' = pc ELSE r' = "4k" /\ pc' = "probe"
  /\ UNCHANGED <<k, counters, metrics>>

\* "allocation failed; aborting", or the probe counter comes and goes.
Probe ==
  /\ pc = "probe"
  /\ pc' = IF \E x \in Regions : ~regions[x].base THEN "aborted" ELSE "open"
  /\ UNCHANGED <<k, r, regions, kernel, counters, metrics>>
-----------------------------------------------------------------------------
\* The phases of measure: the constructor of the scope, the workload, the
\* calls of count, the destructor.
PhaseAfter ==
  [open |-> "start", start |-> "work", work |-> "count", count |-> "stop", stop |-> "close"]

\* Every counter that is on counts what the program does.
Counted(label) ==
  [j \in DOMAIN counters |->
     IF counters[j].on THEN [counters[j] EXCEPT !.seen = @ \cup {<<counters[j].event, label>>}]
                       ELSE counters[j]]

\* One turn of a loop over the counters.
Turn ==
  IF k < Len(Scope) THEN k' = k + 1 /\ pc' = pc
                    ELSE k' = 1 /\ pc' = PhaseAfter[pc]

\* PerfCounter::PerfCounter: disabled, reset, or not available.
Open ==
  /\ pc = "open"
  /\ \E ok \in BOOLEAN :
       counters' = Append(counters, [event |-> Scope[k], fd |-> ok, on |-> FALSE, seen |-> {}])
  /\ Turn /\ UNCHANGED <<r, regions, kernel, metrics>>

Start ==
  /\ pc = "start"
  /\ counters' = [Counted("scope") EXCEPT ![k].on = counters[k].fd]
  /\ Turn /\ UNCHANGED <<r, regions, kernel, metrics>>

Work ==
  /\ pc = "work"
  /\ counters' = Counted(r)
  /\ pc' = PhaseAfter[pc]
  /\ UNCHANGED <<k, r, regions, kernel, metrics>>

\* The counter PerfScope::count reads, 0 if none is of that event.
CounterAvailable(event) == SelectInSeq(counters, LAMBDA c : c.fd)
CounterOf(event) == SelectInSeq(counters, LAMBDA c : c.event = event)

\* What PerfScope::count may return: 0 for a counter that is not there, not
\* available, or whose read fails.
Readings(event) ==
  LET j == CounterOf(event)
  IN  {Zero} \cup IF j # 0 /\ counters[j].fd
                  THEN {[valid |-> TRUE, value |-> counters[j].seen]} ELSE {}

\* A field of Metrics; the counters are still running.
Count ==
  /\ pc = "count"
  /\ \E m \in Readings(Scope[k]) : metrics' = [metrics EXCEPT ![r][Scope[k]] = m]
  /\ counters' = Counted("scope")
  /\ Turn /\ UNCHANGED <<r, regions, kernel>>

Stop ==
  /\ pc = "stop"
  /\ counters' = [Counted("scope") EXCEPT ![k].on = FALSE]
  /\ Turn /\ UNCHANGED <<r, regions, kernel, metrics>>

\* ~PerfCounter, and on to the next region or to the table.
Close ==
  /\ pc = "close"
  /\ counters' = Tail(counters)
  /\ \/ counters' # <<>> /\ UNCHANGED <<pc, r>>
     \/ counters' = <<>> /\ r = "4k" /\ r' = "huge" /\ pc' = "open"
     \/ counters' = <<>> /\ r = "huge" /\ r' = "4k" /\ pc' = "unmap"
  /\ UNCHANGED <<k, regions, kernel, metrics>>

\* The kernel unmaps a region only by a length it can: huge pages as a whole.
UnmapLength(x) == regions[x].bytes

Unmap ==
  /\ pc = "unmap"
  /\ kernel' = IF kernel[r].huge /\ UnmapLength(r) % HugePage # 0 THEN kernel
               ELSE [kernel EXCEPT ![r] = Unmapped]
  /\ IF r = "4k" THEN r' = "huge" /\ pc' = pc ELSE r' = r /\ pc' = "exit"
  /\ UNCHANGED <<k, regions, counters, metrics>>

Exited == pc \in {"exit", "aborted"} /\ UNCHANGED vars

Next == Map \/ Probe \/ Open \/ Start \/ Work \/ Count \/ Stop \/ Close \/ Unmap \/ Exited
Spec == Init /\ [][Next]_vars
-----------------------------------------------------------------------------
\* The two columns of the table compare what they say: a field has counted its
\* own event over the whole workload of its own region and nothing of the
\* other's, although the counters start one after the other, are read while
\* they run and any of them may be missing; one that was not available or
\* could not be read shows 0 (perf_counters.h:57).
ColumnsAreTheirOwn ==
  pc \in {"unmap", "exit"} =>
    \A x \in Regions, e \in Events :
      LET m == metrics[x][e]
      IN  m.value \cap (Events \X Regions) = IF m.valid THEN {<<e, x>>} ELSE {}

\* "enables a set of counters on construction, disables on destruction"
\* (perf_counters.h:47): no counter runs outside a scope, and when the
\* program ends every counter is closed and every region unmapped, however
\* the huge pages were come by.  Only the abort, before the first scope,
\* leaves a region: the one that was mapped when the other failed.
GivenBack ==
  /\ pc \notin {"start", "work", "count", "stop"} =>
       \A j \in DOMAIN counters : ~counters[j].on
  /\ pc = "exit" => counters = <<>> /\ \A x \in Regions : kernel[x] = Unmapped
  /\ pc = "aborted" =>
       /\ counters = <<>>
       /\ \E x \in Regions : kernel[x] = Unmapped
       /\ \A x \in Regions : kernel[x] # Unmapped <=> regions[x].base
=============================================================================
