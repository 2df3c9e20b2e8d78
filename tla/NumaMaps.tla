------------------------------ MODULE NumaMaps ------------------------------
(***************************************************************************)
(* verify_allocation_node (src/numa_util.cpp): it looks for the address in  *)
(* /proc/self/numa_maps, whose lines give the start of a mapping, not its   *)
(* end, and the pages it has on each node, and says whether most of them    *)
(* are on the expected node.  A step is a turn of one of its two loops.     *)
(***************************************************************************)
EXTENDS Integers, Sequences, SequencesExt

CONSTANTS Addresses, Nodes, MaxPages   \* small ranges of addresses, nodes, page counts

VARIABLES
  lines,      \* the mappings: [start, end), and the pairs of node and pages
  target,     \* ptr
  read,       \* lines read
  best,       \* best_line, 0 while nothing is found
  token,      \* N<node>=<pages> entries of best_line read
  best_pages, best_node

vars == <<lines, target, read, best, token, best_pages, best_node>>

Pages == {p \in [Nodes -> 0..MaxPages] : \E n \in Nodes : p[n] > 0}

\* A line names the nodes in their order, those without pages not at all.
Entries(p) == SelectSeq(SetToSortSeq(Nodes, <), LAMBDA n : p[n] > 0)

\* Two mappings next to each other or with a hole between them, in either
\* order of the file, and an address in one of them or in none.
Input ==
  /\ \E low, high \in [start : Addresses, end : Addresses, pages : Pages] :
       /\ low.start < low.end /\ low.end <= high.start /\ high.start < high.end
       /\ lines \in {<<low, high>>, <<high, low>>}
  /\ target \in Addresses

Start == read = 0 /\ best = 0 /\ token = 0 /\ best_pages = -1 /\ best_node = -1

Init == Input /\ Start

\* start <= target && (!found || start > best_start)
BetterFirst(l) == l.start <= target /\ best = 0
Better(l) == l.start <= target /\ (best = 0 \/ l.start > lines[best].start)

ReadLine ==
  /\ read < Len(lines)
  /\ read' = read + 1
  /\ best' = IF Better(lines[read']) THEN read' ELSE best
  /\ UNCHANGED <<lines, target, token, best_pages, best_node>>

\* pages > best_pages
MorePages(p) == p > best_pages

ReadToken ==
  /\ read = Len(lines) /\ best # 0
  /\ token < Len(Entries(lines[best].pages))
  /\ token' = token + 1
  /\ LET n == Entries(lines[best].pages)[token']
         p == lines[best].pages[n]
     IN  IF MorePages(p) THEN best_pages' = p /\ best_node' = n
                         ELSE UNCHANGED <<best_pages, best_node>>
  /\ UNCHANGED <<lines, target, read, best>>

Done == read = Len(lines) /\ best # 0 /\ token = Len(Entries(lines[best].pages))

Return == Done /\ UNCHANGED vars

\* if (!found) return false
NotFound == read = Len(lines) /\ best = 0 /\ UNCHANGED vars

Next == ReadLine \/ ReadToken \/ Return \/ NotFound
Spec == Init /\ [][Next]_vars
-----------------------------------------------------------------------------
\* Although the file does not say where a mapping ends, and whatever the
\* order of its lines, the line verify_allocation_node goes by is the one of
\* the mapping that holds the address.  An address that no mapping holds has
\* no line, or is judged by the mapping below it.
Holds(l) == l.start <= target /\ target < l.end

FindsTheMapping ==
  read = Len(lines) /\ (\E i \in DOMAIN lines : Holds(lines[i])) =>
    best # 0 /\ Holds(lines[best])

\* It says yes for a node only if no other node has more pages of that
\* mapping, and for one node exactly: of several with as many, the lowest.
MostPagesOnNode ==
  Done => LET p == lines[best].pages
          IN  /\ best_node \in Nodes
              /\ \A n \in Nodes : p[n] < p[best_node] \/ (p[n] = p[best_node] /\ best_node <= n)
=============================================================================
