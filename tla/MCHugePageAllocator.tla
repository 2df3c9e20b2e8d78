----------------------- MODULE MCHugePageAllocator -----------------------
(* HugePageAllocator with two threads; regions of 3 and 1 pages, a huge     *)
(* page is 2.                                                               *)
EXTENDS HugePageAllocator, TLC

PoolOn(n) == [pool |-> TRUE, node |-> n, force |-> FALSE, regions |-> <<3, 1>>]
Direct == [pool |-> FALSE, node |-> -1, force |-> TRUE, regions |-> <<1>>]
DirectAny == [pool |-> FALSE, node |-> -1, force |-> FALSE, regions |-> <<3>>]

MCKinds == {PoolOn(-1), PoolOn(0), Direct, DirectAny}

Symmetry == Permutations(Threads)

=============================================================================
