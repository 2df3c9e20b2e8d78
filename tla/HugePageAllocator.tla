------------------------- MODULE HugePageAllocator -------------------------
(***************************************************************************)
(* The memory layer: HugePageAllocator (src/huge_alloc.cpp), a registry of  *)
(* mappings behind a mutex; allocate_on_node (src/numa_util.cpp); and their *)
(* clients, the constructor and destructor of BufferPool                    *)
(* (src/buffer_pool.cpp), which take two regions from one of the two, and   *)
(* callers of allocate and deallocate.  Several threads at once; mmap and   *)
(* munmap may fail.  Sizes and addresses count regular pages.               *)
(***************************************************************************)
EXTENDS MemInfo, FiniteSets, FiniteSetsExt, Functions, SequencesExt

CONSTANTS
  Threads,
  Pages,       \* bound: pages of the address space
  HugePage,    \* HUGE_PAGE_SIZE / REGULAR_PAGE_SIZE, 512 in the code
  HugeTotal,   \* huge pages the system is configured with
  Kinds        \* the clients: [pool, node, force, regions], see Construct

ASSUME AllocatorAssumption ==
  /\ Pages \in Nat /\ HugePage \in Nat \ {0} /\ HugeTotal \in Nat
  /\ \A k \in Kinds :
       /\ k.pool \in BOOLEAN /\ k.force \in BOOLEAN /\ k.node \in Int
       /\ k.regions \in Seq(Nat) \ {<<>>}

VARIABLES
  mapped,     \* the kernel: the mapped pages, and whether each is huge
  registry,   \* registry(): pointer -> AllocationInfo
  client,     \* what each thread holds and where it is
  lost,       \* history: pages nobody can unmap any more
  aborted     \* a destructor threw: std::terminate

vars == <<mapped, registry, client, lost, aborted>>

Addresses == 0..(Pages - 1)
Span(p, len) == p..(p + len - 1)
With(f, S, v) == [x \in DOMAIN f \cup S |-> IF x \in S THEN v ELSE f[x]]
Without(f, S) == Restrict(f, DOMAIN f \ S)

(* got: the regions held, each the set of pages mmap gave; the code keeps   *)
(* only the first address.                                                  *)
None == [pc |-> "none", got |-> <<>>]

Init ==
  /\ mapped = <<>> /\ registry = <<>> /\ lost = {} /\ aborted = FALSE
  /\ client = [t \in Threads |-> None]

At(t, label) == client[t].pc = label /\ ~aborted
Become(t, c) == client' = [client EXCEPT ![t] = c]
Goto(t, label) == Become(t, [client[t] EXCEPT !.pc = label])

(* The pointer the code has of a region. *)
Pointer(S) == Min(S)

(* round_up(bytes, HUGE_PAGE_SIZE) *)
round_up(n) == IF n = 0 THEN HugePage ELSE ((n + HugePage - 1) \div HugePage) * HugePage

(* A thread builds a pool of two regions, on a node with allocate_on_node   *)
(* or on -1 with allocate, or calls allocate(bytes, force_huge) itself.     *)
Construct(t, k) ==
  /\ At(t, "none")
  /\ Become(t, [pc |-> "map_huge", got |-> <<>>, kind |-> k, len |-> 0])
  /\ UNCHANGED <<mapped, registry, lost, aborted>>

(* The length mmap is asked for: allocate rounds it up, allocate_on_node    *)
(* does not.                                                                *)
Length(c) ==
  LET bytes == c.kind.regions[Len(c.got) + 1]
  IN  IF c.kind.node = -1 THEN round_up(bytes) ELSE bytes

(* The huge pages nobody has mapped: MAP_POPULATE takes them at once. *)
HugeFree == HugeTotal - Cardinality({q \in DOMAIN mapped : mapped[q]}) \div HugePage

(* The kernel gives any free range; a huge mapping is aligned and made of   *)
(* whole huge pages, of which there must be enough.                         *)
Mmap(t, p, len, huge) ==
  LET c == client[t] IN
  /\ Span(p, len) \subseteq Addresses \ DOMAIN mapped
  /\ mapped' = With(mapped, Span(p, len), huge)
  /\ Become(t, [c EXCEPT !.got = Append(@, Span(p, len)), !.len = Length(c),
                         !.pc = IF c.kind.node = -1 THEN "insert" ELSE "got"])
  /\ UNCHANGED <<registry, lost, aborted>>

MapHuge(t) ==
  /\ At(t, "map_huge")
  /\ round_up(Length(client[t])) <= HugeFree * HugePage
  /\ \E p \in {q \in Addresses : q % HugePage = 0} :
       Mmap(t, p, round_up(Length(client[t])), TRUE)

MapRegular(t) ==
  /\ At(t, "map_regular")
  /\ \E p \in Addresses : Mmap(t, p, Length(client[t]), FALSE)

(* allocate or alloc_region throws.  No destructor runs for a constructor   *)
(* that throws: what it already has stays mapped.                           *)
Throw(t) ==
  /\ Become(t, None)
  /\ lost' = lost \cup UNION ToSet(client[t].got)

MapHugeFails(t) ==
  /\ At(t, "map_huge")
  /\ IF client[t].kind.force THEN Throw(t)
     ELSE Goto(t, "map_regular") /\ UNCHANGED lost
  /\ UNCHANGED <<mapped, registry, aborted>>

MapRegularFails(t) ==
  /\ At(t, "map_regular")
  /\ Throw(t)
  /\ UNCHANGED <<mapped, registry, aborted>>

EntryAsked(c, S) == [bytes |-> c.kind.regions[Len(c.got)], is_huge |-> mapped[Pointer(S)]]

(* AllocationInfo{len, is_huge} *)
Entry(c, S) == [bytes |-> c.len, is_huge |-> mapped[Pointer(S)]]

(* Under the mutex: registry()[p] = AllocationInfo{len, is_huge}. *)
Insert(t) ==
  /\ At(t, "insert")
  /\ LET S == Last(client[t].got)
     IN  registry' = With(registry, {Pointer(S)}, Entry(client[t], S))
  /\ Goto(t, "got")
  /\ UNCHANGED <<mapped, lost, aborted>>

(* backing_, then descriptors_, is set; with the last region the object     *)
(* lives.                                                                   *)
Got(t) ==
  /\ At(t, "got")
  /\ Goto(t, IF Len(client[t].got) = Len(client[t].kind.regions) THEN "up" ELSE "map_huge")
  /\ UNCHANGED <<mapped, registry, lost, aborted>>
-----------------------------------------------------------------------------
(* ~BufferPool or deallocate: the regions one after the other. *)
Destroy(t) ==
  /\ At(t, "up")
  /\ Goto(t, "free")
  /\ UNCHANGED <<mapped, registry, lost, aborted>>

(* The region now being freed, and the bytes the pool asked for.            *)
Region(c) == Head(c.got)
Bytes(c) == c.kind.regions[Len(c.kind.regions) - Len(c.got) + 1]

(* On to the next region of the destructor, or to its end. *)
Freed(c) == IF Len(c.got) = 1 THEN None ELSE [c EXCEPT !.pc = "free", !.got = Tail(@)]

FindAfterMunmap(t) ==
  LET c == client[t] p == Pointer(Region(c)) IN
  /\ At(t, "free") /\ c.kind.node = -1
  /\ \/ /\ p \in DOMAIN registry /\ c.len > 0
        /\ mapped' = Without(mapped, Region(c))
        /\ Become(t, [c EXCEPT !.len = 0])
        /\ UNCHANGED registry
     \/ /\ c.len = 0
        /\ registry' = Without(registry, {p})
        /\ Become(t, Freed(c))
        /\ UNCHANGED mapped
  /\ UNCHANGED <<lost, aborted>>

(* deallocate, under the mutex: find, take the length, erase. *)
Find(t) ==
  LET c == client[t] p == Pointer(Region(c)) IN
  /\ At(t, "free") /\ c.kind.node = -1
  /\ p \in DOMAIN registry
  /\ registry' = Without(registry, {p})
  /\ Become(t, [c EXCEPT !.pc = "unmap", !.len = registry[p].bytes])
  /\ UNCHANGED <<mapped, lost, aborted>>

(* deallocate of an untracked pointer throws: the second try of a caller    *)
(* whose munmap failed.                                                     *)
Untracked(t) ==
  /\ At(t, "free") /\ client[t].kind.node = -1
  /\ Pointer(Region(client[t])) \notin DOMAIN registry
  /\ Throw(t)
  /\ UNCHANGED <<mapped, registry, aborted>>

(* free_region on a node: munmap(ptr, bytes). *)
FreeOnNode(t) ==
  /\ At(t, "free") /\ client[t].kind.node # -1
  /\ Become(t, [client[t] EXCEPT !.pc = "unmap", !.len = Bytes(client[t])])
  /\ UNCHANGED <<mapped, registry, lost, aborted>>

(* The kernel does not unmap part of a huge page: EINVAL. *)
Splits(S) ==
  \E q \in DOMAIN mapped : mapped[q] /\
    LET page == Span(q - (q % HugePage), HugePage) IN page \cap S \notin {{}, page}

MunmapShort(c) == Span(Pointer(Region(c)), Bytes(c))

(* The pages munmap is given. *)
MunmapRange(c) == Span(Pointer(Region(c)), c.len)

Munmap(t) ==
  /\ At(t, "unmap")
  /\ ~Splits(MunmapRange(client[t]))
  /\ mapped' = Without(mapped, MunmapRange(client[t]))
  /\ Become(t, Freed(client[t]))
  /\ UNCHANGED <<registry, lost, aborted>>

(* munmap fails.  free_region on a node does not look at the result;        *)
(* deallocate throws, which ends the program when it comes out of           *)
(* ~BufferPool and leaves a direct caller with its pointer.                 *)
MunmapFails(t) ==
  LET c == client[t] IN
  /\ At(t, "unmap")
  /\ \/ /\ c.kind.node # -1
        /\ lost' = lost \cup Region(c)
        /\ Become(t, Freed(c))
        /\ UNCHANGED aborted
     \/ /\ c.kind.node = -1 /\ c.kind.pool
        /\ aborted' = TRUE
        /\ UNCHANGED <<client, lost>>
     \/ /\ c.kind.node = -1 /\ ~c.kind.pool
        /\ Goto(t, "up")
        /\ UNCHANGED <<lost, aborted>>
  /\ UNCHANGED <<mapped, registry>>

Over == aborted /\ UNCHANGED vars

Next ==
  \/ \E t \in Threads :
       \/ \E k \in Kinds : Construct(t, k)
       \/ MapHuge(t) \/ MapHugeFails(t) \/ MapRegular(t) \/ MapRegularFails(t)
       \/ Insert(t) \/ Got(t)
       \/ Destroy(t) \/ Find(t) \/ Untracked(t) \/ FreeOnNode(t)
       \/ Munmap(t) \/ MunmapFails(t)
  \/ Over

Spec == Init /\ [][Next]_vars

(* available_huge_pages() *)
available_huge_pages == read_meminfo_field(MemInfoWords(HugeTotal, HugeFree), "HugePages_Free:")

(* is_huge(ptr) *)
is_huge(p) == p \in DOMAIN registry /\ registry[p].is_huge
-----------------------------------------------------------------------------
Held(t) == UNION ToSet(client[t].got)

(* Pages are known to the kernel, the registry has addresses for keys.      *)
TypeOK ==
  /\ DOMAIN mapped \subseteq Addresses /\ Range(mapped) \subseteq BOOLEAN
  /\ DOMAIN registry \subseteq Addresses
  /\ Range(registry) \subseteq [bytes : Nat, is_huge : BOOLEAN]
  /\ \A t \in Threads : client[t].got \in Seq(SUBSET Addresses \ {{}})
  /\ lost \subseteq Addresses /\ aborted \in BOOLEAN

(* Every mapped page belongs to exactly one client, or was given up by a    *)
(* failing step: a constructor that threw after its first region            *)
(* (buffer_pool.cpp:76-78), a munmap whose result was ignored               *)
(* (buffer_pool.cpp:56) or that threw (huge_alloc.cpp:97).  Nothing else    *)
(* leaks, and nobody's memory is unmapped by another.                       *)
PagesAccountedFor ==
  /\ DOMAIN mapped = lost \cup UNION {Held(t) : t \in Threads}
  /\ \A t \in Threads :
       /\ Held(t) \cap lost = {}
       /\ \A u \in Threads \ {t} : Held(t) \cap Held(u) = {}

(* The registry tells the truth at every moment, between the unlock and the *)
(* munmap of deallocate too: each entry covers mapped pages of its kind and *)
(* nobody else's, and an insert never meets an entry already there.         *)
RegistryMatchesKernel ==
  /\ \A p \in DOMAIN registry : \A q \in Span(p, registry[p].bytes) :
       /\ q \in DOMAIN mapped /\ mapped[q] = is_huge(p)
       /\ q \in DOMAIN registry => q = p
  /\ \A t \in Threads : At(t, "insert") => Pointer(Last(client[t].got)) \notin DOMAIN registry

(* What a pool on node -1 holds is tracked with its whole length until the  *)
(* destructor takes it out, so deallocate never throws "untracked pointer"  *)
(* out of ~BufferPool.                                                      *)
PoolsAreTracked ==
  \A t \in Threads : ~At(t, "none") /\ ~aborted /\ client[t].kind.pool /\ client[t].kind.node = -1 =>
    LET c == client[t] IN
    \A i \in (IF At(t, "unmap") THEN 2 ELSE 1)..(Len(c.got) - IF At(t, "insert") THEN 1 ELSE 0) :
      LET p == Pointer(c.got[i])
      IN  p \in DOMAIN registry /\ registry[p].bytes = Cardinality(c.got[i])

(* available_huge_pages() is what its comment says, "/proc/meminfo          *)
(* HugePages_Free" (huge_alloc.h:23): the huge pages nobody has mapped.     *)
(* The reading takes three words at a time, so it passes over the name      *)
(* HugePages_Free:, which it takes for the unit of HugePages_Total:, and    *)
(* returns 0 (huge_alloc.cpp:27).                                           *)
AvailableIsFree == available_huge_pages = HugeFree

=============================================================================
