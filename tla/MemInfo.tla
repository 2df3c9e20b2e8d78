------------------------------ MODULE MemInfo ------------------------------
(***************************************************************************)
(* read_meminfo_field (src/huge_alloc.cpp): reading /proc/meminfo word by   *)
(* word.                                                                    *)
(***************************************************************************)
EXTENDS Integers, Sequences

(* The words of /proc/meminfo, as Linux writes them: sizes have a unit, the *)
(* four HugePages_ counts have none.                                        *)
MemInfoWords(total, free) ==
  <<"MemTotal:", 4096, "kB", "AnonHugePages:", 0, "kB",
    "HugePages_Total:", total, "HugePages_Free:", free, "HugePages_Rsvd:", 0,
    "HugePages_Surp:", 0, "Hugepagesize:", 2048, "kB">>

(* Where those words are numbers, operator >> into value succeeds.          *)
NumberAt == {2, 5, 8, 10, 12, 14, 16}

(* while (meminfo >> name >> value >> unit): three words at a time, until   *)
(* the name is found, or the words run out or do not fit.                   *)
read_meminfo_field(words, key) ==
  LET field[i \in 1..(Len(words) + 3)] ==
        IF i + 2 > Len(words) \/ i + 1 \notin NumberAt THEN 0
        ELSE IF words[i] = key THEN words[i + 1]
        ELSE field[i + 3]
  IN  field[1]

=============================================================================
