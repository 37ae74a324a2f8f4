-------------------------- MODULE MCSearchSession ---------------------------
(***************************************************************************)
(* SearchSession over four bytes, for 16-bit and 32-bit searches.          *)
(***************************************************************************)
EXTENDS SearchSession

MCAreas == {[low |-> 0, size |-> 4]}

\* A saved 16-bit search.
Saved16(low, bytes, map) ==
  File([dmp |-> ArchiveDump, SearchSize |-> 2, DumpSize |-> bytes, MapMemAddy |-> low,
        ResCount |-> Cardinality(map.bits)], map)

\* Searches saved elsewhere: a shorter one of other addresses, and one that has lost
\* its bitmap.
MCArchive == {Saved16(4, 2, [len |-> 1, bits |-> {0}]), Saved16(0, 4, NoBits)}

\* BOUND: a history is followed until a menu command tears it.
Untorn == ~torn

\* BOUND: at most one entry of an older or undone history leaves its file behind.
FewLeftovers == \A k \in n + 2 .. MaxSearches : ~FileExists(k)
=============================================================================
