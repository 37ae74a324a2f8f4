----------------------- MODULE SearchSession_proofs ------------------------
(***************************************************************************)
(* Proofs about SearchSession for every number of entries, every search    *)
(* area, all search sizes and all saved searches, torn or not.             *)
(***************************************************************************)
EXTENDS SearchSession, FiniteSetTheorems, TLAPS

-----------------------------------------------------------------------------
(* Old entries stay as they are.                                           *)

\* What the global Search may hold: an initial search compares with nothing.
Searches ==
  {s \in [Type : {"INIT", "COMPARE", "FORGOT"}, Size : Nat, CompareTo : Nat, Count : Nat] :
     s.Type = "INIT" => s.CompareTo = 0}

\* Where a search that waits is going to write.  Undo and Load Search may take
\* entries away under it, and Undo moves its target: never onto one that is left.
TargetAhead == pending /\ Search.CompareTo # 0 => n >= 1 /\ Search.Count \in n + 1 .. MaxSearches

\* The inductive invariant: the history and its files, and TargetAhead.
Placed ==
  /\ n \in 0 .. MaxSearches
  /\ files = [k \in Slots |-> files[k]]
  /\ dumps = [k \in Slots |-> dumps[k]]
  /\ Search \in Searches
  /\ TargetAhead

\* What a step leaves as it was: a search from scratch apart, all the entries
\* before the newest one it ends with.
Frozen == \A k \in 1 .. n : k < n' => files'[k] = files[k] /\ dumps'[k] = dumps[k]

\* The end of a search writes its target, or the first entry of a new history.
LEMMA FinishWrites ==
  ASSUME Placed, NEW info, NEW ds, NEW s \in Searches, s.Count \in Slots, Finish(info, s, ds)
  PROVE  /\ n' = IF s.CompareTo = 0 THEN 1 ELSE n + 1
         /\ files' = [k \in Slots |-> files'[k]]
         /\ s.CompareTo # 0 => \A k \in Slots : k # s.Count => files'[k] = files[k]
<1> USE SessionAssumption DEF Placed, Slots, Finish, TargetOf
<1>1. n' = IF s.CompareTo = 0 THEN 1 ELSE n + 1
  OBVIOUS
<1>2. \/ s.CompareTo = 0 /\ files' = Fresh
      \/ \E f : files' = [files EXCEPT ![s.Count] = f]
      \/ files' = files
  <2>1. CASE s.Type = "INIT"
    BY <2>1 DEF Searches
  <2>2. CASE s.Type = "FORGOT"
    BY <2>2
  <2>3. CASE s.Type \notin {"INIT", "FORGOT"}
    <3>1. CASE CanCompare(info, s, ds)
      BY <2>3, <3>1 DEF Narrow
    <3>2. CASE ~CanCompare(info, s, ds)
      BY <2>3, <3>2
    <3> QED
      BY <3>1, <3>2
  <2> QED
    BY <2>1, <2>2, <2>3
<1>3. files' = [k \in Slots |-> files'[k]]
  BY <1>2 DEF Fresh
<1>4. s.CompareTo # 0 => \A k \in Slots : k # s.Count => files'[k] = files[k]
  BY <1>2
<1> QED
  BY <1>1, <1>3, <1>4

\* A search that is about to start aims at the entry after the newest, or at the
\* first when it compares with nothing.
LEMMA NewSearchAims ==
  ASSUME Placed, NEW type \in {"INIT", "COMPARE", "FORGOT"}, NEW size \in Sizes,
         NEW c \in 0 .. n, type = "INIT" => c = 0, Permitted(NewSearch(type, size, c))
  PROVE  LET s == NewSearch(type, size, c)
         IN  s \in Searches /\ s.CompareTo = c /\ s.Count \in Slots /\ (c # 0 => s.Count = n + 1)
BY SessionAssumption DEF Placed, Searches, NewSearch, Permitted, Slots

\* Placed holds at first.
LEMMA PlacedInit == Init => Placed
BY SessionAssumption DEF Init, Placed, Slots, Searches, TargetAhead, pending, Idle

\* Steps that start or end a search.
LEMMA SearchPlaced ==
  ASSUME Placed, (\E c \in 0 .. n : DoSearch(c)) \/ DumpFailed \/ Continue \/ ExFilter
  PROVE  Placed' /\ (Frozen \/ DoSearch(0))
<1> USE SessionAssumption
<1>1. ASSUME NEW c \in 0 .. n, DoSearch(c) PROVE Placed' /\ (Frozen \/ DoSearch(0))
  <2>1. PICK size \in Sizes, area \in Areas, started \in BOOLEAN,
             type \in {"COMPARE", "FORGOT"} \cup (IF c = 0 THEN {"INIT"} ELSE {}) :
          /\ Permitted(NewSearch(type, size, c))
          /\ files' = KeptFiles(type)
          /\ \/ dumps' = [KeptDumps(type) EXCEPT ![NewSearch(type, size, c).Count] =
                                                       IF started THEN area.size ELSE 0]
             \/ ~started /\ dumps' = KeptDumps(type)
          /\ Search' = IF started THEN NewSearch(type, size, c) ELSE Idle
    BY <1>1, ZenonT(120) DEF DoSearch
  <2>2. n' = n
    BY <1>1 DEF DoSearch
  <2> DEFINE s == NewSearch(type, size, c)
  <2>3. s \in Searches /\ s.CompareTo = c /\ s.Count \in Slots /\ (c # 0 => s.Count = n + 1)
    BY <2>1, NewSearchAims
  <2> HIDE DEF s
  <2>4. files' = [k \in Slots |-> files'[k]] /\ dumps' = [k \in Slots |-> dumps'[k]]
    BY <2>1 DEF s, KeptFiles, KeptDumps
  <2>5. Search' \in Searches
    BY <2>1, <2>3 DEF s, Idle, Searches
  <2>6. TargetAhead'
    BY <2>1, <2>2, <2>3 DEF s, TargetAhead, pending, Slots, Placed
  <2>7. c # 0 => Frozen
    <3> SUFFICES ASSUME c # 0, NEW k \in 1 .. n, k < n'
                 PROVE  files'[k] = files[k] /\ dumps'[k] = dumps[k]
      BY DEF Frozen
    <3>1. type # "INIT" /\ k \in Slots /\ k # s.Count
      BY <2>2, <2>3 DEF Placed, Slots
    <3> QED
      BY <2>1, <3>1 DEF s, KeptFiles, KeptDumps
  <2> QED
    BY <1>1, <2>2, <2>4, <2>5, <2>6, <2>7 DEF Placed
<1>2. CASE DumpFailed
  BY <1>2 DEF DumpFailed, Placed, Frozen, Searches, TargetAhead, pending, Idle
<1>3. CASE Continue
  <2>1. UNCHANGED dumps /\ Search' = Idle /\ pending
    BY <1>3 DEF Continue
  <2>2. Search' \in Searches /\ TargetAhead'
    BY <2>1 DEF Searches, TargetAhead, pending, Idle
  <2>3. CASE Search.CompareTo # 0
    <3>1. Search \in Searches /\ Search.Count \in Slots /\ Search.Count > n /\ n + 1 <= MaxSearches
      BY <2>1, <2>3 DEF Placed, TargetAhead, Slots
    <3>2. Finish(RamInfo, Search, dumps)
      BY <1>3, <2>3 DEF Continue
    <3>3. /\ n' = n + 1
          /\ files' = [k \in Slots |-> files'[k]]
          /\ \A k \in Slots : k # Search.Count => files'[k] = files[k]
      BY <2>3, <3>1, <3>2, FinishWrites
    <3> QED
      BY <2>1, <2>2, <3>1, <3>3 DEF Placed, Frozen, Slots
  <2>4. CASE Search.CompareTo = 0
    <3> DEFINE s == [Search EXCEPT !.Count = 1]
    <3>1. s \in Searches /\ s.Count \in Slots /\ s.CompareTo = 0
      BY <2>4 DEF Placed, Searches, Slots
    <3>2. \/ n' = 0 /\ files' = Fresh
          \/ Finish([RamInfo EXCEPT !.Results = FreshBits], s, dumps)
      BY <1>3, <2>4 DEF Continue
    <3> HIDE DEF s
    <3>3. n' \in {0, 1} /\ files' = [k \in Slots |-> files'[k]]
      BY <3>1, <3>2, FinishWrites DEF Fresh, Placed, Slots
    <3> QED
      BY <2>1, <2>2, <3>3 DEF Placed, Frozen, Slots
  <2> QED
    BY <2>3, <2>4 DEF Placed, Searches
<1>4. CASE ExFilter
  <2>1. PICK size \in Sizes, c \in 1 .. n :
          LET s == NewSearch("COMPARE", size, c)
          IN  /\ Permitted(s)
              /\ \E info : Finish(info, s, dumps')
              /\ \E d : dumps' = [dumps EXCEPT ![s.Count] = d]
    BY <1>4, Zenon DEF ExFilter
  <2> DEFINE s == NewSearch("COMPARE", size, c)
  <2>2. s \in Searches /\ s.CompareTo = c /\ s.Count \in Slots /\ s.Count = n + 1
    BY <2>1, NewSearchAims
  <2>3. PICK info : Finish(info, s, dumps')
    BY <2>1
  <2>4. \E d : dumps' = [dumps EXCEPT ![s.Count] = d]
    BY <2>1
  <2> HIDE DEF s
  <2>5. /\ n' = n + 1
        /\ files' = [k \in Slots |-> files'[k]]
        /\ \A k \in Slots : k # s.Count => files'[k] = files[k]
    BY <2>2, <2>3, FinishWrites
  <2>6. dumps' = [k \in Slots |-> dumps'[k]] /\ \A k \in Slots : k # s.Count => dumps'[k] = dumps[k]
    BY <2>4 DEF Placed
  <2>7. Search' = Search /\ ~pending'
    BY <1>4 DEF ExFilter, pending
  <2> QED
    BY <2>2, <2>5, <2>6, <2>7 DEF Placed, Frozen, Slots, TargetAhead
<1> QED
  BY <1>1, <1>2, <1>3, <1>4

\* The menu commands and the results tab.
LEMMA OthersPlaced ==
  ASSUME Placed, \/ Undo \/ LoadSearch \/ LoadSearchFails
                 \/ ShowResults \/ ShowSearch \/ Delete \/ UNCHANGED vars
  PROVE  Placed' /\ Frozen
<1> USE SessionAssumption DEF Placed, Slots
<1>1. CASE Undo
  <2>1. UNCHANGED <<files, dumps>> /\ n' \in {n, n - 1} /\ (n' # n => n >= 2)
    BY <1>1 DEF Undo
  <2>2. Search' = IF pending THEN [Search EXCEPT !.Count = n + 1] ELSE Search
    BY <1>1 DEF Undo
  <2>3. Search' \in Searches
    <3>1. n + 1 \in Nat /\ Search \in [Type : {"INIT", "COMPARE", "FORGOT"}, Size : Nat,
                                     CompareTo : Nat, Count : Nat]
      BY DEF Searches
    <3> QED
      BY <2>2, <3>1 DEF Searches
  <2>4. TargetAhead'
    BY <2>1, <2>2 DEF TargetAhead, pending, Searches
  <2> QED
    BY <2>1, <2>3, <2>4 DEF Frozen
<1>2. CASE LoadSearch
  <2>1. n' = 1 /\ UNCHANGED Search
    BY <1>2 DEF LoadSearch
  <2>2. files' = [k \in Slots |-> files'[k]] /\ dumps' = [k \in Slots |-> dumps'[k]]
    BY <1>2 DEF LoadSearch
  <2> QED
    BY <2>1, <2>2 DEF Frozen, TargetAhead, pending
<1>3. CASE LoadSearchFails \/ ShowResults \/ ShowSearch \/ UNCHANGED vars
  BY <1>3 DEF LoadSearchFails, ShowResults, ShowSearch, vars, Frozen, TargetAhead, pending
<1>4. CASE Delete
  <2>1. UNCHANGED <<n, dumps, Search>>
    BY <1>4 DEF Delete
  <2>2. \E f : files' = [files EXCEPT ![n] = f]
    BY <1>4, Zenon DEF Delete
  <2>3. files' = [k \in Slots |-> files'[k]] /\ \A k \in Slots : k # n => files'[k] = files[k]
    BY <2>2
  <2> QED
    BY <2>1, <2>3 DEF Frozen, TargetAhead, pending
<1> QED
  BY <1>1, <1>2, <1>3, <1>4

\* Whatever the user does while a search waits, with whatever menu command: a step
\* other than a search from scratch changes no entry before the newest it leaves,
\* so that Undo brings back what was there (SearchSession's OldEntriesFrozen).
THEOREM OldEntriesFrozenCorrect == Spec => OldEntriesFrozen
<1>1. ASSUME Placed, [Next]_vars PROVE Placed' /\ (Frozen \/ DoSearch(0))
  BY <1>1, SearchPlaced, OthersPlaced DEF Next
<1>2. Frozen \/ DoSearch(0) =>
        [~DoSearch(0) => \A k \in 1 .. n : k < n' => files'[k] = files[k] /\ dumps'[k] = dumps[k]]_vars
  BY DEF Frozen
<1> QED
  BY PlacedInit, <1>1, <1>2, PTL DEF Spec, OldEntriesFrozen

-----------------------------------------------------------------------------
(* Type correctness.                                                       *)

Headers == [dmp : Nat, SearchSize : Nat, DumpSize : 0 .. CountMod - 1, MapMemAddy : Nat,
            ResCount : 0 .. CountMod - 1]
Bitmaps == {m \in [len : Nat, bits : SUBSET Nat] : m.bits \subseteq 0 .. m.len - 1}
Files == [hdr : Headers, map : Bitmaps]
Dumps == {NoDump} \cup 0 .. CountMod - 1
Infos == [Old : Headers, New : Headers, Results : Bitmaps]
Tables == {list \in [rows : SUBSET Nat, junk : Nat] : IsFiniteSet(list.rows)}

\* Every file is a header and a bitmap that fits it, and so is what a search has
\* loaded; a list of results is finite.
FilesType == files \in [Slots -> {NoFile} \cup Files] /\ dumps \in [Slots -> Dumps]
InfoType == RamInfo \in Infos
TabType == listed \in {NoList} \cup Tables /\ (pending => Search.Size \in Sizes /\ tab = "search")

\* The inductive form of TypeOK.
Typed == Placed /\ FilesType /\ InfoType /\ TabType

\* A file that exists is a header and a bitmap.
LEMMA FileType ==
  ASSUME FilesType, NEW k, FileExists(k)
  PROVE  k \in Slots /\ files[k] \in Files
BY DEF FilesType, FileExists

\* A buffer of u32 bytes has no more values than bytes.
LEMMA ValuesFit ==
  ASSUME NEW bytes \in 0 .. CountMod - 1, NEW size \in Nat \ {0}
  PROVE  bytes \div size \in 0 .. CountMod - 1
<1>1. bytes \div size \in Int /\ 0 <= bytes \div size /\ bytes \div size <= bytes
  BY SessionAssumption
<1> QED
  BY <1>1, SessionAssumption

\* However short a bitmap is, m bits are read from it.
LEMMA ReadingsType ==
  ASSUME NEW map \in Bitmaps, NEW m \in Nat, NEW on \in Readings(map, m)
  PROVE  on \subseteq 0 .. m - 1 /\ IsFiniteSet(on)
<1>1. on \subseteq 0 .. m - 1
  <2>1. PICK junk \in SUBSET (map.len .. m - 1) : on = (map.bits \cap 0 .. m - 1) \cup junk
    BY DEF Readings
  <2>2. map.len .. m - 1 \subseteq 0 .. m - 1
    BY DEF Bitmaps
  <2> QED
    BY <2>1, <2>2
<1>2. IsFiniteSet(0 .. m - 1)
  BY FS_Interval
<1> QED
  BY <1>1, <1>2, FS_Subset

\* m bits of any buffer are saved as a bitmap.
LEMMA SavedType ==
  ASSUME NEW map, map.len \in Nat, NEW m \in Nat
  PROVE  Saved(map, m) \in Bitmaps
<1> DEFINE known == IF map.len < m THEN map.len ELSE m
<1>1. known \in Nat
  OBVIOUS
<1>2. Saved(map, m) = [len |-> known, bits |-> map.bits \cap 0 .. known - 1]
  BY DEF Saved
<1> HIDE DEF known
<1>3. 0 .. known - 1 \subseteq Nat
  BY <1>1
<1> QED
  BY <1>1, <1>2, <1>3 DEF Bitmaps

\* Of a finite set of numbers, those with fewer than r below them are at most r.
LEMMA FirstOnes ==
  ASSUME NEW all, all \subseteq Int, IsFiniteSet(all), NEW r \in Nat
  PROVE  IsFiniteSet(FirstOf(all, r)) /\ Cardinality(FirstOf(all, r)) \in 0 .. r
<1> DEFINE list == {a \in all : Cardinality({b \in all : b < a}) < r}
           rank == [a \in list |-> Cardinality({b \in all : b < a})]
<1>1. \A a \in Int : /\ IsFiniteSet({b \in all : b < a})
                     /\ Cardinality({b \in all : b < a}) \in Nat
  <2> TAKE a \in Int
  <2>1. {b \in all : b < a} \in SUBSET all
    OBVIOUS
  <2> QED
    BY <2>1, FS_Subset, FS_CardinalityType
<1>2. ASSUME NEW a \in list, NEW c \in list, a < c
      PROVE  rank[a] < rank[c]
  <2> DEFINE low == {b \in all : b < a}
             high == {b \in all : b < c}
  <2>1. a \in Int /\ c \in Int /\ a \in all
    OBVIOUS
  <2>2. IsFiniteSet(low) /\ Cardinality(low) \in Nat /\ IsFiniteSet(high) /\ Cardinality(high) \in Nat
    BY <1>1, <2>1
  <2>3. low \cup {a} \in SUBSET high /\ a \notin low
    <3>1. \A b \in all : b \in Int /\ (b < a => b < c) /\ ~(a < a)
      BY <1>2, <2>1
    <3> QED
      BY <1>2, <2>1, <3>1
  <2> HIDE DEF low, high
  <2>4. Cardinality(low \cup {a}) = Cardinality(low) + 1
    BY <2>2, <2>3, FS_AddElement
  <2>5. Cardinality(low \cup {a}) <= Cardinality(high)
    BY <2>2, <2>3, FS_Subset
  <2>6. Cardinality(low) < Cardinality(high)
    BY <2>2, <2>4, <2>5
  <2> QED
    BY <2>6 DEF low, high
<1>3. rank \in Injection(list, 0 .. r - 1)
  <2>1. \A a \in list : rank[a] \in 0 .. r - 1
    <3> SUFFICES ASSUME NEW a \in list PROVE Cardinality({b \in all : b < a}) \in 0 .. r - 1
      OBVIOUS
    <3>1. a \in Int /\ Cardinality({b \in all : b < a}) < r
      OBVIOUS
    <3> QED
      BY <1>1, <3>1
  <2>2. \A a, c \in list : rank[a] = rank[c] => a = c
    <3> SUFFICES ASSUME NEW a \in list, NEW c \in list, rank[a] = rank[c], a # c
                 PROVE  FALSE
      OBVIOUS
    <3>1. a \in Int /\ c \in Int
      OBVIOUS
    <3>2. rank[a] \in Int
      BY <2>1
    <3> HIDE DEF list, rank
    <3>3. a < c \/ c < a
      BY <3>1
    <3> QED
      BY <1>2, <3>2, <3>3
  <2>3. rank = [a \in list |-> rank[a]]
    OBVIOUS
  <2> HIDE DEF list, rank
  <2> QED
    BY <2>1, <2>2, <2>3 DEF Injection, IsInjective
<1>4. IsFiniteSet(0 .. r - 1) /\ Cardinality(0 .. r - 1) = r
  <2>1. 0 \in Int /\ r - 1 \in Int
    OBVIOUS
  <2>2. /\ IsFiniteSet(0 .. r - 1)
        /\ Cardinality(0 .. r - 1) = IF 0 > r - 1 THEN 0 ELSE (r - 1) - 0 + 1
    BY <2>1, FS_Interval
  <2> QED
    BY <2>2
<1> HIDE DEF list, rank
<1>5. IsFiniteSet(list) /\ Cardinality(list) <= r
  BY <1>3, <1>4, FS_Injection
<1>6. Cardinality(list) \in Nat
  BY <1>5, FS_CardinalityType
<1> QED
  BY <1>5, <1>6 DEF list, FirstOf

\* A header tells a number of values.
LEMMA ValuesType ==
  ASSUME NEW hdr \in Headers
  PROVE  Values(hdr) \in Nat
BY ValuesFit DEF Headers, Values

\* The results of a file that are read from it are finitely many addresses.
LEMMA AddressesFinite ==
  ASSUME NEW size \in Nat, NEW on, on \subseteq Nat, IsFiniteSet(on)
  PROVE  {i * size : i \in on} \subseteq Nat /\ IsFiniteSet({i * size : i \in on})
<1> DEFINE g == [i \in on |-> i * size]
<1>1. g \in Surjection(on, {i * size : i \in on})
  BY DEF Surjection
<1>2. IsFiniteSet({i * size : i \in on})
  BY <1>1, FS_Surjection
<1>3. \A i \in on : i * size \in Nat
  OBVIOUS
<1> QED
  BY <1>2, <1>3

\* The list of a file's results has finitely many rows, however many it is short of.
LEMMA ListsType ==
  ASSUME NEW f \in Files, NEW list \in Lists(f)
  PROVE  list \in Tables
<1> DEFINE size == f.hdr.SearchSize
           m == Values(f.hdr)
           r == f.hdr.ResCount
           low == f.hdr.MapMemAddy
<1>1. f.hdr \in Headers /\ size \in Nat /\ r \in Nat /\ low \in Nat /\ f.map \in Bitmaps
  BY SessionAssumption DEF Files, Headers
<1>2. m \in Nat
  BY <1>1, ValuesType
<1>3. PICK on \in Readings(f.map, m) :
        LET first == FirstOf({i * size : i \in on}, r)
        IN  list = IF AllOpen THEN [rows |-> {a + low : a \in first}, junk |-> r - Cardinality(first)]
                   ELSE [rows |-> {}, junk |-> 0]
  BY DEF Lists
<1> HIDE DEF m, size, r, low
<1>4. on \subseteq Nat /\ IsFiniteSet(on)
  <2>1. on \subseteq 0 .. m - 1 /\ IsFiniteSet(on)
    BY <1>1, <1>2, ReadingsType
  <2> QED
    BY <2>1, <1>2
<1> DEFINE all == {i * size : i \in on}
           first == FirstOf(all, r)
<1>5. all \subseteq Nat /\ IsFiniteSet(all)
  BY <1>1, <1>4, AddressesFinite
<1>6. IsFiniteSet(first) /\ Cardinality(first) \in 0 .. r
  <2> HIDE DEF all
  <2>1. all \subseteq Int
    BY <1>5
  <2> QED
    BY <1>1, <1>5, <2>1, FirstOnes
<1>7. first \subseteq Nat
  BY <1>5 DEF FirstOf
<1> HIDE DEF all, first
<1>8. IsFiniteSet({a + low : a \in first}) /\ {a + low : a \in first} \subseteq Nat
  <2> DEFINE g == [a \in first |-> a + low]
  <2>1. g \in Surjection(first, {a + low : a \in first})
    BY DEF Surjection
  <2>2. IsFiniteSet({a + low : a \in first})
    BY <2>1, <1>6, FS_Surjection
  <2> QED
    BY <2>2, <1>1, <1>7
<1>9. r - Cardinality(first) \in Nat
  BY <1>1, <1>6
<1>10. IsFiniteSet({})
  BY FS_EmptySet
<1>11. \/ list = [rows |-> {a + low : a \in first}, junk |-> r - Cardinality(first)]
       \/ list = [rows |-> {}, junk |-> 0]
  BY <1>3 DEF all, first
<1>12. ASSUME NEW rows, rows \subseteq Nat, IsFiniteSet(rows), NEW junk \in Nat
       PROVE  [rows |-> rows, junk |-> junk] \in Tables
  BY <1>12 DEF Tables
<1> QED
  BY <1>8, <1>9, <1>10, <1>11, <1>12

\* A table is not the absence of one.
LEMMA TableIsList ==
  ASSUME NEW list \in Tables
  PROVE  list # NoList
BY DEF Tables, NoList

\* The dump of a header, with the dumps of the folder.
LEMMA DumpBytesType ==
  ASSUME FilesType, NEW hdr \in Headers
  PROVE  DumpBytes(hdr, dumps) \in Dumps
<1>1. CASE hdr.dmp = ArchiveDump
  BY <1>1, SessionAssumption DEF DumpBytes, Headers, Dumps, ArchiveDump, Slots
<1>2. CASE hdr.dmp # ArchiveDump /\ hdr.dmp \in Slots
  BY <1>2 DEF DumpBytes, FilesType
<1>3. CASE hdr.dmp # ArchiveDump /\ hdr.dmp \notin Slots
  BY <1>3 DEF DumpBytes, Dumps
<1> QED
  BY <1>1, <1>2, <1>3

\* A count is a u32, however far it is counted down.
LEMMA RecountType ==
  ASSUME NEW s, s.Size \in Nat, NEW found, IsFiniteSet(found), NEW keep \in SUBSET found
  PROVE  Recount(s, found, keep) \in 0 .. CountMod - 1
<1>1. Cardinality(found) \in Nat /\ Cardinality(found \ keep) \in Nat
  BY FS_CardinalityType, FS_Difference
<1>2. Cardinality(found) - s.Size * Cardinality(found \ keep) \in Int
  BY <1>1
<1>3. \A x \in Int : x % CountMod \in 0 .. CountMod - 1
  BY SessionAssumption
<1> QED
  BY <1>2, <1>3 DEF Recount

\* What a search loads has the shape of RamInfo.
LEMMA LoadedType ==
  ASSUME FilesType, NEW s, s.CompareTo # 0 => FileExists(HeaderOf(s)) /\ Readable(BitmapOf(s)),
         NEW new \in Headers
  PROVE  LoadedInfo(s, new) \in Infos
<1>1. ZeroHeader \in Headers /\ NoBits \in Bitmaps
  BY SessionAssumption DEF ZeroHeader, Headers, NoBits, Bitmaps
<1>2. s.CompareTo # 0 => files[HeaderOf(s)] \in Files /\ files[BitmapOf(s)] \in Files
  BY FileType DEF Readable
<1>3. s.CompareTo # 0 => files[HeaderOf(s)].hdr \in Headers /\ files[BitmapOf(s)].map \in Bitmaps
  BY <1>2 DEF Files
<1> QED
  BY <1>1, <1>3 DEF LoadedInfo, Infos

\* The first entry of a new history is a file, if a search waits.
LEMMA FreshType ==
  ASSUME Typed, pending
  PROVE  Fresh \in [Slots -> {NoFile} \cup Files] /\ FreshBits \in Bitmaps
<1>1. Search.Size \in Nat \ {0} /\ RamInfo.New \in Headers /\ RamInfo.New.DumpSize \in 0 .. CountMod - 1
  BY SessionAssumption DEF Typed, TabType, InfoType, Infos, Headers
<1>2. FreshBits.len \in 0 .. CountMod - 1 /\ FreshBits = [len |-> FreshBits.len, bits |-> 0 .. FreshBits.len - 1]
  BY <1>1, ValuesFit DEF FreshBits
<1>3. FreshBits \in Bitmaps
  BY <1>2 DEF Bitmaps
<1>4. [RamInfo.New EXCEPT !.ResCount = FreshBits.len] \in Headers
  BY <1>1, <1>2 DEF Headers
<1>5. File([RamInfo.New EXCEPT !.ResCount = FreshBits.len], FreshBits) \in Files
  BY <1>3, <1>4 DEF File, Files
<1> QED
  BY <1>3, <1>5 DEF Fresh, Typed, FilesType

\* What a search writes that has found some results and keeps some of them.
Keeps(info, s, target, found, keep) ==
  /\ files' = [files EXCEPT ![target] =
                 File([info.New EXCEPT !.ResCount = Recount(s, found, keep)],
                      Saved([info.Results EXCEPT !.bits = keep], info.New.DumpSize \div s.Size))]
  /\ miscounted' = Recounted(target, s.Size > 1 /\ keep # found)

\* A search keeps some results of those it found among the bits it read.
LEMMA NarrowKeeps ==
  ASSUME NEW info, NEW s, NEW target, Narrow(info, s, target)
  PROVE  \E on \in Readings(info.Results, info.New.DumpSize \div s.Size) :
         \E found \in SUBSET on : \E keep \in SUBSET found : Keeps(info, s, target, found, keep)
BY Zenon DEF Narrow, Keeps

\* The end of a search leaves files.
LEMMA FinishType ==
  ASSUME Typed, NEW info \in Infos, NEW s \in Searches, s.Size \in Sizes, s.Count \in Slots,
         s.CompareTo # 0 \/ pending, NEW ds, Finish(info, s, ds)
  PROVE  files' \in [Slots -> {NoFile} \cup Files]
<1> DEFINE m == info.New.DumpSize \div s.Size
<1>1. m \in 0 .. CountMod - 1
  <2>1. s.Size \in Nat \ {0} /\ info.New.DumpSize \in 0 .. CountMod - 1
    BY SessionAssumption DEF Infos, Headers
  <2> QED
    BY <2>1, ValuesFit
<1>2. info.New \in Headers /\ info.Old \in Headers /\ info.Results \in Bitmaps
  BY DEF Infos
<1>3. ASSUME NEW f \in Files, files' = [files EXCEPT ![s.Count] = f]
      PROVE  files' \in [Slots -> {NoFile} \cup Files]
  BY <1>3 DEF Typed, FilesType
<1>4. CASE s.CompareTo = 0 /\ files' = Fresh
  BY <1>4, FreshType
<1>5. CASE files' = files
  BY <1>5 DEF Typed, FilesType
<1>6. CASE s.Type = "FORGOT"
  <2>1. [info.New EXCEPT !.ResCount = info.Old.ResCount] \in Headers
    BY <1>2 DEF Headers
  <2> HIDE DEF m
  <2>2. Saved(info.Results, m) \in Bitmaps
    <3>1. info.Results.len \in Nat /\ m \in Nat
      BY <1>1, <1>2 DEF Bitmaps
    <3> QED
      BY <3>1, SavedType
  <2>3. File([info.New EXCEPT !.ResCount = info.Old.ResCount], Saved(info.Results, m)) \in Files
    BY <2>1, <2>2 DEF File, Files
  <2> QED
    BY <1>3, <1>6, <2>3 DEF Finish, TargetOf, m
<1>7. CASE Narrow(info, s, s.Count)
  <2>1. PICK on \in Readings(info.Results, m) : \E found \in SUBSET on : \E keep \in SUBSET found :
          Keeps(info, s, s.Count, found, keep)
    BY <1>7, NarrowKeeps
  <2>2. PICK found \in SUBSET on : \E keep \in SUBSET found : Keeps(info, s, s.Count, found, keep)
    BY <2>1
  <2>8. PICK keep \in SUBSET found : Keeps(info, s, s.Count, found, keep)
    BY <2>2
  <2> HIDE DEF m
  <2>3. Recount(s, found, keep) \in 0 .. CountMod - 1
    <3>1. IsFiniteSet(on) /\ s.Size \in Nat
      <4>1. m \in Nat /\ info.Results \in Bitmaps
        BY <1>1, <1>2
      <4>2. IsFiniteSet(on)
        BY <4>1, ReadingsType
      <4> QED
        BY <4>2, SessionAssumption
    <3>2. IsFiniteSet(found)
      BY <3>1, FS_Subset
    <3> QED
      BY <3>1, <3>2, RecountType
  <2>4. [info.New EXCEPT !.ResCount = Recount(s, found, keep)] \in Headers
    BY <1>2, <2>3 DEF Headers
  <2>5. Saved([info.Results EXCEPT !.bits = keep], m) \in Bitmaps
    <3>1. [info.Results EXCEPT !.bits = keep].len \in Nat /\ m \in Nat
      BY <1>1, <1>2 DEF Bitmaps
    <3> QED
      BY <3>1, SavedType
  <2>6. File([info.New EXCEPT !.ResCount = Recount(s, found, keep)],
             Saved([info.Results EXCEPT !.bits = keep], m)) \in Files
    BY <2>4, <2>5 DEF File, Files
  <2> QED
    BY <1>3, <2>8, <2>6 DEF Keeps, m
<1>8. \/ s.CompareTo = 0 /\ files' = Fresh
      \/ files' = files
      \/ s.Type = "FORGOT" \/ Narrow(info, s, s.Count)
  BY DEF Finish, Searches, TargetOf
<1> QED
  BY <1>4, <1>5, <1>6, <1>7, <1>8

\* Typed holds at first.
LEMMA TypedInit == Init => Typed
<1> SUFFICES ASSUME Init PROVE Typed
  OBVIOUS
<1>1. Placed
  BY PlacedInit
<1>2. FilesType
  BY SessionAssumption DEF Init, FilesType, Dumps
<1>3. InfoType
  BY SessionAssumption DEF Init, InfoType, Infos, Freed, ZeroHeader, NoBits, Headers, Bitmaps
<1>4. TabType
  BY DEF Init, TabType, pending
<1> QED
  BY <1>1, <1>2, <1>3, <1>4 DEF Typed

\* A freed header is well typed.
LEMMA FreedType == Freed \in Infos
BY SessionAssumption DEF Freed, Infos, ZeroHeader, NoBits, Headers, Bitmaps

\* A search that starts.
LEMMA DoSearchTyped ==
  ASSUME Typed, NEW c \in 0 .. n, DoSearch(c)
  PROVE  (FilesType /\ InfoType /\ TabType)'
<1>1. PICK size \in Sizes, area \in Areas, started \in BOOLEAN,
           type \in {"COMPARE", "FORGOT"} \cup (IF c = 0 THEN {"INIT"} ELSE {}) :
        /\ Permitted(NewSearch(type, size, c))
        /\ files' = KeptFiles(type)
        /\ \/ dumps' = [KeptDumps(type) EXCEPT ![NewSearch(type, size, c).Count] =
                                                     IF started THEN area.size ELSE 0]
           \/ ~started /\ dumps' = KeptDumps(type)
        /\ Search' = IF started THEN NewSearch(type, size, c) ELSE Idle
        /\ RamInfo' = IF started
                      THEN LoadedInfo(NewSearch(type, size, c),
                                      NewHeader(NewSearch(type, size, c), area))
                      ELSE Freed
  BY Zenon DEF DoSearch
<1> DEFINE s == NewSearch(type, size, c)
           new == NewHeader(s, area)
<1>2. s \in Searches /\ s.CompareTo = c /\ s.Count \in Slots /\ s.Size = size
  <2>1. s.Size = size
    BY DEF NewSearch
  <2>2. type \in {"INIT", "COMPARE", "FORGOT"} /\ (type = "INIT" => c = 0)
    OBVIOUS
  <2> QED
    BY <1>1, <2>1, <2>2, NewSearchAims DEF Typed
<1>3. RamInfo' \in Infos
  <2>1. new \in Headers
    <3>1. area.size \in 0 .. CountMod - 1 /\ area.low \in Nat /\ size \in Nat
      BY SessionAssumption
    <3> QED
      BY <1>2, <3>1, SessionAssumption DEF Headers, NewHeader, Slots
  <2>2. s.CompareTo # 0 => FileExists(HeaderOf(s)) /\ Readable(BitmapOf(s))
    BY <1>1 DEF Permitted
  <2>3. LoadedInfo(s, new) \in Infos
    BY <2>1, <2>2, LoadedType DEF Typed
  <2> QED
    BY <1>1, <2>3, FreedType
<1> HIDE DEF s
<1>4. FilesType'
  <2>1. files' \in [Slots -> {NoFile} \cup Files]
    BY <1>1 DEF Typed, FilesType, KeptFiles
  <2>2. KeptDumps(type) \in [Slots -> Dumps]
    BY DEF Typed, FilesType, Dumps, KeptDumps
  <2>3. \/ dumps' = [KeptDumps(type) EXCEPT ![s.Count] = IF started THEN area.size ELSE 0]
        \/ dumps' = KeptDumps(type)
    BY <1>1 DEF s
  <2>4. area.size \in Dumps /\ 0 \in Dumps
    BY SessionAssumption DEF Dumps
  <2> QED
    BY <2>1, <2>2, <2>3, <2>4 DEF FilesType
<1>5. TabType'
  BY <1>1, <1>2 DEF DoSearch, s, Typed, TabType, pending
<1> QED
  BY <1>3, <1>4, <1>5 DEF InfoType

\* The end of a search whose dump has arrived.
LEMMA ContinueTyped ==
  ASSUME Typed, Continue
  PROVE  (FilesType /\ InfoType /\ TabType)'
<1> USE DEF Continue
<1>1. InfoType' /\ TabType' /\ dumps' = dumps
  BY FreedType DEF InfoType, TabType, Typed, pending
<1>2. pending /\ Search \in Searches /\ Search.Size \in Sizes /\ RamInfo \in Infos
  BY DEF Typed, Placed, TabType, InfoType
<1>3. files' \in [Slots -> {NoFile} \cup Files]
  <2>1. CASE Search.CompareTo # 0
    <3>1. Search.Count \in Slots
      BY <1>2, <2>1 DEF Typed, Placed, TargetAhead, Slots
    <3> QED
      BY <1>2, <2>1, <3>1, FinishType
  <2>2. CASE Search.CompareTo = 0
    <3> DEFINE s == [Search EXCEPT !.Count = 1]
               info == [RamInfo EXCEPT !.Results = FreshBits]
    <3>1. s \in Searches /\ s.Count \in Slots /\ s.Size \in Sizes
      BY <1>2, SessionAssumption DEF Searches, Slots
    <3>2. info \in Infos
      BY <1>2, FreshType DEF Infos
    <3>3. files' = Fresh \/ Finish(info, s, dumps)
      BY <2>2
    <3> HIDE DEF s, info
    <3> QED
      BY <1>2, <3>1, <3>2, <3>3, FinishType, FreshType
  <2> QED
    BY <2>1, <2>2
<1> QED
  BY <1>1, <1>3 DEF FilesType, Typed

\* A filter that copies the dump of the compared entry.
LEMMA ExFilterTyped ==
  ASSUME Typed, ExFilter
  PROVE  (FilesType /\ InfoType /\ TabType)'
<1>1. ~pending /\ UNCHANGED <<Search, RamInfo, tab, listed>>
  BY DEF ExFilter
<1>2. InfoType' /\ TabType'
  BY <1>1 DEF Typed, InfoType, TabType, pending
<1>3. PICK size \in Sizes, c \in 1 .. n :
        /\ Permitted(NewSearch("COMPARE", size, c))
        /\ Finish(LoadedInfo(NewSearch("COMPARE", size, c),
                             [files[HeaderOf(NewSearch("COMPARE", size, c))].hdr
                              EXCEPT !.dmp = NewSearch("COMPARE", size, c).Count]),
                  NewSearch("COMPARE", size, c), dumps')
        /\ dumps' = [dumps EXCEPT ![NewSearch("COMPARE", size, c).Count] =
                       DumpBytes(files[HeaderOf(NewSearch("COMPARE", size, c))].hdr, dumps)]
  BY Zenon DEF ExFilter
<1> DEFINE s == NewSearch("COMPARE", size, c)
           new == [files[HeaderOf(s)].hdr EXCEPT !.dmp = s.Count]
<1>4. s \in Searches /\ s.CompareTo # 0 /\ s.Count \in Slots /\ s.Size \in Sizes
  <2>1. s.Size = size
    BY DEF NewSearch
  <2> QED
    BY <1>3, <2>1, NewSearchAims DEF Typed, Placed
<1>5. FileExists(HeaderOf(s)) /\ Readable(BitmapOf(s))
  BY <1>3, <1>4 DEF Permitted
<1>6. /\ Finish(LoadedInfo(s, new), s, dumps')
      /\ dumps' = [dumps EXCEPT ![s.Count] = DumpBytes(files[HeaderOf(s)].hdr, dumps)]
  BY <1>3
<1> HIDE DEF s
<1>7. new \in Headers
  <2>1. files[HeaderOf(s)].hdr \in Headers /\ s.Count \in Nat
    BY <1>4, <1>5, FileType DEF Typed, Files, Slots
  <2> QED
    BY <2>1 DEF Headers
<1> HIDE DEF new
<1>8. LoadedInfo(s, new) \in Infos
  BY <1>5, <1>7, LoadedType DEF Typed
<1>9. files' \in [Slots -> {NoFile} \cup Files]
  BY <1>4, <1>6, <1>8, FinishType
<1>10. dumps' \in [Slots -> Dumps]
  <2>1. files[HeaderOf(s)].hdr \in Headers
    BY <1>5, FileType DEF Typed, Files
  <2>2. DumpBytes(files[HeaderOf(s)].hdr, dumps) \in Dumps
    BY <2>1, DumpBytesType DEF Typed
  <2> QED
    BY <1>4, <1>6, <2>2 DEF Typed, FilesType
<1> QED
  BY <1>2, <1>9, <1>10 DEF FilesType

\* A saved search has a header.
LEMMA ArchivedHeader == \A f \in Archive : f.hdr \in Headers
<1> TAKE f \in Archive
<1>1. ArchiveDump \in Nat
  BY SessionAssumption DEF ArchiveDump
<1>2. f.hdr \in [dmp : {ArchiveDump}, SearchSize : Nat, DumpSize : 0 .. CountMod - 1,
                MapMemAddy : Nat, ResCount : 0 .. CountMod - 1]
  BY ArchiveAssumption
<1> QED
  BY <1>1, <1>2 DEF Headers

\* The menu commands.
LEMMA MenuTyped ==
  ASSUME Typed, Undo \/ LoadSearch \/ LoadSearchFails
  PROVE  (FilesType /\ InfoType /\ TabType)'
<1>1. CASE Undo
  <2>1. FilesType'
    BY <1>1 DEF Undo, Typed, FilesType
  <2>2. InfoType'
    <3>1. [RamInfo EXCEPT !.New.dmp = 0] \in Infos
      BY DEF Typed, InfoType, Infos, Headers
    <3>2. RamInfo' \in {Freed, RamInfo, [RamInfo EXCEPT !.New.dmp = 0]}
      BY <1>1 DEF Undo
    <3> QED
      BY <3>1, <3>2, FreedType DEF Typed, InfoType
  <2>3. TabType'
    BY <1>1 DEF Undo, Typed, TabType, pending, Placed, Searches
  <2> QED
    BY <2>1, <2>2, <2>3
<1>2. CASE LoadSearch
  <2>1. InfoType' /\ TabType'
    BY <1>2, FreedType DEF LoadSearch, Typed, InfoType, TabType, pending
  <2>2. PICK f \in Archive, size \in IF pending THEN {Search.Size} ELSE Sizes :
          /\ dumps' = [dumps EXCEPT ![1] = DumpBytes(f.hdr, dumps)]
          /\ files' = [files EXCEPT ![1] = File([f.hdr EXCEPT !.dmp = 1],
                                                Saved(f.map, f.hdr.DumpSize \div size))]
    BY <1>2 DEF LoadSearch
  <2>3. size \in Nat \ {0}
    BY SessionAssumption DEF Typed, TabType
  <2>4. f.hdr \in Headers /\ f.map.len \in Nat /\ f.hdr.DumpSize \in 0 .. CountMod - 1
    BY ArchiveAssumption, SessionAssumption DEF Headers, ArchiveDump
  <2> DEFINE m == f.hdr.DumpSize \div size
  <2>5. m \in Nat
    BY <2>3, <2>4, ValuesFit
  <2> HIDE DEF m
  <2>6. Saved(f.map, m) \in Bitmaps
    BY <2>4, <2>5, SavedType
  <2>7. [f.hdr EXCEPT !.dmp = 1] \in Headers
    BY <2>4 DEF Headers
  <2>8. File([f.hdr EXCEPT !.dmp = 1], Saved(f.map, m)) \in Files
    BY <2>6, <2>7 DEF File, Files
  <2>9. files' \in [Slots -> {NoFile} \cup Files]
    BY <2>2, <2>8 DEF m, Typed, FilesType
  <2>10. dumps' \in [Slots -> Dumps]
    <3>1. DumpBytes(f.hdr, dumps) \in Dumps
      BY <2>4, DumpBytesType DEF Typed
    <3> QED
      BY <2>2, <3>1 DEF Typed, FilesType
  <2> QED
    BY <2>1, <2>9, <2>10 DEF FilesType
<1>3. CASE LoadSearchFails
  <2>1. PICK f \in {Freed} \cup {[RamInfo EXCEPT !.New = a.hdr, !.Results = NoBits] : a \in Archive} :
          RamInfo' = f
    BY <1>3 DEF LoadSearchFails
  <2>2. \A a \in Archive : a.hdr \in Headers
    BY ArchivedHeader
  <2>3. NoBits \in Bitmaps
    BY DEF NoBits, Bitmaps
  <2>4. f \in Infos
    BY <2>2, <2>3, FreedType DEF Typed, InfoType, Infos
  <2> QED
    BY <1>3, <2>1, <2>4 DEF LoadSearchFails, Typed, FilesType, InfoType, TabType, pending
<1> QED
  BY <1>1, <1>2, <1>3

\* A file without the rows gone, with junk more rows counted off.
Shorter(f, gone, junk, hit) ==
  File(AfterDelete(f.hdr, Cardinality(gone) + junk),
       Saved([f.map EXCEPT !.bits = Left(f, gone, hit)], Values(f.hdr)))

\* What Delete writes is a file.
LEMMA ShorterType ==
  ASSUME NEW f \in Files, f.hdr.SearchSize # 0, NEW list \in Tables, NEW gone \in SUBSET list.rows,
         NEW junk \in 0 .. list.junk, NEW hit
  PROVE  Shorter(f, gone, junk, hit) \in Files
<1>1. f.hdr \in Headers /\ f.map \in Bitmaps
  BY DEF Files
<1>2. Values(f.hdr) \in Nat
  BY <1>1, ValuesType
<1>3. Cardinality(gone) \in Nat /\ junk \in Nat
  <2>1. IsFiniteSet(list.rows) /\ list.junk \in Nat
    BY DEF Tables
  <2>2. IsFiniteSet(gone)
    BY <2>1, FS_Subset
  <2> QED
    BY <2>1, <2>2, FS_CardinalityType
<1> DEFINE rows == Cardinality(gone) + junk
<1>4. AfterDelete(f.hdr, rows) \in Headers
  <2>1. \A x \in Int : x % CountMod \in 0 .. CountMod - 1
    BY SessionAssumption
  <2>2. (f.hdr.ResCount - rows) % CountMod \in 0 .. CountMod - 1
    <3>1. rows \in Int /\ f.hdr.ResCount \in Int
      BY <1>1, <1>3 DEF Headers
    <3> HIDE DEF rows
    <3> QED
      BY <2>1, <3>1
  <2> HIDE DEF rows
  <2> QED
    BY <1>1, <2>2 DEF AfterDelete, Headers
<1>5. Saved([f.map EXCEPT !.bits = Left(f, gone, hit)], Values(f.hdr)) \in Bitmaps
  <2>1. [f.map EXCEPT !.bits = Left(f, gone, hit)].len \in Nat
    BY <1>1 DEF Bitmaps
  <2> QED
    BY <1>2, <2>1, SavedType
<1> QED
  BY <1>4, <1>5 DEF Shorter, File, Files

\* The results tab.
LEMMA ResultsTyped ==
  ASSUME Typed, ShowResults \/ ShowSearch \/ Delete
  PROVE  (FilesType /\ InfoType /\ TabType)'
<1>1. UNCHANGED <<dumps, Search, RamInfo>> /\ InfoType'
  BY DEF ShowResults, ShowSearch, Delete, Typed, InfoType
<1>2. \A f \in Files : ListsOrNone(f) \subseteq {NoList} \cup Tables
  BY ListsType DEF ListsOrNone
<1>3. CASE ShowResults
  <2>1. listed' \in {NoList} \cup Tables
    <3>1. CASE Readable(n)
      <4>1. files[n] \in Files
        BY <3>1, FileType DEF Readable, Typed
      <4>2. listed' \in ListsOrNone(files[n])
        BY <1>3, <3>1 DEF ShowResults
      <4> QED
        BY <1>2, <4>1, <4>2
    <3>2. CASE ~Readable(n)
      BY <1>3, <3>2 DEF ShowResults
    <3> QED
      BY <3>1, <3>2
  <2> QED
    BY <1>1, <1>3, <2>1 DEF ShowResults, Typed, FilesType, TabType, pending
<1>4. CASE ShowSearch
  BY <1>1, <1>4 DEF ShowSearch, Typed, FilesType, TabType, pending
<1>5. CASE Delete
  <2>1. listed \in Tables /\ n \in Slots /\ files[n] \in Files /\ files[n].hdr.SearchSize # 0
    BY <1>5, FileType DEF Delete, Readable, Typed, TabType
  <2>2. PICK gone \in SUBSET listed.rows, junk \in 0 .. listed.junk, hit \in SUBSET files[n].map.bits :
          /\ files' = [files EXCEPT ![n] = Shorter(files[n], gone, junk, hit)]
          /\ listed' \in ListsOrNone(Shorter(files[n], gone, junk, hit))
    BY <1>5, Zenon DEF Delete, Shorter
  <2>3. Shorter(files[n], gone, junk, hit) \in Files
    BY <2>1, ShorterType
  <2>4. files' \in [Slots -> {NoFile} \cup Files]
    BY <2>1, <2>2, <2>3 DEF Typed, FilesType
  <2>5. listed' \in {NoList} \cup Tables
    BY <1>2, <2>2, <2>3
  <2> QED
    BY <1>1, <1>5, <2>4, <2>5 DEF Delete, Typed, FilesType, TabType, pending
<1> QED
  BY <1>3, <1>4, <1>5

\* No step breaks the shape.
LEMMA TypedStep == Typed /\ [Next]_vars => Typed'
<1> SUFFICES ASSUME Typed, [Next]_vars PROVE Typed'
  OBVIOUS
<1>1. Placed'
  BY SearchPlaced, OthersPlaced DEF Next, Typed
<1>2. CASE \E c \in 0 .. n : DoSearch(c)
  BY <1>1, <1>2, DoSearchTyped DEF Typed
<1>3. CASE Continue
  BY <1>1, <1>3, ContinueTyped DEF Typed
<1>4. CASE ExFilter
  BY <1>1, <1>4, ExFilterTyped DEF Typed
<1>5. CASE Undo \/ LoadSearch \/ LoadSearchFails
  BY <1>1, <1>5, MenuTyped DEF Typed
<1>6. CASE ShowResults \/ ShowSearch \/ Delete
  BY <1>1, <1>6, ResultsTyped DEF Typed
<1>7. CASE DumpFailed
  BY <1>1, <1>7, FreedType DEF DumpFailed, Typed, FilesType, InfoType, TabType, pending
<1>8. CASE UNCHANGED vars
  BY <1>1, <1>8 DEF vars, Typed, FilesType, InfoType, TabType, pending
<1> QED
  BY <1>2, <1>3, <1>4, <1>5, <1>6, <1>7, <1>8 DEF Next

\* The types of SearchSession hold in every history (TypeOK): a search on its way
\* never aims past the last entry, and every bitmap ends where its file says.
THEOREM TypeCorrect == Spec => []TypeOK
<1>1. Typed /\ [Next]_vars => Typed'
  BY TypedStep
<1>2. Typed => TypeOK
  <2> SUFFICES ASSUME Typed PROVE TypeOK
    OBVIOUS
  <2>1. ASSUME NEW k \in Slots, files[k] # NoFile
        PROVE  /\ files[k].map.bits \subseteq 0 .. files[k].map.len - 1
               /\ files[k].hdr.ResCount \in 0 .. CountMod - 1
    <3>1. files[k].map \in Bitmaps /\ files[k].hdr \in Headers
      BY <2>1 DEF Typed, FilesType, Files
    <3> QED
      BY <3>1 DEF Bitmaps, Headers
  <2>2. pending /\ Search.CompareTo # 0 => Search.Count <= MaxSearches
    BY DEF Typed, Placed, TargetAhead
  <2> QED
    BY <2>1, <2>2 DEF TypeOK, Typed, Placed, FilesType, TabType, Dumps
<1> QED
  BY TypedInit, <1>1, <1>2, PTL DEF Spec

-----------------------------------------------------------------------------
(* Results shrink along the history.                                       *)

\* What a waiting search has loaded is the bitmap of the newest entry, and it is
\* going to write the one after it: what Undo and Load Search tear.
Loaded ==
  ~torn /\ pending /\ Search.CompareTo # 0 =>
    Search.Count = n + 1 /\ FileExists(n) /\ RamInfo.Results = files[n].map

\* The inductive form of HistoryShrinks.
Shrinking == Typed /\ HistoryShrinks /\ Loaded

\* Saving m bits of a buffer adds none.
LEMMA SavedShrinks ==
  ASSUME NEW map, NEW m
  PROVE  Saved(map, m).bits \subseteq map.bits
BY DEF Saved

\* What a search keeps and saves was set before: what it read past the end of a
\* short bitmap is not written back.
LEMMA NarrowShrinks ==
  ASSUME NEW map \in Bitmaps, NEW m \in Nat, NEW on \in Readings(map, m), NEW keep \in SUBSET on
  PROVE  Saved([map EXCEPT !.bits = keep], m).bits \subseteq map.bits
<1>1. PICK junk \in SUBSET (map.len .. m - 1) : on = (map.bits \cap 0 .. m - 1) \cup junk
  BY DEF Readings
<1> DEFINE known == IF map.len < m THEN map.len ELSE m
<1>2. Saved([map EXCEPT !.bits = keep], m).bits = keep \cap 0 .. known - 1
  BY DEF Saved, Bitmaps
<1>3. map.len \in Nat
  BY DEF Bitmaps
<1>4. junk \cap 0 .. known - 1 = {}
  BY <1>1, <1>3
<1> HIDE DEF known
<1> QED
  BY <1>1, <1>2, <1>4

\* A search that continues the history adds no result.
LEMMA FinishShrinks ==
  ASSUME Shrinking, NEW info \in Infos, NEW s \in Searches, s.CompareTo # 0, s.Size \in Sizes,
         s.Count = n + 1, s.Count \in Slots, FileExists(n), info.Results = files[n].map,
         NEW ds, Finish(info, s, ds)
  PROVE  HistoryShrinks'
<1> SUFFICES ASSUME ~torn' PROVE HistoryShrinks'
  BY DEF HistoryShrinks
<1>1. ~torn /\ (s.Type = "COMPARE" => CanCompare(info, s, ds) \/ ~FileExists(s.Count))
  BY DEF Finish, Leftover, TargetOf
<1>2. /\ n' = n + 1
      /\ files' = [k \in Slots |-> files'[k]]
      /\ \A k \in Slots : k # s.Count => files'[k] = files[k]
  BY FinishWrites DEF Shrinking, Typed
<1> DEFINE m == info.New.DumpSize \div s.Size
<1>3. m \in Nat
  <2>1. s.Size \in Nat \ {0} /\ info.New.DumpSize \in 0 .. CountMod - 1
    BY SessionAssumption DEF Infos, Headers
  <2> QED
    BY <2>1, ValuesFit
<1>4. FileExists(s.Count)' => files'[s.Count].map.bits \subseteq files[n].map.bits
  <2> HIDE DEF m
  <2>1. ASSUME NEW hdr, NEW map, files' = [files EXCEPT ![s.Count] = File(hdr, map)],
               map.bits \subseteq info.Results.bits
        PROVE  files'[s.Count].map.bits \subseteq files[n].map.bits
    BY <2>1 DEF File, Shrinking, Typed, FilesType
  <2>2. CASE s.Type = "FORGOT"
    <3>1. files' = [files EXCEPT ![s.Count] =
                      File([info.New EXCEPT !.ResCount = info.Old.ResCount],
                           Saved(info.Results, m))]
      BY <2>2 DEF Finish, TargetOf, m
    <3> QED
      BY <2>1, <3>1, SavedShrinks
  <2>3. CASE Narrow(info, s, s.Count)
    <3>1. PICK on \in Readings(info.Results, m) : \E found \in SUBSET on : \E keep \in SUBSET found :
            Keeps(info, s, s.Count, found, keep)
      BY <2>3, NarrowKeeps DEF m
    <3>2. PICK found \in SUBSET on : \E keep \in SUBSET found : Keeps(info, s, s.Count, found, keep)
      BY <3>1
    <3>4. PICK keep \in SUBSET found : Keeps(info, s, s.Count, found, keep)
      BY <3>2
    <3>3. Saved([info.Results EXCEPT !.bits = keep], m).bits \subseteq info.Results.bits
      BY <1>3, NarrowShrinks DEF Infos
    <3> QED
      BY <2>1, <3>3, <3>4 DEF Keeps, m
  <2>4. CASE files' = files /\ s.Type = "COMPARE" /\ ~CanCompare(info, s, ds)
    BY <1>1, <2>4 DEF FileExists
  <2>5. \/ s.Type = "FORGOT" \/ Narrow(info, s, s.Count)
        \/ files' = files /\ s.Type = "COMPARE" /\ ~CanCompare(info, s, ds)
    BY DEF Finish, Searches, TargetOf
  <2> QED
    BY <2>2, <2>3, <2>4, <2>5
<1>5. SUFFICES ASSUME NEW j \in 1 .. n + 1, NEW k \in 1 .. n + 1, j < k,
                      FileExists(j)', FileExists(k)'
               PROVE  files'[k].map.bits \subseteq files'[j].map.bits
  BY <1>2 DEF HistoryShrinks
<1>6. n \in Nat /\ n >= 1 /\ n \in Slots
  BY DEF FileExists, Slots
<1>7. j \in 1 .. n /\ files'[j] = files[j] /\ FileExists(j)
  BY <1>2, <1>5, <1>6 DEF FileExists, Slots
<1>8. CASE k # n + 1
  <2>1. k \in 1 .. n /\ files'[k] = files[k] /\ FileExists(k)
    BY <1>2, <1>5, <1>6, <1>8 DEF FileExists, Slots
  <2> QED
    BY <1>1, <1>5, <1>7, <2>1 DEF Shrinking, HistoryShrinks
<1>9. CASE k = n + 1
  <2>1. files'[k].map.bits \subseteq files[n].map.bits
    BY <1>4, <1>5, <1>9
  <2>2. files[n].map.bits \subseteq files[j].map.bits
    <3>1. CASE j = n
      BY <3>1
    <3>2. CASE j # n
      BY <1>1, <1>6, <1>7, <3>2 DEF Shrinking, HistoryShrinks
    <3> QED
      BY <3>1, <3>2
  <2> QED
    BY <1>7, <2>1, <2>2
<1> QED
  BY <1>8, <1>9

\* Steps that start or end a search.
LEMMA SearchShrinking ==
  ASSUME Shrinking, (\E c \in 0 .. n : DoSearch(c)) \/ DumpFailed \/ Continue \/ ExFilter
  PROVE  HistoryShrinks' /\ Loaded'
<1> USE DEF Shrinking
<1>1. ASSUME NEW c \in 0 .. n, DoSearch(c) PROVE HistoryShrinks' /\ Loaded'
  <2>1. PICK size \in Sizes, area \in Areas, started \in BOOLEAN,
             type \in {"COMPARE", "FORGOT"} \cup (IF c = 0 THEN {"INIT"} ELSE {}) :
          /\ Permitted(NewSearch(type, size, c))
          /\ files' = KeptFiles(type)
          /\ Search' = IF started THEN NewSearch(type, size, c) ELSE Idle
          /\ RamInfo' = IF started
                        THEN LoadedInfo(NewSearch(type, size, c),
                                        NewHeader(NewSearch(type, size, c), area))
                        ELSE Freed
    BY <1>1, ZenonT(120) DEF DoSearch
  <2>2. UNCHANGED <<n, torn>>
    BY <1>1 DEF DoSearch
  <2>3. HistoryShrinks'
    <3>1. \A k \in 1 .. n : FileExists(k)' => FileExists(k) /\ files'[k] = files[k]
      BY <2>1 DEF KeptFiles, FileExists
    <3> QED
      BY <2>2, <3>1 DEF HistoryShrinks
  <2>4. Loaded'
    <3> DEFINE s == NewSearch(type, size, c)
    <3> SUFFICES ASSUME pending', Search'.CompareTo # 0
                 PROVE  /\ Search'.Count = n' + 1 /\ FileExists(n)'
                        /\ RamInfo'.Results = files'[n'].map
      BY DEF Loaded
    <3>1. started /\ Search' = s
      BY <2>1 DEF pending, Idle
    <3>2. s.CompareTo = c /\ c # 0 /\ s.Count = n + 1
      <4>1. s.CompareTo = c /\ s.Count = IF c = 0 THEN 1 ELSE n + 1
        BY DEF NewSearch
      <4> QED
        BY <3>1, <4>1
    <3>3. FileExists(n) /\ BitmapOf(s) = n
      <4>1. BitmapOf(s) = n
        BY <3>2 DEF BitmapOf, Typed, Placed
      <4> QED
        BY <2>1, <3>2, <4>1 DEF Permitted, Readable
    <3>4. files' = files
      BY <2>1, <3>2 DEF KeptFiles, Typed, Placed
    <3>5. RamInfo'.Results = files[n].map
      BY <2>1, <3>1, <3>2, <3>3 DEF LoadedInfo
    <3> QED
      BY <2>2, <3>1, <3>2, <3>3, <3>4, <3>5 DEF FileExists
  <2> QED
    BY <2>3, <2>4
<1>2. CASE DumpFailed
  BY <1>2 DEF DumpFailed, HistoryShrinks, Loaded, pending, FileExists
<1>3. CASE Continue
  <2>1. ~pending' /\ pending
    BY <1>3 DEF Continue, pending
  <2>2. Search \in Searches /\ Search.Size \in Sizes /\ RamInfo \in Infos
    BY <2>1 DEF Typed, Placed, TabType, InfoType
  <2>3. CASE Search.CompareTo # 0
    <3>1. Finish(RamInfo, Search, dumps) /\ (torn => torn')
      BY <1>3, <2>3 DEF Continue, Finish
    <3>2. CASE torn
      BY <2>1, <3>1, <3>2 DEF HistoryShrinks, Loaded
    <3>3. CASE ~torn
      <4>1. Search.Count = n + 1 /\ FileExists(n) /\ RamInfo.Results = files[n].map
        BY <2>1, <2>3, <3>3 DEF Loaded
      <4>2. Search.Count \in Slots
        BY <2>1, <2>3 DEF Typed, Placed, TargetAhead, Slots
      <4>3. HistoryShrinks'
        BY <2>2, <2>3, <3>1, <4>1, <4>2, FinishShrinks
      <4> QED
        BY <2>1, <4>3 DEF Loaded
    <3> QED
      BY <3>2, <3>3
  <2>4. CASE Search.CompareTo = 0
    <3>1. n' \in {0, 1}
      <4> DEFINE s == [Search EXCEPT !.Count = 1]
                 info == [RamInfo EXCEPT !.Results = FreshBits]
      <4>1. n' = 0 \/ Finish(info, s, dumps)
        BY <1>3, <2>4 DEF Continue
      <4>2. s.CompareTo = 0
        BY <2>2, <2>4 DEF Searches
      <4> HIDE DEF s, info
      <4> QED
        BY <4>1, <4>2 DEF Finish
    <3> QED
      BY <2>1, <3>1 DEF HistoryShrinks, Loaded
  <2> QED
    BY <2>3, <2>4
<1>4. CASE ExFilter
  <2>1. ~pending'
    BY <1>4 DEF ExFilter, pending
  <2>2. PICK size \in Sizes, c \in 1 .. n :
          /\ Permitted(NewSearch("COMPARE", size, c))
          /\ Finish(LoadedInfo(NewSearch("COMPARE", size, c),
                               [files[HeaderOf(NewSearch("COMPARE", size, c))].hdr
                                EXCEPT !.dmp = NewSearch("COMPARE", size, c).Count]),
                    NewSearch("COMPARE", size, c), dumps')
    BY <1>4, Zenon DEF ExFilter
  <2> DEFINE s == NewSearch("COMPARE", size, c)
             new == [files[HeaderOf(s)].hdr EXCEPT !.dmp = s.Count]
  <2>3. s \in Searches /\ s.CompareTo # 0 /\ s.Count \in Slots /\ s.Count = n + 1
    BY <2>2, NewSearchAims DEF Typed, Placed
  <2>4. s.Size \in Sizes
    BY DEF NewSearch
  <2>5. FileExists(HeaderOf(s)) /\ Readable(BitmapOf(s)) /\ Finish(LoadedInfo(s, new), s, dumps')
    BY <2>2, <2>3 DEF Permitted
  <2> HIDE DEF s
  <2>6. BitmapOf(s) = n /\ FileExists(n)
    BY <2>3, <2>5 DEF BitmapOf, Readable, Typed, Placed
  <2>7. new \in Headers
    <3>1. files[HeaderOf(s)].hdr \in Headers /\ s.Count \in Nat
      BY <2>3, <2>5, FileType DEF Typed, Files, Slots
    <3> QED
      BY <3>1 DEF Headers
  <2> HIDE DEF new
  <2>8. LoadedInfo(s, new) \in Infos
    BY <2>5, <2>7, LoadedType DEF Typed
  <2>9. LoadedInfo(s, new).Results = files[n].map
    BY <2>3, <2>6 DEF LoadedInfo
  <2>10. HistoryShrinks'
    BY <2>3, <2>4, <2>5, <2>6, <2>8, <2>9, FinishShrinks
  <2> QED
    BY <2>1, <2>10 DEF Loaded
<1> QED
  BY <1>1, <1>2, <1>3, <1>4

\* The menu commands, which tear what waits, and the results tab, which takes
\* results from the newest entry.
LEMMA OthersShrinking ==
  ASSUME Shrinking, \/ Undo \/ LoadSearch \/ LoadSearchFails
                    \/ ShowResults \/ ShowSearch \/ Delete \/ UNCHANGED vars
  PROVE  HistoryShrinks' /\ Loaded'
<1> USE DEF Shrinking
<1>1. CASE Undo
  <2>1. files' = files /\ n' \in {n, n - 1} /\ (torn => torn')
    BY <1>1 DEF Undo
  <2>2. HistoryShrinks'
    BY <2>1 DEF HistoryShrinks, FileExists, Typed, Placed
  <2>3. Loaded'
    <3>1. CASE pending /\ ~torn'
      <4>1. /\ n' = n /\ ~torn
            /\ Search' = [Search EXCEPT !.Count = n + 1] /\ RamInfo' = RamInfo
        BY <1>1, <3>1 DEF Undo
      <4> QED
        BY <2>1, <3>1, <4>1 DEF Loaded, FileExists, Typed, Placed, Searches
    <3>2. CASE ~pending
      BY <1>1, <3>2 DEF Undo, Loaded, pending
    <3> QED
      BY <3>1, <3>2 DEF Loaded
  <2> QED
    BY <2>2, <2>3
<1>2. CASE LoadSearch
  <2>1. n' = 1 /\ Search' = Search /\ (pending => torn')
    BY <1>2 DEF LoadSearch
  <2>2. HistoryShrinks'
    <3>1. \A j, k \in 1 .. 1 : ~(j < k)
      OBVIOUS
    <3> QED
      BY <2>1, <3>1 DEF HistoryShrinks
  <2>3. Loaded'
    BY <2>1 DEF Loaded, pending
  <2> QED
    BY <2>2, <2>3
<1>3. CASE ShowResults \/ ShowSearch \/ UNCHANGED vars
  BY <1>3 DEF ShowResults, ShowSearch, vars, HistoryShrinks, Loaded, pending, FileExists
<1>4. CASE Delete
  <2>1. UNCHANGED <<n, torn, Search>> /\ tab = "results" /\ FileExists(n)
    BY <1>4 DEF Delete, Readable
  <2>2. ~pending'
    BY <2>1 DEF Typed, TabType, pending
  <2>3. PICK hdr, map, m : /\ files' = [files EXCEPT ![n] = File(hdr, Saved(map, m))]
                           /\ map.bits \subseteq files[n].map.bits
    <3>1. PICK gone \in SUBSET listed.rows, junk \in 0 .. listed.junk, hit \in SUBSET files[n].map.bits :
            files' = [files EXCEPT ![n] = Shorter(files[n], gone, junk, hit)]
      BY <1>4, Zenon DEF Delete, Shorter
    <3> DEFINE left == Left(files[n], gone, hit)
    <3>2. files[n].map \in Bitmaps
      BY <2>1, FileType DEF Typed, Files
    <3>3. left \subseteq files[n].map.bits
      BY DEF Left
    <3> HIDE DEF left
    <3>4. [files[n].map EXCEPT !.bits = left].bits \subseteq files[n].map.bits
      BY <3>2, <3>3 DEF Bitmaps
    <3> QED
      BY <3>1, <3>4 DEF left, Shorter
  <2>4. /\ files'[n].map.bits \subseteq files[n].map.bits
        /\ \A k \in Slots : k # n => files'[k] = files[k]
    <3>1. Saved(map, m).bits \subseteq files[n].map.bits
      BY <2>3, SavedShrinks
    <3> QED
      BY <2>1, <2>3, <3>1 DEF File, FileExists, Typed, FilesType
  <2>5. \A k \in 1 .. n : FileExists(k)' => FileExists(k)
    BY <2>1, <2>4 DEF FileExists
  <2>6. HistoryShrinks'
    <3> SUFFICES ASSUME ~torn, NEW j \in 1 .. n, NEW k \in 1 .. n, j < k,
                        FileExists(j)', FileExists(k)'
                 PROVE  files'[k].map.bits \subseteq files'[j].map.bits
      BY <2>1 DEF HistoryShrinks
    <3>1. files[k].map.bits \subseteq files[j].map.bits
      BY <2>5 DEF HistoryShrinks
    <3>2. files'[j] = files[j]
      BY <2>4 DEF FileExists, Typed, Placed
    <3>3. files'[k].map.bits \subseteq files[k].map.bits
      BY <2>4 DEF FileExists
    <3> QED
      BY <3>1, <3>2, <3>3
  <2> QED
    BY <2>2, <2>6 DEF Loaded
<1>5. CASE LoadSearchFails
  BY <1>5 DEF LoadSearchFails, HistoryShrinks, Loaded
<1> QED
  BY <1>1, <1>2, <1>3, <1>4, <1>5

\* Until a menu command or a failed comparison tears the history, no entry has a
\* result that an earlier one has not, whichever entries the searches compared with
\* (SearchSession's HistoryShrinks).
THEOREM HistoryShrinksCorrect == Spec => []HistoryShrinks
<1>1. Init => HistoryShrinks /\ Loaded
  BY DEF Init, HistoryShrinks, Loaded, pending, Idle
<1>2. Shrinking /\ [Next]_vars => HistoryShrinks' /\ Loaded'
  BY SearchShrinking, OthersShrinking DEF Next
<1>3. Typed /\ [Next]_vars => Typed'
  BY TypedStep
<1>4. Shrinking /\ [Next]_vars => Shrinking'
  BY <1>2, <1>3 DEF Shrinking
<1> QED
  BY TypedInit, <1>1, <1>4, PTL DEF Spec, Shrinking

-----------------------------------------------------------------------------
(* The counts of results.                                                  *)

\* A file counts at least the results it has.
Enough(f) == f.hdr.ResCount >= Cardinality(f.map.bits)

\* The addresses of results of a file, and the results that its header has room for.
At(f, on) == {i * f.hdr.SearchSize + f.hdr.MapMemAddy : i \in on}
Known(f) == f.map.bits \cap 0 .. Values(f.hdr) - 1

\* With a whole bitmap, a list shows only results.
Shows(f, list) == Whole(f) => list.rows \subseteq At(f, f.map.bits)

\* However short the bitmap, a list has never so many rows of other memory that taking
\* them away could bring the count below the results.
Covers(f, list) ==
  list.junk + Cardinality(list.rows \ At(f, Known(f))) + Cardinality(Known(f)) <= f.hdr.ResCount

\* The list on the screen is one of the newest entry.
Listing ==
  ~torn /\ tab = "results" /\ listed # NoList =>
    FileExists(n) /\ Shows(files[n], listed) /\ (n \notin miscounted => Covers(files[n], listed))

\* A waiting search has the header of the entry it compares with; I Forgot has one.
OldLoaded ==
  /\ ~torn /\ pending /\ Search.CompareTo # 0 =>
       /\ Search.CompareTo \in 1 .. n /\ FileExists(Search.CompareTo)
       /\ RamInfo.Old = files[Search.CompareTo].hdr
  /\ pending /\ Search.Type = "FORGOT" => Search.CompareTo # 0

\* The inductive form of CountNeverLow.
Counted == Shrinking /\ CountNeverLow /\ Listing /\ OldLoaded

\* The searches saved elsewhere count their results, as those of a history do.
HonestArchive == \A f \in Archive : Enough(f)

\* A bitmap is finite.
LEMMA BitsFinite ==
  ASSUME NEW map \in Bitmaps
  PROVE  IsFiniteSet(map.bits) /\ Cardinality(map.bits) \in Nat
<1>1. map.len \in Nat /\ map.bits \subseteq 0 .. map.len - 1
  BY DEF Bitmaps
<1>2. IsFiniteSet(0 .. map.len - 1)
  BY <1>1, FS_Interval
<1> QED
  BY <1>1, <1>2, FS_Subset, FS_CardinalityType

\* The results that a header has room for are finitely many, and no more than all.
LEMMA KnownFinite ==
  ASSUME NEW f \in Files
  PROVE  /\ Known(f) \subseteq Nat /\ Known(f) \subseteq f.map.bits
         /\ IsFiniteSet(Known(f)) /\ Cardinality(Known(f)) \in Nat
         /\ Cardinality(Known(f)) <= Cardinality(f.map.bits)
<1>1. IsFiniteSet(f.map.bits) /\ f.map.bits \subseteq Nat
  BY BitsFinite DEF Files, Bitmaps
<1>2. Known(f) \in SUBSET f.map.bits
  BY DEF Known
<1> QED
  BY <1>1, <1>2, FS_Subset, FS_CardinalityType

\* The numbers times a size keep their order, and the size divides them again.
LEMMA TimesSize ==
  ASSUME NEW size \in Nat \ {0}, NEW i \in Nat, NEW j \in Nat
  PROVE  /\ i < j => i * size < j * size
         /\ i * size = j * size => i = j
         /\ (i * size) \div size = i
         /\ i * size \in Nat
<1>1. i * size \in Nat /\ j * size \in Nat
  OBVIOUS
<1>2. ASSUME NEW a \in Nat, NEW b \in Nat, a < b PROVE a * size < b * size
  BY <1>2, SMTT(30)
<1>3. (i * size) \div size = i
  BY <1>1, SMTT(30)
<1> QED
  BY <1>1, <1>2, <1>3

\* Fewer than count numbers of a set are below one of its multiples of size, when the
\* numbers below it in the bitmap are among known.
LEMMA FewBelow ==
  ASSUME NEW size \in Nat \ {0}, NEW on, on \subseteq Nat, NEW known, IsFiniteSet(known),
         known \subseteq Nat, NEW i \in known, \A j \in on : j < i => j \in known
  PROVE  Cardinality({b \in {j * size : j \in on} : b < i * size}) < Cardinality(known)
<1> DEFINE below == {b \in {j * size : j \in on} : b < i * size}
           rest == known \ {i}
           g == [j \in rest |-> j * size]
           image == {j * size : j \in rest}
<1>1. IsFiniteSet(rest) /\ Cardinality(rest) = Cardinality(known) - 1
  BY FS_RemoveElement
<1>2. below \in SUBSET image
  <2> SUFFICES ASSUME NEW j \in on, j * size < i * size PROVE j \in rest
    OBVIOUS
  <2>1. j \in Nat /\ i \in Nat
    OBVIOUS
  <2>2. j < i \/ j = i \/ i < j
    BY <2>1
  <2>3. j < i
    BY <2>1, <2>2, TimesSize
  <2> QED
    BY <2>1, <2>3
<1>3. g \in Surjection(rest, image)
  BY DEF Surjection
<1> HIDE DEF g, rest, image, below
<1>4. IsFiniteSet(image) /\ Cardinality(image) <= Cardinality(rest)
  BY <1>1, <1>3, FS_Surjection
<1>5. IsFiniteSet(below) /\ Cardinality(below) <= Cardinality(image)
  BY <1>2, <1>4, FS_Subset
<1>6. /\ Cardinality(below) \in Nat /\ Cardinality(image) \in Nat
      /\ Cardinality(rest) \in Nat /\ Cardinality(known) \in Nat
  BY <1>1, <1>4, <1>5, FS_CardinalityType
<1>7. Cardinality(below) < Cardinality(known)
  BY <1>1, <1>4, <1>5, <1>6
<1> QED
  BY <1>7 DEF below

\* A list shows a file's results, and one that counts enough is listed with all its
\* results: what a short bitmap reads as past its end comes after them.
LEMMA ListsShow ==
  ASSUME NEW f \in Files, NEW list \in Lists(f)
  PROVE  Shows(f, list) /\ (Enough(f) => Covers(f, list))
<1> DEFINE size == f.hdr.SearchSize
           low == f.hdr.MapMemAddy
           r == f.hdr.ResCount
           m == Values(f.hdr)
           len == f.map.len
           bits == f.map.bits
<1>1. /\ size \in Nat /\ low \in Nat /\ r \in Nat /\ len \in Nat /\ bits \subseteq 0 .. len - 1
      /\ f.hdr \in Headers /\ f.map \in Bitmaps
  BY SessionAssumption DEF Files, Headers, Bitmaps
<1>2. m \in Nat /\ (size = 0 => m = 0)
  BY <1>1, ValuesType DEF Values
<1>3. PICK on \in Readings(f.map, m) :
        LET first == FirstOf({i * size : i \in on}, r)
        IN  list = IF AllOpen THEN [rows |-> {a + low : a \in first}, junk |-> r - Cardinality(first)]
                   ELSE [rows |-> {}, junk |-> 0]
  BY DEF Lists
<1>4. PICK junk \in SUBSET (len .. m - 1) : on = (bits \cap 0 .. m - 1) \cup junk
  BY <1>3 DEF Readings
<1>5. Whole(f) => len >= m
  BY DEF Whole, Values
<1>6. Known(f) = bits \cap 0 .. m - 1
  BY DEF Known
<1>7. \A on_ : At(f, on_) = {i * size + low : i \in on_}
  BY DEF At
<1>8. on \subseteq Nat /\ IsFiniteSet(on)
  <2>1. on \subseteq 0 .. m - 1 /\ IsFiniteSet(on)
    BY <1>1, <1>2, ReadingsType
  <2> QED
    BY <2>1, <1>2
<1> DEFINE all == {i * size : i \in on}
           first == FirstOf(all, r)
           rows == {a + low : a \in first}
<1>9. \/ AllOpen /\ list = [rows |-> rows, junk |-> r - Cardinality(first)]
      \/ list = [rows |-> {}, junk |-> 0]
  BY <1>3
<1> HIDE DEF m, size, r, low, len, bits
<1>10. all \subseteq Nat /\ IsFiniteSet(all)
  BY <1>1, <1>8, AddressesFinite
<1>11. first \subseteq all /\ IsFiniteSet(first) /\ Cardinality(first) \in 0 .. r
  <2> HIDE DEF all
  <2>1. all \subseteq Int
    BY <1>10
  <2> QED
    BY <1>1, <1>10, <2>1, FirstOnes DEF FirstOf
<1>12. IsFiniteSet(rows) /\ Cardinality(rows) <= Cardinality(first) /\ Cardinality(rows) \in Nat
  <2> HIDE DEF first
  <2> DEFINE g == [a \in first |-> a + low]
  <2>1. g \in Surjection(first, rows)
    BY DEF Surjection
  <2> HIDE DEF rows, g
  <2> QED
    BY <2>1, <1>11, FS_Surjection, FS_CardinalityType
<1>13. Shows(f, list)
  <2> SUFFICES ASSUME Whole(f), NEW a \in list.rows PROVE a \in At(f, bits)
    BY DEF Shows, bits
  <2>1. junk = {}
    BY <1>1, <1>2, <1>4, <1>5
  <2>2. a \in rows
    BY <1>9
  <2>3. PICK i \in on : a = i * size + low
    BY <2>2, <1>11
  <2> QED
    BY <1>4, <1>7, <2>1, <2>3
<1>14. ASSUME Enough(f) PROVE Covers(f, list)
  <2>1. /\ IsFiniteSet(Known(f)) /\ Cardinality(Known(f)) \in Nat /\ Known(f) \subseteq Nat
        /\ Cardinality(Known(f)) <= r
    BY <1>1, <1>14, KnownFinite, BitsFinite DEF Enough, r, bits, Files
  <2>2. CASE list = [rows |-> {}, junk |-> 0]
    <3>1. list.junk = 0 /\ list.rows \ At(f, Known(f)) = {}
      BY <2>2
    <3>2. Cardinality(list.rows \ At(f, Known(f))) = 0
      BY <3>1, FS_EmptySet
    <3> QED
      BY <2>1, <3>1, <3>2 DEF Covers, r
  <2>3. CASE list = [rows |-> rows, junk |-> r - Cardinality(first)]
    <3>1. \A i \in Known(f) : i * size + low \in rows
      <4> SUFFICES ASSUME NEW i \in Known(f) PROVE i * size \in first
        OBVIOUS
      <4>1. i \in Nat /\ i \in on /\ i < len /\ m # 0 /\ size \in Nat \ {0}
        BY <1>1, <1>2, <1>4, <1>6
      <4>2. \A j \in on : j < i => j \in Known(f)
        BY <1>1, <1>2, <1>4, <1>6, <4>1
      <4>3. Cardinality({b \in all : b < i * size}) < Cardinality(Known(f))
        BY <1>8, <2>1, <4>1, <4>2, FewBelow
      <4>4. Cardinality({b \in all : b < i * size}) \in Nat
        <5> HIDE DEF all
        <5>1. {b \in all : b < i * size} \in SUBSET all
          OBVIOUS
        <5> QED
          BY <1>10, <5>1, FS_Subset, FS_CardinalityType
      <4>5. i * size \in all
        BY <4>1
      <4> HIDE DEF all
      <4>6. Cardinality({b \in all : b < i * size}) < r
        BY <1>1, <2>1, <4>3, <4>4
      <4> QED
        BY <4>5, <4>6 DEF FirstOf
    <3> DEFINE shown == rows \cap At(f, Known(f))
    <3> HIDE DEF rows
    <3>2. IsFiniteSet(shown) /\ Cardinality(shown) \in Nat
      BY <1>12, FS_Intersection, FS_CardinalityType
    <3>3. Cardinality(Known(f)) <= Cardinality(shown)
      <4> DEFINE h == [i \in Known(f) |-> i * size + low]
      <4>1. \A i \in Known(f) : h[i] \in shown
        BY <1>7, <3>1
      <4>2. ASSUME NEW i \in Known(f), NEW j \in Known(f), h[i] = h[j] PROVE i = j
        <5>1. i \in Nat /\ j \in Nat /\ size \in Nat \ {0}
          BY <1>1, <1>2, <1>6, <2>1
        <5>2. i * size \in Nat /\ j * size \in Nat
          BY <5>1, TimesSize
        <5>3. i * size + low = j * size + low
          BY <4>2
        <5>4. i * size = j * size
          BY <1>1, <5>2, <5>3
        <5> QED
          BY <5>1, <5>4, TimesSize
      <4>3. h = [i \in Known(f) |-> h[i]]
        OBVIOUS
      <4> HIDE DEF h, shown
      <4>4. h \in Injection(Known(f), shown)
        BY <4>1, <4>2, <4>3 DEF Injection, IsInjective
      <4> QED
        BY <3>2, <4>4, FS_Injection
    <3>4. Cardinality(rows \ At(f, Known(f))) = Cardinality(rows) - Cardinality(shown)
      BY <1>12, FS_Difference
    <3> HIDE DEF shown, first
    <3>5. list.junk = r - Cardinality(first) /\ list.rows = rows
      BY <2>3
    <3>6. r - Cardinality(first) + Cardinality(rows \ At(f, Known(f))) + Cardinality(Known(f)) <= r
      BY <1>1, <1>11, <1>12, <2>1, <3>2, <3>3, <3>4
    <3> QED
      BY <3>5, <3>6 DEF Covers, r
  <2> QED
    BY <1>9, <2>2, <2>3
<1> QED
  BY <1>13, <1>14

\* Nothing is lost from the count when the rows gone and junk more are deleted: they
\* take away as many results as they have addresses of results.
LEMMA DeletedRows ==
  ASSUME NEW f \in Files, f.hdr.SearchSize # 0, NEW list \in Tables, Covers(f, list),
         NEW gone \in SUBSET list.rows, NEW junk \in 0 .. list.junk, NEW hit
  PROVE  LET left == Left(f, gone, hit) \cap 0 .. Values(f.hdr) - 1
         IN  /\ IsFiniteSet(left) /\ Cardinality(left) \in Nat
             /\ Cardinality(gone) + junk \in Nat
             /\ Cardinality(left) + (Cardinality(gone) + junk) <= f.hdr.ResCount
<1> DEFINE size == f.hdr.SearchSize
           low == f.hdr.MapMemAddy
           known == Known(f)
           taken == {i \in known : i * size + low \in gone}
           named == gone \cap At(f, known)
           rest == list.rows \ At(f, known)
           left == Left(f, gone, hit) \cap 0 .. Values(f.hdr) - 1
<1>1. size \in Nat \ {0} /\ low \in Nat /\ f.hdr.ResCount \in Nat
  BY SessionAssumption DEF Files, Headers
<1>2. known \subseteq Nat /\ IsFiniteSet(known) /\ Cardinality(known) \in Nat
  BY KnownFinite
<1>3. /\ IsFiniteSet(list.rows) /\ list.junk \in Nat /\ junk \in Nat /\ junk <= list.junk
      /\ IsFiniteSet(gone) /\ Cardinality(gone) \in Nat
  <2>1. IsFiniteSet(list.rows) /\ list.junk \in Nat
    BY DEF Tables
  <2> QED
    BY <2>1, FS_Subset, FS_CardinalityType
<1>4. taken \in SUBSET known /\ IsFiniteSet(taken) /\ Cardinality(taken) \in Nat
  <2>1. taken \in SUBSET known
    OBVIOUS
  <2> HIDE DEF taken, known
  <2> QED
    BY <1>2, <2>1, FS_Subset, FS_CardinalityType
<1>5. IsFiniteSet(named) /\ Cardinality(named) \in Nat /\ Cardinality(named) <= Cardinality(taken)
  <2> DEFINE g == [i \in taken |-> i * size + low]
  <2>1. named = {i * size + low : i \in taken}
    BY DEF At
  <2>2. g \in Surjection(taken, named)
    BY <2>1 DEF Surjection
  <2> HIDE DEF g, taken, named
  <2> QED
    BY <1>4, <2>2, FS_Surjection, FS_CardinalityType
<1>6. left \in SUBSET (known \ taken)
  <2>1. left \subseteq known
    BY DEF Left, Known
  <2>2. ASSUME NEW i \in known, i * size + low \in gone PROVE i \notin left
    <3>1. i \in Nat /\ i * size \in Nat /\ (i * size) \div size = i
      BY <1>1, <1>2, TimesSize
    <3>2. (i * size + low) - low = i * size
      BY <1>1, <3>1
    <3>3. ((i * size + low) - low) \div size = i
      BY <3>1, <3>2
    <3> QED
      BY <2>2, <3>3 DEF Left
  <2> QED
    BY <2>1, <2>2
<1> HIDE DEF size, low, known, taken, left
<1>7. /\ IsFiniteSet(known \ taken)
      /\ Cardinality(known \ taken) = Cardinality(known) - Cardinality(taken)
  <2>1. known \cap taken = taken
    BY <1>4
  <2> QED
    BY <1>2, <2>1, FS_Difference
<1>8. IsFiniteSet(left) /\ Cardinality(left) \in Nat /\ Cardinality(left) <= Cardinality(known \ taken)
  BY <1>6, <1>7, FS_Subset, FS_CardinalityType
<1>9. /\ IsFiniteSet(gone \ At(f, known)) /\ Cardinality(gone \ At(f, known)) \in Nat
      /\ Cardinality(gone \ At(f, known)) = Cardinality(gone) - Cardinality(named)
  BY <1>3, FS_Difference, FS_CardinalityType
<1>10. /\ Cardinality(gone \ At(f, known)) <= Cardinality(rest)
       /\ Cardinality(rest) \in Nat
  <2>1. gone \ At(f, known) \in SUBSET rest
    OBVIOUS
  <2>2. IsFiniteSet(rest)
    BY <1>3, FS_Difference
  <2> QED
    BY <2>1, <2>2, FS_Subset, FS_CardinalityType
<1>11. list.junk + Cardinality(rest) + Cardinality(known) <= f.hdr.ResCount
  BY DEF Covers, known
<1> HIDE DEF named, rest
<1>12. Cardinality(left) + (Cardinality(gone) + junk) <= f.hdr.ResCount
  BY <1>1, <1>2, <1>3, <1>4, <1>5, <1>7, <1>8, <1>9, <1>10, <1>11
<1> QED
  BY <1>3, <1>8, <1>12 DEF left

\* The parts of a file.
LEMMA FileParts ==
  ASSUME NEW hdr, NEW map
  PROVE  File(hdr, map).hdr = hdr /\ File(hdr, map).map = map
BY DEF File

\* The first entry of a new history counts all its values.
LEMMA FreshCounts ==
  ASSUME Typed, pending
  PROVE  Enough(Fresh[1])
<1>1. Search.Size \in Nat \ {0} /\ RamInfo.New \in Headers /\ RamInfo.New.DumpSize \in 0 .. CountMod - 1
  BY SessionAssumption DEF Typed, TabType, InfoType, Infos, Headers
<1> DEFINE m == RamInfo.New.DumpSize \div Search.Size
<1>2. m \in Nat
  BY <1>1, ValuesFit
<1> HIDE DEF m
<1>3. FreshBits = [len |-> m, bits |-> 0 .. m - 1]
  BY DEF FreshBits, m
<1>4. Cardinality(0 .. m - 1) = m
  <2>1. 0 \in Int /\ m - 1 \in Int
    BY <1>2
  <2>2. Cardinality(0 .. m - 1) = IF 0 > m - 1 THEN 0 ELSE (m - 1) - 0 + 1
    BY <2>1, FS_Interval
  <2> QED
    BY <1>2, <2>2
<1>5. Fresh[1] = File([RamInfo.New EXCEPT !.ResCount = FreshBits.len], FreshBits)
  BY SessionAssumption DEF Fresh, Typed, FilesType, Slots
<1>6. [RamInfo.New EXCEPT !.ResCount = FreshBits.len].ResCount = m
  BY <1>1, <1>3 DEF Headers
<1>7. Fresh[1].hdr.ResCount = m /\ Fresh[1].map.bits = 0 .. m - 1
  <2> DEFINE h == [RamInfo.New EXCEPT !.ResCount = FreshBits.len]
  <2>1. h.ResCount = m /\ Fresh[1] = File(h, FreshBits)
    BY <1>5, <1>6
  <2> HIDE DEF h
  <2>2. Fresh[1].hdr = h /\ Fresh[1].map = FreshBits
    BY <2>1, FileParts
  <2>3. FreshBits.bits = 0 .. m - 1
    BY <1>3
  <2> QED
    BY <2>1, <2>2, <2>3
<1> QED
  BY <1>2, <1>4, <1>7 DEF Enough

\* When the runs that FilterResultsEx clears are of single bytes, or there are none,
\* the count is that of the results that are kept.
LEMMA RecountExact ==
  ASSUME NEW s, s.Size \in Nat \ {0}, NEW m \in 0 .. CountMod - 1, NEW found \in SUBSET (0 .. m - 1),
         NEW keep \in SUBSET found, ~(s.Size > 1 /\ keep # found)
  PROVE  IsFiniteSet(keep) /\ Recount(s, found, keep) = Cardinality(keep)
<1>1. IsFiniteSet(0 .. m - 1) /\ Cardinality(0 .. m - 1) = m
  <2>1. 0 \in Int /\ m - 1 \in Int
    OBVIOUS
  <2>2. /\ IsFiniteSet(0 .. m - 1)
        /\ Cardinality(0 .. m - 1) = IF 0 > m - 1 THEN 0 ELSE (m - 1) - 0 + 1
    BY <2>1, FS_Interval
  <2> QED
    BY <2>2
<1>2. IsFiniteSet(found) /\ Cardinality(found) \in Nat /\ Cardinality(found) <= m
  BY <1>1, FS_Subset, FS_CardinalityType
<1>3. IsFiniteSet(keep) /\ Cardinality(keep) \in Nat /\ Cardinality(keep) <= Cardinality(found)
  BY <1>2, FS_Subset, FS_CardinalityType
<1>4. Cardinality(found \ keep) = Cardinality(found) - Cardinality(keep)
  <2>1. found \cap keep = keep
    OBVIOUS
  <2> QED
    BY <1>2, <2>1, FS_Difference
<1>5. s.Size = 1 \/ Cardinality(found \ keep) = 0
  <2>1. CASE keep = found
    <3>1. found \ keep = {}
      BY <2>1
    <3> QED
      BY <3>1, FS_EmptySet
  <2> QED
    BY <2>1
<1>6. Cardinality(found) - s.Size * Cardinality(found \ keep) = Cardinality(keep)
  <2>1. CASE s.Size = 1
    BY <1>2, <1>3, <1>4, <2>1
  <2>2. CASE Cardinality(found \ keep) = 0
    BY <1>2, <1>3, <1>4, <2>2
  <2> QED
    BY <1>5, <2>1, <2>2
<1>7. Cardinality(keep) \in 0 .. CountMod - 1
  BY <1>2, <1>3, SessionAssumption
<1>8. \A x \in 0 .. CountMod - 1 : x % CountMod = x
  BY SessionAssumption
<1> QED
  BY <1>3, <1>6, <1>7, <1>8 DEF Recount

\* What a search that ends writes counts enough, unless FilterResultsEx has counted it
\* by bytes, it writes nothing or, with I Forgot, its header counts less than the
\* results it has loaded.
LEMMA FinishCounts ==
  ASSUME Typed, NEW info \in Infos, NEW s \in Searches, s.Size \in Sizes, s.Count \in Slots,
         s.CompareTo # 0 \/ (pending /\ s.Count = 1),
         s.Type = "FORGOT" /\ HeaderOf(s) \notin miscounted
           => info.Old.ResCount >= Cardinality(info.Results.bits),
         NEW ds, Finish(info, s, ds)
  PROVE  /\ \/ s.Count \in miscounted' \/ Enough(files'[s.Count])
            \/ s.CompareTo # 0 /\ s.Type = "COMPARE" /\ ~CanCompare(info, s, ds) /\ files' = files
         /\ s.CompareTo # 0 => \A k \in Slots : k # s.Count => (k \in miscounted <=> k \in miscounted')
<1> DEFINE m == info.New.DumpSize \div s.Size
           unwritten == /\ s.CompareTo # 0 /\ s.Type = "COMPARE" /\ ~CanCompare(info, s, ds)
                        /\ files' = files /\ miscounted' = miscounted
<1>1. m \in 0 .. CountMod - 1 /\ m \in Nat /\ s.Size \in Nat \ {0}
  <2>1. s.Size \in Nat \ {0} /\ info.New.DumpSize \in 0 .. CountMod - 1
    BY SessionAssumption DEF Infos, Headers
  <2>2. m \in 0 .. CountMod - 1
    BY <2>1, ValuesFit
  <2> QED
    BY <2>1, <2>2
<1>2. info.New \in Headers /\ info.Old \in Headers /\ info.Results \in Bitmaps
  BY DEF Infos
<1> HIDE DEF m
<1>3. ASSUME NEW count, NEW map, count >= Cardinality(map.bits),
             files' = [files EXCEPT ![s.Count] = File([info.New EXCEPT !.ResCount = count], map)]
      PROVE  Enough(files'[s.Count])
  <2>1. files'[s.Count] = File([info.New EXCEPT !.ResCount = count], map)
    BY <1>3 DEF Typed, FilesType
  <2>2. [info.New EXCEPT !.ResCount = count].ResCount = count
    BY <1>2 DEF Headers
  <2> DEFINE h == [info.New EXCEPT !.ResCount = count]
  <2>3. h.ResCount = count /\ files'[s.Count] = File(h, map)
    BY <2>1, <2>2
  <2> HIDE DEF h
  <2>4. files'[s.Count].hdr = h /\ files'[s.Count].map = map
    BY <2>3, FileParts
  <2> QED
    BY <1>3, <2>3, <2>4 DEF Enough
<1>4. ASSUME NEW byBytes, miscounted' = Recounted(s.Count, byBytes)
      PROVE  /\ byBytes => s.Count \in miscounted'
             /\ \A k \in Slots : k # s.Count => (k \in miscounted <=> k \in miscounted')
  BY <1>4 DEF Recounted
<1>5. CASE s.Type = "FORGOT"
  <2>1. /\ files' = [files EXCEPT ![s.Count] =
                       File([info.New EXCEPT !.ResCount = info.Old.ResCount], Saved(info.Results, m))]
        /\ miscounted' = Recounted(s.Count, HeaderOf(s) \in miscounted)
    BY <1>5 DEF Finish, TargetOf, m
  <2>2. CASE HeaderOf(s) \in miscounted
    BY <1>4, <2>1, <2>2
  <2>3. CASE HeaderOf(s) \notin miscounted
    <3>1. Saved(info.Results, m).bits \in SUBSET info.Results.bits
      BY SavedShrinks
    <3>2. IsFiniteSet(info.Results.bits) /\ Cardinality(info.Results.bits) \in Nat
      BY <1>2, BitsFinite
    <3>3. /\ Cardinality(Saved(info.Results, m).bits) <= Cardinality(info.Results.bits)
          /\ Cardinality(Saved(info.Results, m).bits) \in Nat
      BY <3>1, <3>2, FS_Subset, FS_CardinalityType
    <3>4. info.Old.ResCount \in Nat
      BY <1>2, SessionAssumption DEF Headers
    <3>5. info.Old.ResCount >= Cardinality(Saved(info.Results, m).bits)
      BY <1>5, <2>3, <3>2, <3>3, <3>4
    <3> QED
      BY <1>3, <1>4, <2>1, <3>5
  <2> QED
    BY <2>2, <2>3
<1>6. CASE Narrow(info, s, s.Count)
  <2>1. PICK on \in Readings(info.Results, m) : \E found \in SUBSET on : \E keep \in SUBSET found :
          Keeps(info, s, s.Count, found, keep)
    BY <1>6, NarrowKeeps DEF m
  <2>2. PICK found \in SUBSET on : \E keep \in SUBSET found : Keeps(info, s, s.Count, found, keep)
    BY <2>1
  <2>3. PICK keep \in SUBSET found : Keeps(info, s, s.Count, found, keep)
    BY <2>2
  <2>4. /\ files' = [files EXCEPT ![s.Count] =
                       File([info.New EXCEPT !.ResCount = Recount(s, found, keep)],
                            Saved([info.Results EXCEPT !.bits = keep], m))]
        /\ miscounted' = Recounted(s.Count, s.Size > 1 /\ keep # found)
    BY <2>3 DEF Keeps, m
  <2>5. CASE s.Size > 1 /\ keep # found
    BY <1>4, <2>4, <2>5
  <2>6. CASE ~(s.Size > 1 /\ keep # found)
    <3>1. found \in SUBSET (0 .. m - 1)
      BY <1>1, <1>2, ReadingsType
    <3>2. IsFiniteSet(keep) /\ Recount(s, found, keep) = Cardinality(keep)
      BY <1>1, <2>6, <3>1, RecountExact
    <3>3. Saved([info.Results EXCEPT !.bits = keep], m).bits \in SUBSET keep
      <4>1. [info.Results EXCEPT !.bits = keep].bits = keep
        BY <1>2 DEF Bitmaps
      <4> QED
        BY <4>1, SavedShrinks
    <3>4. Recount(s, found, keep) >= Cardinality(Saved([info.Results EXCEPT !.bits = keep], m).bits)
      <4>1. /\ Cardinality(Saved([info.Results EXCEPT !.bits = keep], m).bits) <= Cardinality(keep)
            /\ Cardinality(Saved([info.Results EXCEPT !.bits = keep], m).bits) \in Nat
            /\ Cardinality(keep) \in Nat
        BY <3>2, <3>3, FS_Subset, FS_CardinalityType
      <4> QED
        BY <3>2, <4>1
    <3> QED
      BY <1>3, <1>4, <2>4, <3>4
  <2> QED
    BY <2>5, <2>6
<1>7. CASE s.CompareTo = 0 /\ files' = Fresh
  <2>1. pending /\ s.Count = 1
    BY <1>7
  <2>2. Enough(Fresh[1])
    BY <2>1, FreshCounts
  <2> QED
    BY <1>7, <2>1, <2>2
<1>8. \/ s.CompareTo = 0 /\ files' = Fresh
      \/ s.Type = "FORGOT" \/ Narrow(info, s, s.Count) \/ unwritten
  BY DEF Finish, Searches, TargetOf
<1> QED
  BY <1>5, <1>6, <1>7, <1>8

\* A search that continues the history leaves no entry with a count too low.
LEMMA ContinueCounts ==
  ASSUME Counted, NEW info \in Infos, NEW s \in Searches, s.CompareTo \in 1 .. n, s.Size \in Sizes,
         s.Count = n + 1, s.Count \in Slots, FileExists(n), info.Results = files[n].map,
         FileExists(s.CompareTo), info.Old = files[s.CompareTo].hdr,
         NEW ds, Finish(info, s, ds)
  PROVE  CountNeverLow'
<1> USE DEF Counted
<1> SUFFICES ASSUME ~torn', NEW k \in (1 .. n') \ miscounted', FileExists(k)'
             PROVE  Enough(files'[k])
  BY DEF CountNeverLow, Enough
<1>1. ~torn /\ (s.Type = "COMPARE" => CanCompare(info, s, ds) \/ ~FileExists(s.Count))
  BY DEF Finish, Leftover, TargetOf
<1>2. /\ n' = n + 1 /\ s.CompareTo # 0
      /\ files' = [j \in Slots |-> files'[j]]
      /\ \A j \in Slots : j # s.Count => files'[j] = files[j]
  BY FinishWrites DEF Shrinking, Typed
<1>3. n \in Nat /\ n \in Slots /\ k \in Slots /\ s.CompareTo \in Slots
  BY DEF FileExists, Slots
<1>4. s.Type = "FORGOT" /\ HeaderOf(s) \notin miscounted
        => info.Old.ResCount >= Cardinality(info.Results.bits)
  <2> SUFFICES ASSUME s.CompareTo \notin miscounted
               PROVE  info.Old.ResCount >= Cardinality(info.Results.bits)
    BY DEF HeaderOf
  <2>1. files[s.CompareTo] \in Files /\ files[n] \in Files
    BY FileType DEF Shrinking, Typed
  <2>2. files[n].map.bits \in SUBSET files[s.CompareTo].map.bits
    <3>1. CASE s.CompareTo = n
      BY <3>1
    <3>2. CASE s.CompareTo # n
      <4>1. s.CompareTo < n /\ n \in 1 .. n
        BY <1>3, <3>2 DEF Slots
      <4> QED
        BY <1>1, <4>1 DEF Shrinking, HistoryShrinks
    <3> QED
      BY <3>1, <3>2
  <2>3. files[s.CompareTo].map \in Bitmaps /\ files[s.CompareTo].hdr.ResCount \in Nat
    BY <2>1, SessionAssumption DEF Files, Headers
  <2>4. /\ Cardinality(files[n].map.bits) <= Cardinality(files[s.CompareTo].map.bits)
        /\ Cardinality(files[s.CompareTo].map.bits) \in Nat
        /\ Cardinality(files[n].map.bits) \in Nat
    BY <2>2, <2>3, BitsFinite, FS_Subset, FS_CardinalityType
  <2>5. files[s.CompareTo].hdr.ResCount >= Cardinality(files[s.CompareTo].map.bits)
    BY <1>1 DEF CountNeverLow
  <2>6. files[s.CompareTo].hdr.ResCount >= Cardinality(files[n].map.bits)
    BY <2>3, <2>4, <2>5
  <2> QED
    BY <2>6
<1>5. \/ s.Count \in miscounted' \/ Enough(files'[s.Count])
      \/ s.Type = "COMPARE" /\ ~CanCompare(info, s, ds) /\ files' = files
  BY <1>2, <1>4, FinishCounts DEF Shrinking
<1>6. CASE k = s.Count
  <2>1. FileExists(k)' => files'[k] # NoFile
    BY DEF FileExists
  <2> QED
    BY <1>1, <1>3, <1>5, <1>6, <2>1 DEF FileExists
<1>7. CASE k # s.Count
  <2>1. k \in 1 .. n /\ files'[k] = files[k]
    BY <1>2, <1>3, <1>7
  <2>2. FileExists(k)
    BY <1>3, <2>1 DEF FileExists
  <2>3. k \notin miscounted
    BY <1>2, <1>3, <1>4, <1>7, FinishCounts DEF Shrinking
  <2> QED
    BY <1>1, <2>1, <2>2, <2>3 DEF CountNeverLow, Enough
<1> QED
  BY <1>6, <1>7

\* Steps that start or end a search: the results tab is not on the screen.
LEMMA SearchCounted ==
  ASSUME Counted, (\E c \in 0 .. n : DoSearch(c)) \/ DumpFailed \/ Continue \/ ExFilter
  PROVE  CountNeverLow' /\ Listing' /\ OldLoaded'
<1> USE DEF Counted
<1>0. Listing'
  <2>1. tab' = tab /\ tab = "search"
    BY DEF DoSearch, DumpFailed, Continue, ExFilter, Shrinking, Typed, TabType
  <2> QED
    BY <2>1 DEF Listing
<1>9. ~pending' => OldLoaded'
  BY Zenon DEF OldLoaded
<1>1. ASSUME NEW c \in 0 .. n, DoSearch(c) PROVE CountNeverLow' /\ OldLoaded'
  <2>1. PICK size \in Sizes, area \in Areas, started \in BOOLEAN,
             type \in {"COMPARE", "FORGOT"} \cup (IF c = 0 THEN {"INIT"} ELSE {}) :
          /\ Permitted(NewSearch(type, size, c))
          /\ files' = KeptFiles(type)
          /\ Search' = IF started THEN NewSearch(type, size, c) ELSE Idle
          /\ RamInfo' = IF started
                        THEN LoadedInfo(NewSearch(type, size, c),
                                        NewHeader(NewSearch(type, size, c), area))
                        ELSE Freed
    BY <1>1, ZenonT(120) DEF DoSearch
  <2>2. UNCHANGED <<n, torn, miscounted>>
    BY <1>1 DEF DoSearch
  <2>3. CountNeverLow'
    <3>1. \A k \in 1 .. n : FileExists(k)' => FileExists(k) /\ files'[k] = files[k]
      BY <2>1 DEF KeptFiles, FileExists
    <3> QED
      BY <2>2, <3>1 DEF CountNeverLow
  <2>4. OldLoaded'
    <3> DEFINE s == NewSearch(type, size, c)
    <3>1. s.CompareTo = c /\ s.Type = type
      BY DEF NewSearch
    <3>2. pending' => started /\ Search' = s
      BY <2>1 DEF pending, Idle
    <3>3. type = "FORGOT" => c # 0
      BY <2>1, <3>1 DEF Permitted
    <3>4. c # 0 => files' = files
      BY <2>1 DEF KeptFiles, Shrinking, Typed, Placed
    <3>5. c # 0 => FileExists(c) /\ HeaderOf(s) = c
      BY <2>1, <3>1 DEF Permitted, HeaderOf
    <3>6. pending' /\ c # 0 => RamInfo'.Old = files[c].hdr
      BY <2>1, <3>1, <3>2, <3>5 DEF LoadedInfo
    <3> HIDE DEF s
    <3> QED
      BY <2>2, <3>1, <3>2, <3>3, <3>4, <3>5, <3>6 DEF OldLoaded, FileExists
  <2> QED
    BY <2>3, <2>4
<1>2. CASE DumpFailed
  BY <1>0, <1>2, <1>9 DEF DumpFailed, CountNeverLow, pending, FileExists
<1>3. CASE Continue
  <2>1. ~pending' /\ pending
    BY <1>3 DEF Continue, pending
  <2>2. Search \in Searches /\ Search.Size \in Sizes /\ RamInfo \in Infos
    BY <2>1 DEF Shrinking, Typed, Placed, TabType, InfoType
  <2>3. CASE Search.CompareTo # 0
    <3>1. Finish(RamInfo, Search, dumps) /\ (torn => torn')
      BY <1>3, <2>3 DEF Continue, Finish
    <3>2. CASE torn
      BY <1>0, <1>9, <2>1, <3>1, <3>2 DEF CountNeverLow
    <3>3. CASE ~torn
      <4>1. Search.Count = n + 1 /\ FileExists(n) /\ RamInfo.Results = files[n].map
        BY <2>1, <2>3, <3>3 DEF Shrinking, Loaded
      <4>2. /\ Search.CompareTo \in 1 .. n /\ FileExists(Search.CompareTo)
            /\ RamInfo.Old = files[Search.CompareTo].hdr
        BY <2>1, <2>3, <3>3 DEF OldLoaded
      <4>3. Search.Count \in Slots
        BY <2>1, <2>3 DEF Shrinking, Typed, Placed, TargetAhead, Slots
      <4>4. CountNeverLow'
        BY <2>2, <3>1, <4>1, <4>2, <4>3, ContinueCounts
      <4> QED
        BY <1>0, <1>9, <2>1, <4>4
    <3> QED
      BY <3>2, <3>3
  <2>4. CASE Search.CompareTo = 0
    <3> DEFINE s == [Search EXCEPT !.Count = 1]
               info == [RamInfo EXCEPT !.Results = FreshBits]
    <3>1. s \in Searches /\ s.Count = 1 /\ s.Count \in Slots /\ s.Size \in Sizes /\ s.CompareTo = 0
          /\ s.Type = Search.Type
      BY <2>2, <2>4, SessionAssumption DEF Searches, Slots
    <3>2. info \in Infos
      BY <2>1, <2>2, FreshType DEF Infos, Shrinking
    <3>3. s.Type # "FORGOT"
      BY <2>1, <2>4, <3>1 DEF OldLoaded
    <3>4. n' = 0 \/ Finish(info, s, dumps)
      BY <1>3, <2>4 DEF Continue
    <3> HIDE DEF s, info
    <3>5. n' \in {0, 1} /\ (n' = 1 => 1 \in miscounted' \/ Enough(files'[1]))
      <4>1. CASE n' = 0
        BY <4>1
      <4>2. CASE Finish(info, s, dumps)
        <5>1. n' = 1
          BY <3>1, <4>2 DEF Finish
        <5>2. s.Count \in miscounted' \/ Enough(files'[s.Count])
          BY <2>1, <3>1, <3>2, <3>3, <4>2, FinishCounts DEF Shrinking
        <5> QED
          BY <3>1, <5>1, <5>2
      <4> QED
        BY <3>4, <4>1, <4>2
    <3>6. \A k \in 1 .. n' : k = 1 /\ n' = 1
      BY <3>5
    <3> QED
      BY <1>0, <1>9, <2>1, <3>5, <3>6 DEF CountNeverLow, Enough
  <2> QED
    BY <2>3, <2>4
<1>4. CASE ExFilter
  <2>1. ~pending'
    BY <1>4 DEF ExFilter, pending
  <2>2. PICK size \in Sizes, c \in 1 .. n :
          /\ Permitted(NewSearch("COMPARE", size, c))
          /\ Finish(LoadedInfo(NewSearch("COMPARE", size, c),
                               [files[HeaderOf(NewSearch("COMPARE", size, c))].hdr
                                EXCEPT !.dmp = NewSearch("COMPARE", size, c).Count]),
                    NewSearch("COMPARE", size, c), dumps')
    BY <1>4, Zenon DEF ExFilter
  <2> DEFINE s == NewSearch("COMPARE", size, c)
             new == [files[HeaderOf(s)].hdr EXCEPT !.dmp = s.Count]
  <2>3. s \in Searches /\ s.CompareTo \in 1 .. n /\ s.Count \in Slots /\ s.Count = n + 1
    <3>1. c \in 0 .. n /\ c # 0
      BY DEF Shrinking, Typed, Placed
    <3> QED
      BY <2>2, <3>1, NewSearchAims DEF Shrinking, Typed
  <2>4. s.Size \in Sizes
    BY DEF NewSearch
  <2>5. FileExists(HeaderOf(s)) /\ Readable(BitmapOf(s)) /\ Finish(LoadedInfo(s, new), s, dumps')
    BY <2>2, <2>3 DEF Permitted
  <2> HIDE DEF s
  <2>6. BitmapOf(s) = n /\ FileExists(n) /\ HeaderOf(s) = s.CompareTo
    BY <2>3, <2>5 DEF BitmapOf, HeaderOf, Readable, Shrinking, Typed, Placed
  <2>7. new \in Headers
    <3>1. files[HeaderOf(s)].hdr \in Headers /\ s.Count \in Nat
      BY <2>3, <2>5, FileType DEF Shrinking, Typed, Files, Slots
    <3> QED
      BY <3>1 DEF Headers
  <2> HIDE DEF new
  <2>8. LoadedInfo(s, new) \in Infos
    BY <2>5, <2>7, LoadedType DEF Shrinking, Typed
  <2>9. LoadedInfo(s, new).Results = files[n].map /\ LoadedInfo(s, new).Old = files[s.CompareTo].hdr
    BY <2>3, <2>6 DEF LoadedInfo
  <2>10. CountNeverLow'
    BY <2>3, <2>4, <2>5, <2>6, <2>8, <2>9, ContinueCounts
  <2> QED
    BY <1>0, <1>9, <2>1, <2>10
<1> QED
  BY <1>0, <1>1, <1>2, <1>3, <1>4

\* A list of nothing but results takes no more from the count than there are.
LEMMA OnlyResults ==
  ASSUME NEW f \in Files, Enough(f), NEW list \in Tables, list.junk = 0,
         list.rows \subseteq At(f, f.map.bits)
  PROVE  Covers(f, list)
<1> DEFINE bits == f.map.bits
           known == Known(f)
           past == bits \ known
           g == [i \in past |-> i * f.hdr.SearchSize + f.hdr.MapMemAddy]
<1>1. /\ IsFiniteSet(bits) /\ Cardinality(bits) \in Nat /\ f.hdr.ResCount \in Nat
      /\ f.hdr.ResCount >= Cardinality(bits)
  BY SessionAssumption, BitsFinite DEF Files, Headers, Enough
<1>2. known \subseteq bits /\ IsFiniteSet(known) /\ Cardinality(known) \in Nat
  BY KnownFinite
<1>3. /\ IsFiniteSet(past) /\ Cardinality(past) \in Nat
      /\ Cardinality(past) = Cardinality(bits) - Cardinality(known)
  <2>1. bits \cap known = known
    BY <1>2
  <2> HIDE DEF bits, known
  <2> QED
    BY <1>1, <2>1, FS_Difference, FS_CardinalityType
<1>4. g \in Surjection(past, At(f, past))
  BY DEF Surjection, At
<1>5. list.rows \ At(f, known) \in SUBSET At(f, past)
  BY DEF At
<1> HIDE DEF bits, known, past, g
<1>6. IsFiniteSet(At(f, past)) /\ Cardinality(At(f, past)) <= Cardinality(past)
  BY <1>3, <1>4, FS_Surjection
<1>7. /\ Cardinality(list.rows \ At(f, known)) <= Cardinality(At(f, past))
      /\ Cardinality(list.rows \ At(f, known)) \in Nat /\ Cardinality(At(f, past)) \in Nat
  BY <1>5, <1>6, FS_Subset, FS_CardinalityType
<1>8. list.junk + Cardinality(list.rows \ At(f, known)) + Cardinality(known) <= f.hdr.ResCount
  BY <1>1, <1>2, <1>3, <1>6, <1>7
<1> QED
  BY <1>8 DEF Covers, known

\* What Delete writes counts enough, if its list does not go beyond the count.
LEMMA DeletedCounts ==
  ASSUME NEW f \in Files, f.hdr.SearchSize # 0, NEW list \in Tables, Covers(f, list),
         NEW gone \in SUBSET list.rows, NEW junk \in 0 .. list.junk, NEW hit
  PROVE  Enough(Shorter(f, gone, junk, hit))
<1> DEFINE left == Left(f, gone, hit) \cap 0 .. Values(f.hdr) - 1
           rows == Cardinality(gone) + junk
           map == [f.map EXCEPT !.bits = Left(f, gone, hit)]
           hdr == AfterDelete(f.hdr, rows)
           new == Shorter(f, gone, junk, hit)
<1>1. f.hdr \in Headers /\ f.map \in Bitmaps /\ f.hdr.ResCount \in 0 .. CountMod - 1
  BY DEF Files, Headers
<1>2. /\ IsFiniteSet(left) /\ Cardinality(left) \in Nat /\ rows \in Nat
      /\ Cardinality(left) + rows <= f.hdr.ResCount
  BY DeletedRows
<1>3. new.hdr = hdr /\ new.map = Saved(map, Values(f.hdr))
  BY FileParts DEF Shorter
<1>4. map.bits = Left(f, gone, hit) /\ map.len \in Nat /\ Values(f.hdr) \in Nat
  BY <1>1, ValuesType DEF Bitmaps
<1>5. new.map.bits \in SUBSET left
  <2> HIDE DEF map
  <2> QED
    BY <1>3, <1>4 DEF Saved
<1>6. hdr.ResCount = f.hdr.ResCount - rows
  <2> HIDE DEF rows, left
  <2>1. f.hdr.ResCount - rows \in 0 .. CountMod - 1
    BY <1>1, <1>2, SessionAssumption
  <2>2. \A x \in 0 .. CountMod - 1 : x % CountMod = x
    BY SessionAssumption
  <2>3. hdr.ResCount = (f.hdr.ResCount - rows) % CountMod
    BY <1>1 DEF AfterDelete, Headers
  <2> QED
    BY <2>1, <2>2, <2>3
<1> HIDE DEF left, rows, map, hdr, new
<1>7. Cardinality(new.map.bits) \in Nat /\ Cardinality(new.map.bits) <= Cardinality(left)
  BY <1>2, <1>5, FS_Subset, FS_CardinalityType
<1>8. new.hdr.ResCount >= Cardinality(new.map.bits)
  BY <1>1, <1>2, <1>3, <1>6, <1>7, SessionAssumption
<1> QED
  BY <1>8 DEF Enough, new

\* The menu commands, which tear what waits, and the results tab, which takes rows
\* of its list from the count of the newest entry.
LEMMA OthersCounted ==
  ASSUME Counted, HonestArchive,
         \/ Undo \/ LoadSearch \/ LoadSearchFails
         \/ ShowResults \/ ShowSearch \/ Delete \/ UNCHANGED vars
  PROVE  CountNeverLow' /\ Listing' /\ OldLoaded'
<1> USE DEF Counted
<1>1. CASE Undo
  <2>1. files' = files /\ n' \in {n, n - 1} /\ UNCHANGED <<tab, listed, miscounted>> /\ (torn => torn')
    BY <1>1 DEF Undo
  <2>2. CountNeverLow'
    BY <2>1 DEF CountNeverLow, FileExists, Shrinking, Typed, Placed
  <2>3. OldLoaded'
    <3>1. CASE ~pending
      <4>1. ~pending'
        BY <1>1, <3>1 DEF Undo, pending
      <4> QED
        BY <4>1, Zenon DEF OldLoaded
    <3>2. CASE pending
      <4>1. Search' = [Search EXCEPT !.Count = n + 1]
        BY <1>1, <3>2 DEF Undo
      <4>2. Search'.Type = Search.Type /\ Search'.CompareTo = Search.CompareTo
        BY <4>1 DEF Shrinking, Typed, Placed, Searches
      <4>3. ~torn' => ~torn /\ n' = n /\ RamInfo' = RamInfo
        BY <1>1, <3>2 DEF Undo
      <4> QED
        BY <2>1, <3>2, <4>2, <4>3 DEF OldLoaded, FileExists
    <3> QED
      BY <3>1, <3>2
  <2>4. Listing'
    <3> SUFFICES ASSUME ~torn', tab = "results", listed # NoList
                 PROVE  /\ FileExists(n)' /\ Shows(files'[n'], listed)
                        /\ n' \notin miscounted => Covers(files'[n'], listed)
      BY <2>1 DEF Listing
    <3>1. /\ ~torn /\ FileExists(n) /\ Shows(files[n], listed) /\ listed \in Tables
          /\ n \notin miscounted => Covers(files[n], listed)
      BY <2>1 DEF Listing, Shrinking, Typed, TabType
    <3>2. CASE n' = n
      BY <2>1, <3>1, <3>2 DEF FileExists
    <3>3. CASE n' = n - 1 /\ n' # n
      <4>1. n \in Nat /\ n >= 2 /\ FileExists(n - 1) /\ Sound /\ listed.junk = 0
        <5>1. n >= 2 /\ FileExists(n - 1) /\ (torn' <=> torn \/ pending \/ ~Lasting)
          BY <1>1, <3>3 DEF Undo
        <5>2. n \in Nat
          BY DEF Shrinking, Typed, Placed
        <5> QED
          BY <5>1, <5>2, Zenon DEF Lasting
      <4> DEFINE new == files[n]
                 old == files[n - 1]
      <4>2. new \in Files /\ old \in Files
        BY <3>1, <4>1, FileType DEF Shrinking, Typed
      <4>3. /\ Whole(new) /\ old.hdr.SearchSize = new.hdr.SearchSize
            /\ old.hdr.MapMemAddy = new.hdr.MapMemAddy
        BY <3>1, <4>1 DEF Sound
      <4>4. new.map.bits \subseteq old.map.bits
        BY <3>1, <4>1 DEF Shrinking, HistoryShrinks
      <4>5. n - 1 \notin miscounted => Enough(old)
        BY <3>1, <4>1 DEF CountNeverLow, Enough
      <4>6. listed.rows \subseteq At(old, old.map.bits)
        BY <3>1, <4>3, <4>4 DEF Shows, At
      <4> HIDE DEF new, old
      <4>7. Enough(old) => Covers(old, listed)
        BY <3>1, <4>1, <4>2, <4>6, OnlyResults
      <4> QED
        BY <2>1, <3>3, <4>1, <4>5, <4>6, <4>7 DEF old, FileExists, Shows
    <3> QED
      BY <2>1, <3>2, <3>3
  <2> QED
    BY <2>2, <2>3, <2>4
<1>2. CASE LoadSearch
  <2>1. PICK f \in Archive, size \in IF pending THEN {Search.Size} ELSE Sizes :
          files' = [files EXCEPT ![1] = File([f.hdr EXCEPT !.dmp = 1],
                                             Saved(f.map, f.hdr.DumpSize \div size))]
    BY <1>2, Zenon DEF LoadSearch
  <2>2. /\ n' = 1 /\ Search' = Search /\ UNCHANGED <<tab, listed>>
        /\ (pending => torn') /\ (tab = "results" /\ listed # NoList => torn')
    BY <1>2, Zenon DEF LoadSearch
  <2>3. Enough(files'[1])
    <3> DEFINE h == [f.hdr EXCEPT !.dmp = 1]
               m == f.hdr.DumpSize \div size
    <3>1. f.hdr \in Headers /\ f.hdr.ResCount \in Nat
      BY ArchivedHeader, SessionAssumption DEF Headers
    <3>2. h.ResCount = f.hdr.ResCount
      BY <3>1 DEF Headers
    <3> HIDE DEF h, m
    <3>3. files'[1] = File(h, Saved(f.map, m))
      BY <2>1, SessionAssumption DEF h, m, Shrinking, Typed, FilesType, Slots
    <3>4. files'[1].hdr = h /\ files'[1].map = Saved(f.map, m)
      BY <3>3, FileParts
    <3>5. IsFiniteSet(f.map.bits)
      <4>1. f.map.len \in Nat /\ f.map.bits \subseteq 0 .. f.map.len - 1
        BY ArchiveAssumption
      <4>2. IsFiniteSet(0 .. f.map.len - 1)
        BY <4>1, FS_Interval
      <4> QED
        BY <4>1, <4>2, FS_Subset
    <3>6. Saved(f.map, m).bits \in SUBSET f.map.bits
      BY SavedShrinks
    <3>7. /\ Cardinality(Saved(f.map, m).bits) <= Cardinality(f.map.bits)
          /\ Cardinality(Saved(f.map, m).bits) \in Nat /\ Cardinality(f.map.bits) \in Nat
      BY <3>5, <3>6, FS_Subset, FS_CardinalityType
    <3>8. f.hdr.ResCount >= Cardinality(f.map.bits)
      BY DEF HonestArchive, Enough
    <3>9. f.hdr.ResCount >= Cardinality(Saved(f.map, m).bits)
      BY <3>1, <3>7, <3>8
    <3> QED
      BY <3>2, <3>4, <3>9 DEF Enough
  <2>4. CountNeverLow'
    <3>1. \A k \in 1 .. 1 : k = 1
      OBVIOUS
    <3> QED
      BY <2>2, <2>3, <3>1 DEF CountNeverLow, Enough
  <2>5. Listing'
    BY <2>2 DEF Listing
  <2>6. OldLoaded'
    <3>1. CASE pending
      BY <2>2, <3>1 DEF OldLoaded, pending
    <3>2. CASE ~pending
      <4>1. ~pending'
        BY <2>2, <3>2 DEF pending
      <4> QED
        BY <4>1, Zenon DEF OldLoaded
    <3> QED
      BY <3>1, <3>2
  <2> QED
    BY <2>4, <2>5, <2>6
<1>3. ASSUME UNCHANGED <<n, files, torn, miscounted>> PROVE CountNeverLow'
  BY <1>3 DEF CountNeverLow, FileExists
<1>4. ASSUME UNCHANGED <<n, files, torn, Search, RamInfo>> PROVE OldLoaded'
  BY <1>4 DEF OldLoaded, FileExists, pending
<1>5. CASE ShowResults
  <2>1. UNCHANGED <<n, files, torn, miscounted, Search, RamInfo>>
    BY <1>5 DEF ShowResults
  <2>2. Listing'
    <3> SUFFICES ASSUME ~torn, listed' # NoList
                 PROVE  /\ FileExists(n) /\ Shows(files[n], listed')
                        /\ n \notin miscounted => Covers(files[n], listed')
      BY <2>1 DEF Listing, FileExists
    <3>1. Readable(n) /\ listed' \in Lists(files[n])
      BY <1>5 DEF ShowResults, ListsOrNone
    <3>2. FileExists(n) /\ files[n] \in Files /\ n \in 1 .. n
      <4>1. FileExists(n) /\ n \in Slots
        BY <3>1 DEF Readable, FileExists
      <4> QED
        BY <4>1, FileType DEF Shrinking, Typed, Slots
    <3>3. n \notin miscounted => Enough(files[n])
      BY <3>2 DEF CountNeverLow, Enough
    <3> QED
      BY <3>1, <3>2, <3>3, ListsShow
  <2> QED
    BY <1>3, <1>4, <2>1, <2>2
<1>6. CASE ShowSearch
  <2>1. UNCHANGED <<n, files, torn, miscounted, Search, RamInfo>> /\ listed' = NoList
    BY <1>6 DEF ShowSearch
  <2> QED
    BY <1>3, <1>4, <2>1 DEF Listing
<1>7. CASE UNCHANGED vars
  BY <1>3, <1>4, <1>7 DEF vars, Listing, FileExists
<1>8. CASE Delete
  <2> DEFINE f == files[n]
  <2>1. PICK gone \in SUBSET listed.rows, junk \in 0 .. listed.junk, hit \in SUBSET f.map.bits :
          /\ files' = [files EXCEPT ![n] = Shorter(f, gone, junk, hit)]
          /\ listed' \in ListsOrNone(Shorter(f, gone, junk, hit))
    BY <1>8, Zenon DEF Delete, Shorter
  <2>2. /\ UNCHANGED <<n, torn, miscounted, Search, RamInfo, tab>> /\ tab = "results"
        /\ listed # NoList /\ f.hdr.SearchSize # 0 /\ FileExists(n)
    BY <1>8 DEF Delete, Readable
  <2>3. ~pending'
    BY <2>2 DEF Shrinking, Typed, TabType, pending
  <2>4. OldLoaded'
    BY <2>3, Zenon DEF OldLoaded
  <2>5. CASE torn
    BY <2>2, <2>4, <2>5 DEF CountNeverLow, Listing
  <2>6. CASE ~torn
    <3> DEFINE new == Shorter(f, gone, junk, hit)
    <3>1. f \in Files /\ n \in Slots /\ listed \in Tables /\ (n \notin miscounted => Covers(f, listed))
      BY <2>2, <2>6, FileType DEF Shrinking, Typed, TabType, Listing
    <3>2. new \in Files
      BY <2>2, <3>1, ShorterType
    <3>3. n \notin miscounted => Enough(new)
      BY <2>2, <3>1, DeletedCounts
    <3> HIDE DEF f
    <3>4. files'[n] = new /\ \A k \in Slots : k # n => files'[k] = files[k]
      BY <2>1, <3>1 DEF Shrinking, Typed, FilesType
    <3>5. new # NoFile
      BY DEF Shorter, File, NoFile
    <3>6. listed' \in {NoList} \cup Lists(new)
      BY <2>1 DEF ListsOrNone
    <3> HIDE DEF new
    <3>7. listed' # NoList => Shows(new, listed') /\ (n \notin miscounted => Covers(new, listed'))
      BY <3>2, <3>3, <3>6, ListsShow
    <3>8. CountNeverLow'
      <4> SUFFICES ASSUME NEW k \in (1 .. n) \ miscounted, FileExists(k)' PROVE Enough(files'[k])
        BY <2>2 DEF CountNeverLow, Enough
      <4>1. CASE k = n
        BY <3>3, <3>4, <4>1
      <4>2. CASE k # n
        <5>1. k \in Slots /\ files'[k] = files[k]
          BY <3>4, <4>2 DEF FileExists
        <5>2. FileExists(k)
          BY <5>1 DEF FileExists
        <5> QED
          BY <2>6, <5>1, <5>2 DEF CountNeverLow, Enough
      <4> QED
        BY <4>1, <4>2
    <3>9. FileExists(n)'
      BY <2>2, <3>1, <3>4, <3>5 DEF FileExists
    <3>10. Listing'
      BY <2>2, <3>4, <3>7, <3>9 DEF Listing
    <3> QED
      BY <2>4, <3>8, <3>10
  <2> QED
    BY <2>5, <2>6
<1>9. CASE LoadSearchFails
  <2>1. /\ pending /\ torn' /\ UNCHANGED <<n, Search>>
        /\ Search' = Search
    BY <1>9 DEF LoadSearchFails
  <2> QED
    BY <2>1 DEF CountNeverLow, Listing, OldLoaded, pending
<1> QED
  BY <1>1, <1>2, <1>5, <1>6, <1>7, <1>8, <1>9

\* Until a menu command or a failed comparison tears the history, no entry counts
\* fewer results than it has, over every search, I Forgot, Undo and Delete, also on
\* a list that Undo has made one of a later entry, unless FilterResultsEx counted it
\* down by the bytes of runs of larger values or I Forgot took such a count; a search
\* that is loaded must have been saved with a count as good (SearchSession's
\* CountNeverLow).
THEOREM CountNeverLowCorrect ==
  ASSUME HonestArchive
  PROVE  Spec => []CountNeverLow
<1>1. Init => CountNeverLow /\ Listing /\ OldLoaded
  <2> SUFFICES ASSUME Init PROVE CountNeverLow /\ Listing /\ OldLoaded
    OBVIOUS
  <2>1. \A k \in 1 .. 0 : FALSE
    OBVIOUS
  <2> QED
    BY <2>1 DEF Init, CountNeverLow, Listing, OldLoaded, pending, Idle
<1>2. Init => HistoryShrinks /\ Loaded
  BY DEF Init, HistoryShrinks, Loaded, pending, Idle
<1>3. Counted /\ [Next]_vars => Counted'
  <2>1. Counted /\ [Next]_vars => CountNeverLow' /\ Listing' /\ OldLoaded'
    BY HonestArchive, SearchCounted, OthersCounted DEF Next
  <2>2. Shrinking /\ [Next]_vars => HistoryShrinks' /\ Loaded'
    BY SearchShrinking, OthersShrinking DEF Next
  <2>3. Typed /\ [Next]_vars => Typed'
    BY TypedStep
  <2> QED
    BY <2>1, <2>2, <2>3 DEF Counted, Shrinking
<1> QED
  BY TypedInit, <1>1, <1>2, <1>3, PTL DEF Spec, Counted, Shrinking
=============================================================================
