--------------------------- MODULE SearchSession ----------------------------
(***************************************************************************)
(* The history of a code search in ps2cc: the entries of the Compare To    *)
(* box, the files dump<k>.raw and search<k>.bin behind them, the results   *)
(* list, and the globals Search and RamInfo that carry a search over the   *)
(* time its dump takes (tab_search.c, tab_results.c, lib_fileio.c).        *)
(*                                                                         *)
(* Entry k of the history stands for search<k>.bin: a header and a bitmap  *)
(* of results.  Which results a search keeps is left open (SearchLib has   *)
(* the conditions); a bitmap's bytes are left out, so that its length is   *)
(* DumpSize \div Size.  The dump itself is NtpbClient's: here it is under  *)
(* way, then SEARCH_CONTINUE says how it ended.                            *)
(***************************************************************************)
EXTENDS Integers, FiniteSets

CONSTANTS
  MaxSearches,   \* MAX_SEARCHES: 100 in the program
  Sizes,         \* search sizes, in bytes
  Areas,         \* search areas the user may set: where they begin and their bytes
  Archive,       \* searches saved elsewhere that the user may load
  CountMod       \* 2^32: ResCount is a u32

\* Sizes and counts are u32, those of a saved search too.
ASSUME SessionAssumption ==
  /\ MaxSearches \in Nat \ {0} /\ CountMod \in Nat \ {0} /\ Sizes \subseteq Nat \ {0}
  /\ Areas \subseteq [low : Nat, size : 0 .. CountMod - 1]

\* dmpFileName of a search that was saved elsewhere.
ArchiveDump == MaxSearches + 1

ASSUME ArchiveAssumption ==
  \A f \in Archive :
    /\ f.hdr \in [dmp : {ArchiveDump}, SearchSize : Nat, DumpSize : 0 .. CountMod - 1,
                 MapMemAddy : Nat, ResCount : 0 .. CountMod - 1]
    /\ f.map.len \in Nat /\ f.map.bits \subseteq 0 .. f.map.len - 1

VARIABLES
  n,         \* entries of the Compare To box after "New Search"
  files,     \* search<k>.bin
  dumps,     \* bytes of dump<k>.raw, or NoDump
  Search,    \* the global Search while a search waits for its dump, or Idle
  RamInfo,   \* the global RamInfo while a search waits: what a command leaves there
             \* otherwise is written over before it is read
  tab,       \* the tab that is shown
  listed,    \* the rows of ResultsList while it is shown, or NoList
  torn,      \* history variable: an entry or a view works on what was not made for it
  miscounted \* history variable: entries that FilterResultsEx counted down by bytes

vars == <<n, files, dumps, Search, RamInfo, tab, listed, torn, miscounted>>

Slots == 1 .. MaxSearches
NoFile == [none |-> TRUE]
NoDump == -1
NoList == [none |-> TRUE]
Idle == [Type |-> "INIT", Size |-> 0, CompareTo |-> 0, Count |-> 0]
ZeroHeader == [dmp |-> 0, SearchSize |-> 0, DumpSize |-> 0, MapMemAddy |-> 0, ResCount |-> 0]
NoBits == [len |-> 0, bits |-> {}]
Freed == [Old |-> ZeroHeader, New |-> ZeroHeader, Results |-> NoBits]

FileExists(k) == k \in Slots /\ files[k] # NoFile
\* LoadFile returns the bytes it read, and none is taken for a failure.
Readable(k) == FileExists(k) /\ files[k].map.len # 0
\* The bytes of the dump that a header names, with the dumps ds in the folder.
DumpBytes(hdr, ds) ==
  CASE hdr.dmp = ArchiveDump -> hdr.DumpSize
    [] hdr.dmp \in Slots -> ds[hdr.dmp]
    [] OTHER -> NoDump
\* LoadFile takes an empty dump for a failure too.
DumpLoads(hdr, ds) == DumpBytes(hdr, ds) > 0

File(header, map) == [hdr |-> header, map |-> map]

\* A bitmap has len bits that a search wrote; past them, in a buffer or a file
\* that is too short for m bits, it reads as anything.
Readings(map, m) ==
  {(map.bits \cap 0 .. m - 1) \cup junk : junk \in SUBSET (map.len .. m - 1)}

\* SaveFile of the first m bits.
Saved(map, m) == LET known == IF map.len < m THEN map.len ELSE m
                 IN  [len |-> known, bits |-> map.bits \cap 0 .. known - 1]

Init ==
  /\ n = 0
  /\ files = [k \in Slots |-> NoFile]
  /\ dumps = [k \in Slots |-> NoDump]
  /\ Search = Idle /\ RamInfo = Freed
  /\ tab = "search" /\ listed = NoList /\ torn = FALSE /\ miscounted = {}

-----------------------------------------------------------------------------
(* The search tab.                                                         *)

\* The search tab waits for its dump, disabled, as is the tab control.
pending == Search # Idle

\* ClearDumpsFolder: dump and results of 1, 2, ... until a file is missing.
RemovableDumps == {k \in 1 .. MaxSearches - 1 :
                     dumps[k] # NoDump /\ \A j \in 1 .. k - 1 : dumps[j] # NoDump /\ FileExists(j)}
RemovableFiles == {k \in RemovableDumps : FileExists(k)}
\* Only an initial search clears the folder.
KeptDumps(type) ==
  [k \in Slots |-> IF type = "INIT" /\ k \in RemovableDumps THEN NoDump ELSE dumps[k]]
KeptFiles(type) ==
  [k \in Slots |-> IF type = "INIT" /\ k \in RemovableFiles THEN NoFile ELSE files[k]]

\* Whose header and whose bitmap a continued search loads.
HeaderOf(s) == s.CompareTo
BitmapOf_Bug(s) == s.CompareTo    \* a bug to be caught: the compared entry's bitmap
BitmapOf(s) == s.Count - 1
\* Where it puts the new ones.
TargetOf_Bug(s) == s.CompareTo + 1   \* a bug to be caught: the entry after the compared one
TargetOf(s) == s.Count

\* What DO_SEARCH_CMD makes of the window: type, size and place in the history.  The
\* type is INIT, FORGOT or COMPARE for all the others; those that need an entry to
\* compare with are refused without one and like the rest with one.
NewSearch(type, size, compareTo) ==
  [Type |-> type, Size |-> size, CompareTo |-> compareTo,
   Count |-> IF compareTo = 0 THEN 1 ELSE n + 1]

\* A bug to be caught: one entry too many.
Permitted_Bug(s) ==
  /\ s.Type = "FORGOT" => s.CompareTo # 0
  /\ s.Count <= MaxSearches + 1
  /\ s.CompareTo # 0 => FileExists(HeaderOf(s)) /\ Readable(BitmapOf(s))

\* What ends in an error box instead and changes nothing.
Permitted(s) ==
  /\ s.Type = "FORGOT" => s.CompareTo # 0
  /\ s.Count <= MaxSearches
  /\ s.CompareTo # 0 => FileExists(HeaderOf(s)) /\ Readable(BitmapOf(s))

LoadedInfo(s, new) ==
  [Old |-> IF s.CompareTo # 0 THEN files[HeaderOf(s)].hdr ELSE ZeroHeader,
   New |-> new,
   Results |-> IF s.CompareTo # 0 THEN files[BitmapOf(s)].map ELSE NoBits]

NewHeader(s, area) == [dmp |-> s.Count, SearchSize |-> s.Size, DumpSize |-> area.size,
                       MapMemAddy |-> area.low, ResCount |-> 0]

\* DO_SEARCH_CMD up to the start of the dump, compared with compareTo ("INIT" with
\* nothing).  DumpRAM fails before or after it has emptied the dump's file, or the
\* search waits for it; the file that grows meanwhile has its size from the start.
DoSearch(compareTo) ==
  /\ ~pending /\ tab = "search"
  /\ \E size \in Sizes, area \in Areas, started \in BOOLEAN,
        type \in {"COMPARE", "FORGOT"} \cup (IF compareTo = 0 THEN {"INIT"} ELSE {}) :
       LET s == NewSearch(type, size, compareTo)
       IN  /\ Permitted(s)
           /\ files' = KeptFiles(type)
           /\ \/ dumps' = [KeptDumps(type) EXCEPT ![s.Count] = IF started THEN area.size ELSE 0]
              \/ ~started /\ dumps' = KeptDumps(type)
           /\ Search' = IF started THEN s ELSE Idle
           /\ RamInfo' = IF started
                         THEN LoadedInfo(s, NewHeader(s, area))
                         ELSE Freed
  /\ UNCHANGED <<n, tab, listed, torn, miscounted>>

-----------------------------------------------------------------------------
(* SEARCH_CONTINUE_VCMD, for the search s in the globals.                  *)

\* search_end with a dump that failed.
DumpFailed ==
  /\ pending
  /\ Search' = Idle /\ RamInfo' = Freed
  /\ UNCHANGED <<n, files, dumps, tab, listed, torn, miscounted>>

\* What becomes of an entry that is written, counted by bytes or not.
Recounted(k, byBytes) == IF byBytes THEN miscounted \cup {k} ELSE miscounted \ {k}

\* A new search starts the history afresh.  SaveFile returns the bytes written,
\* and none is taken for a failure.
FreshBits == LET m == RamInfo.New.DumpSize \div Search.Size
             IN  [len |-> m, bits |-> 0 .. m - 1]
Fresh == [files EXCEPT ![1] = File([RamInfo.New EXCEPT !.ResCount = FreshBits.len], FreshBits)]

\* CodeSearch counts the results it has found (SearchCheck: CountHonest).  Of those
\* FilterResultsEx clears the runs, and takes one off ResCount for each of their bytes.
Recount(s, found, keep) == (Cardinality(found) - s.Size * Cardinality(found \ keep)) % CountMod

\* CodeSearch and SaveFile.
Narrow(info, s, target) ==
  LET m == info.New.DumpSize \div s.Size
  IN  \E on \in Readings(info.Results, m) : \E found \in SUBSET on : \E keep \in SUBSET found :
        /\ files' = [files EXCEPT ![target] =
                       File([info.New EXCEPT !.ResCount = Recount(s, found, keep)],
                            Saved([info.Results EXCEPT !.bits = keep], m))]
        /\ miscounted' = Recounted(target, s.Size > 1 /\ keep # found)

\* The dumps are loaded from the folder as it is by then.
CanCompare(info, s, ds) ==
  /\ DumpLoads(info.New, ds)
  /\ s.CompareTo # 0 => DumpLoads(info.Old, ds)
  /\ info.Old.DumpSize \in {0, info.New.DumpSize}

\* A search that cannot compare leaves its entry with a file that an undone search
\* or an older history left there.
Leftover(info, s, ds) == ~CanCompare(info, s, ds) /\ FileExists(TargetOf(s))

\* The dump is there, in ds; info is RamInfo.  The entry is added before anything can
\* go wrong with the search.
Finish(info, s, ds) ==
  /\ torn' = (torn \/ (s.Type = "COMPARE" /\ Leftover(info, s, ds)))
  /\ n' = IF s.CompareTo = 0 THEN 1 ELSE n + 1
  /\ CASE s.Type = "INIT" -> files' = Fresh /\ miscounted' = Recounted(1, FALSE)
       [] s.Type = "FORGOT" ->
            /\ files' = [files EXCEPT ![TargetOf(s)] =
                           File([info.New EXCEPT !.ResCount = info.Old.ResCount],
                                Saved(info.Results, info.New.DumpSize \div s.Size))]
            /\ miscounted' = Recounted(TargetOf(s), HeaderOf(s) \in miscounted)
       [] OTHER -> IF CanCompare(info, s, ds) THEN Narrow(info, s, TargetOf(s))
                   ELSE IF s.CompareTo = 0 THEN files' = Fresh /\ miscounted' = Recounted(1, FALSE)
                   ELSE UNCHANGED <<files, miscounted>>

\* The dump has arrived.
Continue ==
  /\ pending
  /\ IF Search.CompareTo # 0 THEN Finish(RamInfo, Search, dumps)
     ELSE IF FreshBits.len = 0
          THEN n' = 0 /\ files' = Fresh /\ miscounted' = Recounted(1, FALSE) /\ UNCHANGED torn
     ELSE Finish([RamInfo EXCEPT !.Results = FreshBits], [Search EXCEPT !.Count = 1], dumps)
  /\ Search' = Idle /\ RamInfo' = Freed
  /\ UNCHANGED <<dumps, tab, listed>>

\* EX_FILTER_CMD: no dump, the compared entry's is copied with its header, and
\* the search continues at once, with the copy.
ExFilter ==
  /\ ~pending /\ tab = "search"
  /\ \E size \in Sizes, compareTo \in 1 .. n :
       LET s == NewSearch("COMPARE", size, compareTo)
           old == files[HeaderOf(s)].hdr
       IN  /\ Permitted(s)
           /\ DumpBytes(old, dumps) # NoDump
           /\ dumps' = [dumps EXCEPT ![s.Count] = DumpBytes(old, dumps)]
           /\ Finish(LoadedInfo(s, [old EXCEPT !.dmp = s.Count]), s, dumps')
  /\ UNCHANGED <<Search, RamInfo, tab, listed>>

-----------------------------------------------------------------------------
(* The menu commands, which a disabled tab still gets.                     *)

Whole(f) == f.hdr.SearchSize # 0 /\ f.map.len >= f.hdr.DumpSize \div f.hdr.SearchSize

\* The entries have one search size, one start of their area and whole bitmaps.
Sound ==
  \A j, k \in 1 .. n : FileExists(j) /\ FileExists(k) =>
    /\ Whole(files[k])
    /\ files[j].hdr.SearchSize = files[k].hdr.SearchSize
    /\ files[j].hdr.MapMemAddy = files[k].hdr.MapMemAddy

\* A list of results of the newest entry that is one of the entry before it too.
Lasting == listed = NoList \/ (Sound /\ listed.junk = 0)

\* MNU_CS_UNDO.  Search.Count is set before the command makes up its mind, and
\* the name of a results file is put in RamInfo before it is found to be missing.
Undo ==
  /\ Search' = IF pending THEN [Search EXCEPT !.Count = n + 1] ELSE Search
  /\ IF n >= 2 /\ FileExists(n - 1)
     THEN /\ n' = n - 1
          /\ RamInfo' = Freed
          /\ torn' = (torn \/ pending \/ ~Lasting)
     ELSE /\ RamInfo' = IF pending /\ n >= 2 THEN [RamInfo EXCEPT !.New.dmp = 0] ELSE RamInfo
          /\ torn' = (torn \/ (pending /\ n >= 2))
          /\ UNCHANGED n
  /\ UNCHANGED <<files, dumps, tab, listed, miscounted>>

\* MNU_LOAD_SEARCH, with any size in the window.  search1.bin gets as many bits as
\* that size takes.
LoadSearch ==
  /\ \E f \in Archive, size \in IF pending THEN {Search.Size} ELSE Sizes :
       /\ f.map.len # 0
       /\ dumps' = [dumps EXCEPT ![1] = DumpBytes(f.hdr, dumps)]
       /\ files' = [files EXCEPT ![1] = File([f.hdr EXCEPT !.dmp = 1],
                                             Saved(f.map, f.hdr.DumpSize \div size))]
  /\ n' = 1 /\ miscounted' = Recounted(1, FALSE)
  /\ RamInfo' = Freed
  /\ torn' = (torn \/ pending \/ (tab = "results" /\ listed # NoList))
  /\ UNCHANGED <<Search, tab, listed>>

\* Its ways to fail, while a search waits: the dump cannot be copied, or the file has no
\* bitmap, when its header is in RamInfo by then.  The search has lost what it had loaded.
LoadSearchFails ==
  /\ pending
  /\ \/ RamInfo' = Freed
     \/ \E f \in Archive : /\ f.map.len = 0
                           /\ RamInfo' = [RamInfo EXCEPT !.New = f.hdr, !.Results = NoBits]
  /\ torn' = TRUE
  /\ UNCHANGED <<n, files, dumps, Search, tab, listed, miscounted>>

-----------------------------------------------------------------------------
(* The results tab.                                                        *)

\* The first count of a set of numbers.
FirstOf(all, count) == {a \in all : Cardinality({b \in all : b < a}) < count}

Values(hdr) == IF hdr.SearchSize = 0 THEN 0 ELSE hdr.DumpSize \div hdr.SearchSize

\* ShowResPage opens the header and the dump of every entry, or shows nothing.
AllOpen == \A k \in 1 .. n : FileExists(k) /\ DumpBytes(files[k].hdr, dumps) # NoDump

\* LoadResultsList and ShowResPage, for a search file: a row for each of the first
\* ResCount results, and as many more, of memory nobody wrote, as ResCount asks for.
Lists(f) ==
  {LET first == FirstOf({i * f.hdr.SearchSize : i \in on}, f.hdr.ResCount)
   IN  IF AllOpen
       THEN [rows |-> {a + f.hdr.MapMemAddy : a \in first},
             junk |-> f.hdr.ResCount - Cardinality(first)]
       ELSE [rows |-> {}, junk |-> 0] :
     on \in Readings(f.map, Values(f.hdr))}

\* There may be no memory for ResCount of them.
ListsOrNone(f) == Lists(f) \cup {NoList}

\* The tab control is disabled while a search waits.  With an empty history the old
\* list stays on the screen, where Delete finds no file: it is left out.
ShowResults ==
  /\ ~pending /\ tab = "search" /\ tab' = "results"
  /\ IF Readable(n) THEN listed' \in ListsOrNone(files[n]) ELSE listed' = NoList
  /\ UNCHANGED <<n, files, dumps, Search, RamInfo, torn, miscounted>>

ShowSearch ==
  /\ tab = "results" /\ tab' = "search" /\ listed' = NoList
  /\ UNCHANGED <<n, files, dumps, Search, RamInfo, torn, miscounted>>

\* A bug to be caught: the count goes down once more.
AfterDelete_Bug(hdr, rows) == [hdr EXCEPT !.ResCount = (@ - rows - 1) % CountMod]
AfterDelete(hdr, rows) == [hdr EXCEPT !.ResCount = (@ - rows) % CountMod]

\* What is left of a file's bitmap without the rows gone and without hit, the bits that
\* rows of unwritten memory happen to name.
Left(f, gone, hit) ==
  f.map.bits \ ({(a - f.hdr.MapMemAddy) \div f.hdr.SearchSize : a \in gone} \cup hit)

\* VK_DELETE: the selected rows of the list go, if any, whatever entry it was made for.
Delete ==
  /\ tab = "results" /\ listed # NoList /\ Readable(n)
  /\ LET f == files[n]
     IN  /\ f.hdr.SearchSize # 0
         /\ \E gone \in SUBSET listed.rows, junk \in 0 .. listed.junk, hit \in SUBSET f.map.bits :
              /\ Cardinality(hit) <= junk
              /\ LET new == File(AfterDelete(f.hdr, Cardinality(gone) + junk),
                                 Saved([f.map EXCEPT !.bits = Left(f, gone, hit)], Values(f.hdr)))
                 IN  files' = [files EXCEPT ![n] = new] /\ listed' \in ListsOrNone(new)
  /\ UNCHANGED <<n, dumps, Search, RamInfo, tab, torn, miscounted>>

-----------------------------------------------------------------------------
Next == \/ \E compareTo \in 0 .. n : DoSearch(compareTo)
        \/ DumpFailed \/ Continue \/ ExFilter \/ Undo \/ LoadSearch \/ LoadSearchFails
        \/ ShowResults \/ ShowSearch \/ Delete

Spec == Init /\ [][Next]_vars

-----------------------------------------------------------------------------
(* The properties.                                                         *)

\* Type correctness: the history and a search on its way never outgrow the files,
\* and no bitmap has a bit past its end.
TypeOK ==
  /\ n \in 0 .. MaxSearches
  /\ \A k \in Slots : /\ dumps[k] \in {NoDump} \cup 0 .. CountMod - 1
                      /\ files[k] # NoFile =>
                           /\ files[k].map.bits \subseteq 0 .. files[k].map.len - 1
                           /\ files[k].hdr.ResCount \in 0 .. CountMod - 1
  /\ pending => /\ Search.Size \in Sizes /\ tab = "search"
                /\ Search.CompareTo # 0 => Search.Count <= MaxSearches

\* A search that continues the history, and Undo, Delete and a failed dump, leave
\* every entry but the newest as it was, with its dump: an Undo can only bring
\* back what was there (tab_search.c:461-464, 590, 674-687, tab_results.c:345).
OldEntriesFrozen ==
  [][~DoSearch(0) =>
       \A k \in 1 .. n : k < n' =>
         files'[k] = files[k] /\ dumps'[k] = dumps[k]]_vars

\* Every entry's results are among those of every entry before it, whichever entry
\* each search compared with, and over Undo, Forgot, filters, failed searches and
\* Delete - as long as nothing tore the history (:463, :554, :591).
HistoryShrinks ==
  ~torn => \A j, k \in 1 .. n :
    j < k /\ FileExists(j) /\ FileExists(k) => files[k].map.bits \subseteq files[j].map.bits

\* No header counts fewer results than its bitmap has, also where a bitmap is too
\* short for its search size: the results list, which stops at ResCount
\* (tab_results.c:463), shows them all.  Left out are the entries that FilterResultsEx
\* counted down by bytes (lib_search.c:427-431), and those that I Forgot took such a
\* count for: only it can make a count too low.
CountNeverLow ==
  ~torn => \A k \in (1 .. n) \ miscounted :
    FileExists(k) => files[k].hdr.ResCount >= Cardinality(files[k].map.bits)

\* What "just dump again and keep results" (tab_search.c:86) and ReadMe.txt:71
\* promise of the count: it is the number of results that are kept.
ForgotKeepsCount ==
  ~torn /\ Sound => \A k \in (1 .. n) \ miscounted :
    FileExists(k) => files[k].hdr.ResCount = Cardinality(files[k].map.bits)
=============================================================================
