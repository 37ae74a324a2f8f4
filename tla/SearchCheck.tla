---------------------------- MODULE SearchCheck -----------------------------
(***************************************************************************)
(* One call of CodeSearch on one pair of RAM dumps, over every input of    *)
(* the sets below: SearchLib compared with what the labels of the search   *)
(* window (ps2cc/tab_search.c) say of each option.                         *)
(*                                                                         *)
(* Families of inputs: a dump of one value, for every search type; the     *)
(* same through a file; a dump of eight bytes, for every filter; a dump of *)
(* several values with some results left, for the options on consecutive   *)
(* results.                                                                *)
(***************************************************************************)
EXTENDS SearchLib

CONSTANTS
  PointSizes,      \* search sizes of the single-value dumps
  FilterDumps,     \* contents of the eight-byte dumps
  FilterAddys,     \* MapMemAddy of the eight-byte dumps
  ConsecShapes,    \* pairs <<Size, DumpSize>> of the dumps for consecutive results
  MaxConsec        \* largest number given to the options on consecutive results

VARIABLES
  call,       \* Search, RamInfo.Access, the dumps, DumpSize, MapMemAddy, the old results
  results,    \* RamInfo.Results
  resCount,   \* RamInfo.NewResultsInfo.ResCount
  pc

vars == <<call, results, resCount, pc>>

-----------------------------------------------------------------------------
(* The inputs.                                                             *)

Bytes == 0 .. Span(1) - 1

\* Dumps and their addresses fit u32, and a dump holds whole values.
ASSUME SearchCheckAssumption ==
  /\ PointSizes \subseteq {1, 2, 4, 8}
  /\ FilterDumps \subseteq [0 .. 7 -> Bytes] /\ FilterAddys \subseteq 0 .. Span(4) - 1
  /\ \A shape \in ConsecShapes :
       /\ shape[1] \in {1, 2, 4, 8} /\ shape[2] \in 0 .. CountMod - 1
       /\ shape[2] % shape[1] = 0
  /\ MaxConsec \in Nat /\ CountMod > 8

Addresses(dumpSize, n) == {a \in 0 .. dumpSize - 1 : a % n = 0}
NoDump == << >>

SearchTypes == {"KNOWN", "GREATER", "GREATER_BY", "GREATER_LEAST", "GREATER_MOST", "LESS",
                "LESS_BY", "LESS_LEAST", "LESS_MOST", "EQUAL", "EQUAL_NUM_BITS", "NEQUAL",
                "NEQUAL_TO", "NEQUAL_BY", "NEQUAL_LEAST", "NEQUAL_MOST", "NEQUAL_TO_BITS",
                "NEQUAL_BY_BITS", "BITS_ANY", "BITS_ALL"}
RangeTypes == {"IN_RANGE", "NOT_RANGE"}
\* These read no old value.
AbsoluteTypes == {"KNOWN", "KNOWN_WILD", "EQUAL_NUM_BITS", "NEQUAL_TO", "NEQUAL_TO_BITS",
                  "IN_RANGE", "NOT_RANGE", "BITS_ANY", "BITS_ALL"}
\* DO_SEARCH_CMD refuses these without an old dump.
NeedsOldDump == {"GREATER", "LESS", "EQUAL", "NEQUAL"}

\* Numbers the user may type: both ends, both sides of the sign, small ones.
Numbers(n) == {x \in {0, 1, 2, Span(n) \div 2 - 1, Span(n) \div 2, Span(n) - 1} : x < Span(n)}

SearchVars(type, typeEx, n, v0, v1, x1, x2) ==
  [Type |-> type, TypeEx |-> typeEx, Size |-> n,
   Values |-> [i \in 0 .. 1 |-> IF i = 0 THEN v0 ELSE v1],
   ValuesEx1 |-> [f \in {Slot(g) : g \in typeEx} |-> x1],
   ValuesEx2 |-> [f \in {Slot(g) : g \in typeEx} |-> x2]]

Call(S, access, ltr, new, old, dumpSize, addy, res) ==
  /\ call = [S |-> S, Access |-> access, Ltr |-> ltr, New |-> new, Old |-> old,
             DumpSize |-> dumpSize, MapMemAddy |-> addy, Results |-> res]
  /\ results = res
  /\ resCount = 0
  /\ pc = "search"

PointCall(type, signed, n, v0, v1, access, ltr, new, old) ==
  Call(SearchVars(type, signed, n, v0, v1, 0, 0), access, ltr, new, old, n, 0, {0})

PointInit ==
  \E n \in PointSizes, signed \in {{}, {"SIGNED"}} : \E new \in [0 .. n - 1 -> Bytes] :
    \/ \E v0 \in Numbers(n), type \in SearchTypes, old \in [0 .. n - 1 -> Bytes] :
         PointCall(type, signed, n, v0, 0, "array", TRUE, new, old)
    \/ \E v0 \in Numbers(n), type \in SearchTypes \ NeedsOldDump :
         PointCall(type, signed, n, v0, 0, "array", TRUE, new, NoDump)
    \/ \E v0 \in Numbers(n), v1 \in Numbers(n), type \in RangeTypes :
         PointCall(type, signed, n, v0, v1, "array", TRUE, new, NoDump)
    \* Every wild digit is 0 in Values[0] and in the mask Values[1].
    \/ \E wild \in 0 .. Span(n) - 1 : \E v0 \in {v \in 0 .. Span(n) - 1 : Bits(v) \cap Bits(wild) = {}} :
         PointCall("KNOWN_WILD", signed, n, v0, Reg - 1 - wild, "array", TRUE, new, NoDump)

FileInit ==
  \E n \in PointSizes, ltr \in BOOLEAN, type \in {"KNOWN", "GREATER", "NEQUAL_BY_BITS"} :
  \E v0 \in Numbers(n), new \in [0 .. n - 1 -> Bytes], old \in [0 .. n - 1 -> Bytes] :
    PointCall(type, {}, n, v0, 0, "file", ltr, new, old)

PartSize == [BYTE |-> 1, SHORT |-> 2, WORD |-> 4, DWORD |-> 8]
PartFilters == {IGNORE_VALUE(p) : p \in DOMAIN PartSize} \cup {IGNORE_RANGE(p) : p \in DOMAIN PartSize}
PartOf(f) == CHOOSE p \in DOMAIN PartSize : f \in {IGNORE_VALUE(p), IGNORE_RANGE(p)}
ValueFilters == {"IGNORE_VALUE", "IGNORE_IN_RANGE", "IGNORE_NOT_RANGE"}
AddressFilters == {"INCLUDE_ADDRESS_RANGE", "EXCLUDE_UPPER16", "EXCLUDE_LOWER16"}
Filters == {"IGNORE_0", "IGNORE_FF"} \cup ValueFilters \cup AddressFilters \cup PartFilters

\* How many bytes the search window lets the user type for a filter.
FilterBytes(f, n) == IF f \in PartFilters THEN PartSize[PartOf(f)]
                     ELSE IF f = "INCLUDE_ADDRESS_RANGE" THEN 4 ELSE n

FilterInit ==
  \E n \in {1, 2, 4, 8}, new \in FilterDumps, f \in Filters :
  \E x1 \in Numbers(FilterBytes(f, n)), x2 \in Numbers(FilterBytes(f, n)),
     addy \in IF f \in AddressFilters THEN FilterAddys ELSE {0} :
    Call(SearchVars("BITS_ALL", {f}, n, 0, 0, x1, x2), "array", TRUE, new, NoDump, 8, addy,
         Addresses(8, n))

ConsecInit ==
  \E shape \in ConsecShapes, f \in ConsecFlags, x \in 0 .. MaxConsec :
    LET n == shape[1]
        d == shape[2]
    IN  \E left \in SUBSET Addresses(d, n), ones \in SUBSET Addresses(d, n) :
          Call(SearchVars("BITS_ALL", {f}, n, 0, 0, x, 0), "array", TRUE,
               [i \in 0 .. d - 1 |-> IF i \in ones THEN 1 ELSE 0], NoDump, d, 0, left)

Init == PointInit \/ FileInit \/ FilterInit \/ ConsecInit

-----------------------------------------------------------------------------
(* CodeSearch.  Without an old dump OldValue stays uninitialised: junk is  *)
(* whatever it holds.                                                      *)

ValuesOf(ram) == [a \in Addresses(call.DumpSize, call.S.Size) |->
                    GetSearchValues(call.Access, call.Ltr, ram, a, call.S.Size)]

Search ==
  /\ pc = "search"
  /\ \E junk \in IF call.Old = NoDump THEN {0, Reg - 1} ELSE {0} :
       LET nv == ValuesOf(call.New)
           ov == IF call.Old = NoDump THEN [a \in DOMAIN nv |-> junk] ELSE ValuesOf(call.Old)
           found == CodeSearch(call.S, call.DumpSize, call.MapMemAddy, nv, ov, results)
       IN  /\ results' = found.Results
           /\ resCount' = found.ResCount
  /\ pc' = "done"
  /\ UNCHANGED call

Next == Search

Spec == Init /\ [][Next]_vars

-----------------------------------------------------------------------------
(* What the labels mean: relations of integers, of the values in memory    *)
(* read as unsigned or as two's complement.                                *)

S == call.S
Memory(ram, a, n) == LittleEndian(ram, a, n)
Meant(v) == IF "SIGNED" \in S.TypeEx /\ SignBit(v, S.Size) THEN v - Span(S.Size) ELSE v
AbsVal(x) == IF x < 0 THEN -x ELSE x

Label(type, n, o, v0, v1) ==
  CASE type = "KNOWN"          -> n = v0
    [] type = "GREATER"        -> n > o
    [] type = "GREATER_BY"     -> n = o + v0
    [] type = "GREATER_LEAST"  -> n >= o + v0
    [] type = "GREATER_MOST"   -> o < n /\ n <= o + v0
    [] type = "LESS"           -> n < o
    [] type = "LESS_BY"        -> n = o - v0
    [] type = "LESS_LEAST"     -> n <= o - v0
    [] type = "LESS_MOST"      -> o - v0 <= n /\ n < o
    [] type = "EQUAL"          -> n = o
    [] type = "NEQUAL"         -> n # o
    [] type = "NEQUAL_TO"      -> n # v0
    [] type = "NEQUAL_BY"      -> n \in {o - v0, o + v0}
    [] type = "NEQUAL_LEAST"   -> AbsVal(n - o) >= v0
    [] type = "NEQUAL_MOST"    -> n # o /\ AbsVal(n - o) <= v0
    [] type = "IN_RANGE"       -> v0 <= n /\ n <= v1
    [] type = "NOT_RANGE"      -> n < v0 \/ n > v1

\* The labels about bits, of the values as stored.
BitLabel(type, n, o, v0, v1) ==
  LET sizeBits == 0 .. S.Size * UnitBits - 1
      Differ(x, y) == {b \in sizeBits : (b \in Bits(x)) # (b \in Bits(y))}
  IN CASE type = "KNOWN_WILD"     -> \A b \in sizeBits \cap Bits(v1) : b \notin Differ(n, v0)
       [] type = "EQUAL_NUM_BITS" -> Cardinality(Differ(n, 0)) = v0
       [] type = "NEQUAL_TO_BITS" -> Cardinality(Differ(n, 0)) # v0
       [] type = "NEQUAL_BY_BITS" -> Cardinality(Differ(n, o)) = v0
       [] type = "BITS_ANY"       -> \E b \in Bits(v0) : b \notin Differ(n, v0)
       [] type = "BITS_ALL"       -> \A b \in Bits(v0) : b \notin Differ(n, v0)

BitTypes == {"KNOWN_WILD", "EQUAL_NUM_BITS", "NEQUAL_TO_BITS", "NEQUAL_BY_BITS", "BITS_ANY", "BITS_ALL"}

\* n and o are the values in memory of a single-value dump.
LabelKeeps(n, o) ==
  LET v == S.Values
  IN  IF S.Type \in BitTypes THEN BitLabel(S.Type, n, o, v[0], v[1])
      ELSE Label(S.Type, Meant(n), Meant(o), Meant(v[0]), Meant(v[1]))

SameSign(x, y) == (x < 0) <=> (y < 0)

\* Where the program's arithmetic in u64 decides like the integers do.
Comparable(n, o, v0, v1) ==
  LET m == Meant(n)
  IN  /\ S.Type \in {"GREATER_LEAST", "GREATER_MOST", "NEQUAL_LEAST", "NEQUAL_MOST"}
           => SameSign(m, Meant(o) + Meant(v0))
      /\ S.Type \in {"LESS_LEAST", "LESS_MOST", "NEQUAL_LEAST", "NEQUAL_MOST"}
           => SameSign(m, Meant(o) - Meant(v0))
      /\ S.Type \in RangeTypes => SameSign(m, Meant(v0)) /\ SameSign(m, Meant(v1))
      /\ S.Type = "IN_RANGE" => n # v0
      /\ S.Type \in {"EQUAL_NUM_BITS", "NEQUAL_TO_BITS"} => m >= 0 /\ Meant(v0) >= 0
      /\ S.Type = "NEQUAL_BY_BITS" => SameSign(m, Meant(o)) /\ Meant(v0) >= 0
      /\ S.Type = "KNOWN_WILD" => m >= 0 \/ SignBit(v1, S.Size)

\* Where a dump read through a file gives the value in memory.
ReadsTrue(ram) ==
  \/ call.Access = "array"
  \/ S.Size = 1
  \/ S.Size = 2 /\ call.Ltr
  \/ S.Size = 4 /\ ~SignBit(Memory(ram, 0, 4), 4)

IsPoint == pc = "done" /\ call.DumpSize = S.Size /\ S.TypeEx \subseteq {"SIGNED"} /\ S.Size < 8
HasOld == call.Old # NoDump
NewInMemory == Memory(call.New, 0, S.Size)
OldInMemory == IF HasOld THEN Memory(call.Old, 0, S.Size) ELSE 0

-----------------------------------------------------------------------------
(* The properties.                                                         *)

\* Type correctness: results only ever go, and ResCount is a u32.
TypeOK ==
  /\ pc \in {"search", "done"}
  /\ results \subseteq call.Results
  /\ resCount \in 0 .. CountMod - 1

\* A search keeps exactly the values its label names (tab_search.c:85-109),
\* signed or not, for every pair of dumps - as long as the sums and differences
\* with the typed value stay on one side of zero, the low end of an In-Range
\* search excepted, and through a file for the sizes it can read.
TypesMeanLabel ==
  IsPoint /\ (HasOld \/ S.Type \in AbsoluteTypes) /\ ReadsTrue(call.New)
    /\ (HasOld => ReadsTrue(call.Old))
    /\ Comparable(NewInMemory, OldInMemory, S.Values[0], S.Values[1])
    => (0 \in results <=> LabelKeeps(NewInMemory, OldInMemory))

\* A doubleword is compared with its two words exchanged.
AsRead(a) == ArrayValue(call.New, a, S.Size)

\* The parts of p's size of the value in memory at a, each aligned.
PartsInMemory(p, a) ==
  IF p = "DWORD" THEN {AsRead(a)}
  ELSE {Memory(call.New, b, PartSize[p]) :
          b \in {c \in a .. a + S.Size - PartSize[p] : c % PartSize[p] = 0}}

\* A filter ignores exactly the results its label names (tab_search.c:118-157),
\* judged on the bytes in memory: the part filters find every aligned part of
\* the value when they are given 64-bit values (or look for bytes, or for a
\* 32-bit value in the upper word), the address filters know the address in the
\* PS2's memory when the dump starts at a multiple of its size.
FilterKeeps(f, a, v, x1, x2) ==
  CASE f = "IGNORE_0"  -> v # 0
    [] f = "IGNORE_FF" -> \E b \in a .. a + S.Size - 1 : call.New[b] # Span(1) - 1
    [] f = "IGNORE_VALUE" -> v # x1
    [] f = "IGNORE_IN_RANGE" -> v < x1 \/ v > x2
    [] f = "IGNORE_NOT_RANGE" -> x1 < v /\ v < x2
    [] f \in {IGNORE_VALUE(p) : p \in DOMAIN PartSize} -> x1 \notin PartsInMemory(PartOf(f), a)
    [] f \in {IGNORE_RANGE(p) : p \in DOMAIN PartSize} ->
         \A x \in PartsInMemory(PartOf(f), a) : x < x1 \/ x > x2
    [] f = "INCLUDE_ADDRESS_RANGE" -> x1 <= call.MapMemAddy + a /\ call.MapMemAddy + a <= x2
    [] f = "EXCLUDE_UPPER16" -> S.Size = 2 => (call.MapMemAddy + a) % 4 = 2
    [] f = "EXCLUDE_LOWER16" -> S.Size = 2 => (call.MapMemAddy + a) % 4 = 0

FilterSees(f, a) ==
  /\ f \in PartFilters => \/ S.Size = 8
                          \/ PartOf(f) = "BYTE"
                          \/ PartOf(f) = "WORD" /\ S.Size = 4 /\ a % 8 = 4
  /\ f \in AddressFilters => call.MapMemAddy % 8 = 0

FiltersMeanLabel ==
  pc = "done" => \A f \in S.TypeEx \cap Filters, a \in call.Results :
    FilterSees(f, a) =>
      (a \in results <=> FilterKeeps(f, a, AsRead(a), Ex1(S, f), Ex2(S, f)))

\* ResCount counts the results that are left, whatever the search; with an
\* option on consecutive results only for 8-bit values (it counts bytes).
CountHonest ==
  pc = "done" /\ (S.TypeEx \cap ConsecFlags = {} \/ S.Size = 1)
    => resCount = Cardinality(results)

\* The maximal run of old results around a, of equal values if same.
Follows(b, c, same) == {b, c} \subseteq call.Results /\ (same => AsRead(b) = AsRead(c))
RunLength(a, same) ==
  Cardinality({b \in call.Results :
    \A c \in Addresses(call.DumpSize, S.Size) :
      c + S.Size < call.DumpSize /\ ((a <= c /\ c < b) \/ (b <= c /\ c < a))
        => Follows(c, c + S.Size, same)})

\* The options on consecutive results judge every result by the maximal run of
\* results it belongs to: Exclude removes the runs of # and more, Include Only
\* keeps the runs longer than # (FilterResultsEx).  With matching values the
\* first result of a run may be passed over, after a run that was kept; then it
\* stays, and the rest is judged without it.
ConsecRuns ==
  pc = "done" => \A f \in S.TypeEx \cap ConsecFlags, a \in call.Results :
    LET n == Ex1(S, f)
        same == f \in {"EXCLUDE_CONSEC_MATCH_VALUES", "INCLUDE_CONSEC_MATCH_VALUES"}
        length == RunLength(a, same)
        first == ~Follows(a - S.Size, a, same)
    IN  CASE f = "EXCLUDE_CONSEC" -> (a \in results <=> length < n)
          [] f = "INCLUDE_CONSEC" -> (a \in results <=> length > n)
          [] f = "EXCLUDE_CONSEC_MATCH_VALUES" ->
               (length < n => a \in results) /\ (length > n => first \/ a \notin results)
          [] f = "INCLUDE_CONSEC_MATCH_VALUES" ->
               (length > n + 1 => a \in results) /\ (length <= n => first \/ a \notin results)
=============================================================================
