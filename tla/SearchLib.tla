----------------------------- MODULE SearchLib ------------------------------
(***************************************************************************)
(* The search library of ps2cc (ps2cc/lib_search.c, and the helpers of     *)
(* lib_misc.c it uses): pure operators on the values of a RAM dump and on  *)
(* the set of addresses that are still results.                            *)
(*                                                                         *)
(* A byte has UnitBits bits and a u64 has eight bytes, so that a u64 has   *)
(* 8 * UnitBits bits: the arithmetic is the program's for UnitBits = 8 and *)
(* keeps every relation of the widths (a byte, Size bytes, a u64) for a    *)
(* smaller one.  A search S is a record of the fields of CODE_SEARCH_VARS; *)
(* S.TypeEx is the set of its EXCS flags.  A bitmap of results is the set  *)
(* of addresses whose flag is set.                                         *)
(***************************************************************************)
EXTENDS Integers, Sequences, FiniteSets

CONSTANTS
  UnitBits,   \* bits of a byte: 8 in the program
  CountMod    \* 2^32: ResCount is a u32

ASSUME SearchLibAssumption == UnitBits \in Nat \ {0} /\ CountMod \in Nat \ {0}

-----------------------------------------------------------------------------
(* A u64.                                                                  *)

Pow2[n \in 0 .. 8 * UnitBits] == IF n = 0 THEN 1 ELSE 2 * Pow2[n - 1]

Span(n) == Pow2[n * UnitBits]      \* the values of n bytes
Reg == Span(8)
U64(x) == x % Reg
S64(v) == IF 2 * v < Reg THEN v ELSE v - Reg

SignBit(v, n) == 2 * (v % Span(n)) >= Span(n)
SignExtend64(v, n) == IF SignBit(v, n) THEN (v % Span(n)) + (Reg - Span(n)) ELSE v

Bits(v) == {b \in 0 .. 8 * UnitBits - 1 : (v \div Pow2[b]) % 2 = 1}
BitCount(v) == Cardinality(Bits(v))

\* address | MapMemAddy, of u32s.
BitOr(x, y) ==
  LET or[b \in 0 .. 4 * UnitBits] ==
        IF b = 0 THEN 0
        ELSE or[b - 1] + (IF b - 1 \in Bits(x) \cup Bits(y) THEN Pow2[b - 1] ELSE 0)
  IN  or[4 * UnitBits]

\* "counted from left to right"
ByteFromU64(v, i)  == (v \div Span(7 - i)) % Span(1)
ShortFromU64(v, i) == (v \div Span(6 - 2 * i)) % Span(2)
WordFromU64(v, i)  == (v \div Span(4 - 4 * i)) % Span(4)

-----------------------------------------------------------------------------
(* GetSearchValues.  ram is a function from file offsets to bytes.         *)

LittleEndian(ram, a, n) ==
  LET low[i \in 0 .. n] == IF i = 0 THEN 0 ELSE low[i - 1] + ram[a + i - 1] * Span(i - 1)
  IN  low[n]

\* SEARCH_ACCESS_ARRAY: a doubleword is MAKEU64 of the word at a + 4 and the
\* word at a, whose first argument is the low half.
ArrayValue(ram, a, n) ==
  IF n = 8 THEN LittleEndian(ram, a + 4, 4) + LittleEndian(ram, a, 4) * Span(4)
           ELSE LittleEndian(ram, a, n)

\* getw() returns an int, which becomes a u64 by sign extension.
Getw(ram, a) == SignExtend64(LittleEndian(ram, a, 4), 4)

\* ((u64)high << 32) | low, low being such a u64.
Join(high, low) == IF SignBit(low, 4) THEN low ELSE (high % Span(4)) * Span(4) + low

\* SEARCH_ACCESS_FILE: C leaves open which getc() or getw() of an expression is
\* called first; ltr says the build calls the left one first.
FileValue(ltr, ram, a, n) ==
  CASE n = 1 -> ram[a]
    [] n = 2 -> IF ltr THEN ram[a] + ram[a + 1] * Span(1) ELSE ram[a + 1] + ram[a] * Span(1)
    [] n = 4 -> Getw(ram, a)
    [] n = 8 -> IF ltr THEN Join(Getw(ram, a), Getw(ram, a + 4))
                       ELSE Join(Getw(ram, a + 4), Getw(ram, a))

GetSearchValues(access, ltr, ram, a, n) ==
  IF access = "array" THEN ArrayValue(ram, a, n) ELSE FileValue(ltr, ram, a, n)

-----------------------------------------------------------------------------
(* CodeSearchEx: the extended options.                                     *)

ConsecFlags == {"EXCLUDE_CONSEC", "EXCLUDE_CONSEC_MATCH_VALUES",
                "INCLUDE_CONSEC", "INCLUDE_CONSEC_MATCH_VALUES"}

\* The four options on consecutive results share one slot of ValuesEx1.
Slot(f) == IF f \in ConsecFlags THEN "CONSEC" ELSE f
Ex1(S, f) == S.ValuesEx1[Slot(f)]
Ex2(S, f) == S.ValuesEx2[Slot(f)]

\* The shorts and words of NewValue an option looks at, and its parts.
Shorts(a, n) == CASE n = 8 -> 0 .. 3
                  [] n = 4 -> {(a % 8) \div 4, (a % 8) \div 4 + 1}
                  [] n < 4 -> {(a % 8) \div 2}
\* A bug to be caught: only the word the address points at.
Words_Bug(a, n) == {(a % 8) \div 4}
Words(a, n) == IF n = 8 THEN {0, 1} ELSE {(a % 8) \div 4}

Parts(part, a, v, n) ==
  CASE part = "BYTE"  -> {ByteFromU64(v, 7 - i) : i \in 0 .. n - 1}
    [] part = "SHORT" -> {ShortFromU64(v, i) : i \in Shorts(a, n)}
    [] part = "WORD"  -> {WordFromU64(v, i) : i \in Words(a, n)}
    [] part = "DWORD" -> {v}

IGNORE_VALUE(part) ==
  [BYTE |-> "IGNORE_BYTE_VALUE", SHORT |-> "IGNORE_SHORT_VALUE",
   WORD |-> "IGNORE_WORD_VALUE", DWORD |-> "IGNORE_DWORD_VALUE"][part]
IGNORE_RANGE(part) ==
  [BYTE |-> "IGNORE_BYTE_RANGE", SHORT |-> "IGNORE_SHORT_RANGE",
   WORD |-> "IGNORE_WORD_RANGE", DWORD |-> "IGNORE_DWORD_RANGE"][part]

Within(x, low, high) == low <= x /\ x <= high

Ignored(S, mapMemAddy, a, v) ==
  \/ /\ "INCLUDE_ADDRESS_RANGE" \in S.TypeEx
     /\ ~Within(BitOr(a, mapMemAddy), Ex1(S, "INCLUDE_ADDRESS_RANGE"), Ex2(S, "INCLUDE_ADDRESS_RANGE"))
  \/ "IGNORE_0" \in S.TypeEx /\ v = 0
  \/ "IGNORE_FF" \in S.TypeEx /\ v = Span(S.Size) - 1
  \/ "IGNORE_VALUE" \in S.TypeEx /\ v = Ex1(S, "IGNORE_VALUE")
  \/ /\ "IGNORE_IN_RANGE" \in S.TypeEx
     /\ Within(v, Ex1(S, "IGNORE_IN_RANGE"), Ex2(S, "IGNORE_IN_RANGE"))
  \/ /\ "IGNORE_NOT_RANGE" \in S.TypeEx
     /\ (v <= Ex1(S, "IGNORE_NOT_RANGE") \/ v >= Ex2(S, "IGNORE_NOT_RANGE"))
  \/ \E part \in {"BYTE", "SHORT", "WORD", "DWORD"} :
       \/ /\ IGNORE_VALUE(part) \in S.TypeEx
          /\ Ex1(S, IGNORE_VALUE(part)) \in Parts(part, a, v, S.Size)
       \/ /\ IGNORE_RANGE(part) \in S.TypeEx
          /\ \E x \in Parts(part, a, v, S.Size) :
               Within(x, Ex1(S, IGNORE_RANGE(part)), Ex2(S, IGNORE_RANGE(part)))
  \/ "EXCLUDE_UPPER16" \in S.TypeEx /\ S.Size = 2 /\ a % 4 = 0
  \/ "EXCLUDE_LOWER16" \in S.TypeEx /\ S.Size = 2 /\ a % 4 # 0

-----------------------------------------------------------------------------
(* CodeSearch: the condition under which a type of search turns a result   *)
(* OFF.  n and o are NewValue and OldValue, v0 and v1 are Values[0..1],    *)
(* all sign-extended in a signed search.  (s64)x op y with a u64 y is done *)
(* in u64, so that only the comparisons of n with o are ever signed.       *)

\* A bug to be caught: no cast to s64.
Leq_Bug(S, x, y) == x <= y
Leq(S, x, y) == IF "SIGNED" \in S.TypeEx THEN S64(x) <= S64(y) ELSE x <= y

TurnedOff(S, n, o, v0, v1) ==
  LET up == U64(o + v0)
      down == U64(o - v0)
  IN CASE S.Type = "KNOWN"         -> n # v0
       [] S.Type = "KNOWN_WILD"    -> Bits(n) \cap Bits(v1) # Bits(v0)
       [] S.Type = "GREATER"       -> Leq(S, n, o)
       [] S.Type = "GREATER_BY"    -> n # up
       [] S.Type = "GREATER_LEAST" -> n < up
       [] S.Type = "GREATER_MOST"  -> n > up \/ Leq(S, n, o)
       [] S.Type = "LESS"          -> Leq(S, o, n)
       [] S.Type = "LESS_BY"       -> n # down
       [] S.Type = "LESS_LEAST"    -> n > down
       [] S.Type = "LESS_MOST"     -> n < down \/ Leq(S, o, n)
       [] S.Type = "EQUAL"         -> n # o
       [] S.Type = "EQUAL_NUM_BITS" -> BitCount(n) # v0
       [] S.Type = "NEQUAL"        -> n = o
       [] S.Type = "NEQUAL_TO"     -> n = v0
       [] S.Type = "NEQUAL_BY"     -> n # down /\ n # up
       [] S.Type = "NEQUAL_LEAST"  -> n > down /\ n < up
       [] S.Type = "NEQUAL_MOST"   -> n < down \/ n > up \/ n = o
       [] S.Type = "NEQUAL_TO_BITS" -> BitCount(n) = v0
       [] S.Type = "NEQUAL_BY_BITS" ->
            Cardinality((Bits(n) \ Bits(o)) \cup (Bits(o) \ Bits(n))) # v0
       [] S.Type = "IN_RANGE"      -> n <= v0 \/ n > v1
       [] S.Type = "NOT_RANGE"     -> n >= v0 /\ n <= v1
       [] S.Type = "BITS_ANY"      -> Bits(n) \cap Bits(v0) = {}
       [] S.Type = "BITS_ALL"      -> ~(Bits(v0) \subseteq Bits(n))

\* What the loop compares: values as they are, or sign-extended.
Operand(S, v) == IF "SIGNED" \in S.TypeEx THEN SignExtend64(v, S.Size) ELSE v

\* A bug to be caught: a filter that returns 0 without SetBitFlag.
Verdict_Bug(S, mapMemAddy, a, n, o) ==
  IF Ignored(S, mapMemAddy, a, n) THEN "skip"
  ELSE IF TurnedOff(S, Operand(S, n), Operand(S, o),
                    Operand(S, S.Values[0]), Operand(S, S.Values[1])) THEN "off"
  ELSE "keep"

\* The loop body for the result at address a: "skip" keeps it without counting.
Verdict(S, mapMemAddy, a, n, o) ==
  IF Ignored(S, mapMemAddy, a, n) THEN "off"
  ELSE IF "OR_EQUAL" \in S.TypeEx /\ n = o THEN "skip"
  ELSE IF TurnedOff(S, Operand(S, n), Operand(S, o),
                    Operand(S, S.Values[0]), Operand(S, S.Values[1])) THEN "off"
  ELSE "keep"

-----------------------------------------------------------------------------
(* FilterResultsEx: runs of consecutive results are turned off.  A run     *)
(* that starts at address ends before the first i that breaks it; while a  *)
(* run is cleared, address advances by one byte at a time and so does the  *)
(* decrement of ResCount.  After a run that stays, address = i is followed *)
(* by the loop's own increment.                                            *)

\* i after the inner loop, for a run that starts at a; dumpSize is a multiple of Size.
RunEnd(S, dumpSize, nv, results, a) ==
  LET match == S.TypeEx \cap {"EXCLUDE_CONSEC_MATCH_VALUES", "INCLUDE_CONSEC_MATCH_VALUES"} # {}
      Breaks(i) == i \notin results \/ (match /\ nv[i] # nv[a])
      stops == {i \in a + 1 .. dumpSize - 1 : (i - a) % S.Size = 0 /\ Breaks(i)}
  IN  IF stops = {} THEN dumpSize ELSE CHOOSE i \in stops : \A j \in stops : i <= j

\* A bug to be caught: runs of exactly # results stay.
RunIsCleared_Bug(S, matches) ==
  \/ /\ S.TypeEx \cap {"EXCLUDE_CONSEC", "EXCLUDE_CONSEC_MATCH_VALUES"} # {}
     /\ matches > Ex1(S, "EXCLUDE_CONSEC")
  \/ /\ S.TypeEx \cap {"INCLUDE_CONSEC", "INCLUDE_CONSEC_MATCH_VALUES"} # {}
     /\ matches <= Ex1(S, "INCLUDE_CONSEC")

RunIsCleared(S, matches) ==
  \/ /\ S.TypeEx \cap {"EXCLUDE_CONSEC", "EXCLUDE_CONSEC_MATCH_VALUES"} # {}
     /\ matches >= Ex1(S, "EXCLUDE_CONSEC")
  \/ /\ S.TypeEx \cap {"INCLUDE_CONSEC", "INCLUDE_CONSEC_MATCH_VALUES"} # {}
     /\ matches <= Ex1(S, "INCLUDE_CONSEC")

\* A bug to be caught: ResCount as a signed number.
ConsecCount_Bug(S, count, cleared) == count - S.Size * Cardinality(cleared)
ConsecCount(S, count, cleared) == (count - S.Size * Cardinality(cleared)) % CountMod

FilterResultsEx(S, dumpSize, nv, results, count) ==
  LET Cleared[a \in 0 .. dumpSize + S.Size] ==
        IF a >= dumpSize THEN {}
        ELSE IF a \notin results THEN Cleared[a + S.Size]
        ELSE LET i == RunEnd(S, dumpSize, nv, results, a)
             IN  IF RunIsCleared(S, (i - a) \div S.Size)
                 THEN {b \in results : a <= b /\ b < i} \cup Cleared[i]
                 ELSE Cleared[i + S.Size]
  IN  [Results |-> results \ Cleared[0],
       ResCount |-> ConsecCount(S, count, Cleared[0])]

\* The whole of CodeSearch, for the values nv and ov of the addresses.
CodeSearch(S, dumpSize, mapMemAddy, nv, ov, results) ==
  LET verdict == [a \in results |-> Verdict(S, mapMemAddy, a, nv[a], ov[a])]
      left == {a \in results : verdict[a] # "off"}
      count == Cardinality({a \in results : verdict[a] = "keep"})
  IN  IF S.TypeEx \cap ConsecFlags = {}
      THEN [Results |-> left, ResCount |-> count]
      ELSE FilterResultsEx(S, dumpSize, nv, left, count)
=============================================================================
