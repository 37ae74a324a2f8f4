------------------------- MODULE SearchCheck_proofs -------------------------
(***************************************************************************)
(* Proofs about one call of CodeSearch.  Searched says that the call has   *)
(* one of the shapes of Init and that the results are what CodeSearch      *)
(* returns for it; the properties are then statements about SearchLib.     *)
(* Its recursive functions (Pow2, LittleEndian, BitOr, FilterResultsEx)    *)
(* are shown to obey their equations first, each by way of the least       *)
(* argument where it would not.                                            *)
(***************************************************************************)
EXTENDS SearchCheck, FiniteSetTheorems, WellFoundedInduction, TLAPS

USE DEF Addresses

-----------------------------------------------------------------------------
(* The recursion of FilterResultsEx.                                       *)

\* What the loop clears from address a on, where a run would end before i, when g
\* says what it clears from the later addresses on.
ClearsRun(T, R, g, a, i) ==
  IF a \notin R THEN g[a + T.Size]
  ELSE IF RunIsCleared(T, (i - a) \div T.Size)
       THEN {b \in R : a <= b /\ b < i} \cup g[i]
       ELSE g[i + T.Size]

ClearsAt(T, d, nv, R, g, a) ==
  IF a >= d THEN {} ELSE ClearsRun(T, R, g, a, RunEnd(T, d, nv, R, a))

Clearing(T, d, nv, R) ==
  CHOOSE g : g = [a \in 0 .. d + T.Size |-> ClearsAt(T, d, nv, R, g, a)]

\* FilterResultsEx takes away what the recursion clears from address 0 on.
LEMMA FilterClears ==
  ASSUME NEW T, NEW d, NEW nv, NEW R, NEW c
  PROVE FilterResultsEx(T, d, nv, R, c) =
          [Results |-> R \ Clearing(T, d, nv, R)[0],
           ResCount |-> ConsecCount(T, c, Clearing(T, d, nv, R)[0])]
  BY DEF FilterResultsEx, Clearing, ClearsAt, ClearsRun

\* A run ends after its start, inside the dump.
LEMMA RunEnds ==
  ASSUME NEW T, NEW d \in Nat, NEW nv, NEW R, NEW a \in 0 .. d - 1
  PROVE RunEnd(T, d, nv, R, a) \in a + 1 .. d
<1> DEFINE match == T.TypeEx \cap {"EXCLUDE_CONSEC_MATCH_VALUES", "INCLUDE_CONSEC_MATCH_VALUES"} # {}
           Breaks(i) == i \notin R \/ (match /\ nv[i] # nv[a])
           stops == {i \in a + 1 .. d - 1 : (i - a) % T.Size = 0 /\ Breaks(i)}
<1>1. RunEnd(T, d, nv, R, a) = IF stops = {} THEN d ELSE CHOOSE i \in stops : \A j \in stops : i <= j
  BY DEF RunEnd
<1>2. stops \subseteq a + 1 .. d - 1
  OBVIOUS
<1> HIDE DEF stops
<1>3. CASE stops = {}
  BY <1>1, <1>3
<1>4. CASE stops # {}
  <2>0. stops \subseteq Nat
    BY <1>2
  <2>1. PICK i \in stops : \A j \in stops : ~(<<j, i>> \in OpToRel(<, Nat))
    BY <2>0, <1>4, NatLessThanWellFounded, WFMin
  <2>2. \A j \in stops : i <= j
    <3> TAKE j \in stops
    <3>1. i \in Nat /\ j \in Nat /\ ~(j < i)
      BY <2>0, <2>1 DEF OpToRel
    <3> QED
      BY <3>1
  <2>3. RunEnd(T, d, nv, R, a) \in stops
    BY <1>1, <1>4, <2>2
  <2>4. RunEnd(T, d, nv, R, a) \in a + 1 .. d - 1
    BY <1>2, <2>3
  <2> QED
    BY <2>4
<1> QED
  BY <1>3, <1>4

\* g and h agree after a.
AgreeAfter(T, d, g, h, a) == \A b \in 0 .. d + T.Size : a < b => g[b] = h[b]

\* The recursion looks at three later places at most.
LEMMA ClearsFrom ==
  ASSUME NEW T, NEW d \in Nat, NEW nv, NEW R, T.Size \in Nat \ {0}, NEW a \in 0 .. d - 1
  PROVE  \E i \in a + 1 .. d : \A g :
           ClearsAt(T, d, nv, R, g, a) = ClearsRun(T, R, g, a, i)
<1> DEFINE i == RunEnd(T, d, nv, R, a)
<1>1. i \in a + 1 .. d
  BY RunEnds
<1>2. ~(a >= d)
  OBVIOUS
<1> QED
  BY <1>1, <1>2 DEF ClearsAt

\* What is cleared from an address on is results ...
LEMMA ClearsResults ==
  ASSUME NEW T, NEW d \in Nat, NEW nv, NEW R, T.Size \in Nat \ {0},
         NEW g \in [0 .. d + T.Size -> SUBSET R], NEW a \in 0 .. d + T.Size
  PROVE  ClearsAt(T, d, nv, R, g, a) \in SUBSET R
<1>1. CASE a >= d
  BY <1>1 DEF ClearsAt
<1>2. CASE a < d
  <2>1. a \in 0 .. d - 1
    BY <1>2
  <2>2. PICK i \in a + 1 .. d :
          ClearsAt(T, d, nv, R, g, a) = ClearsRun(T, R, g, a, i)
    BY <2>1, ClearsFrom
  <2>3. /\ g[a + T.Size] \in SUBSET R /\ g[i] \in SUBSET R /\ g[i + T.Size] \in SUBSET R
        /\ {b \in R : a <= b /\ b < i} \in SUBSET R
    BY <2>1
  <2> QED
    BY <2>2, <2>3 DEF ClearsRun
<1> QED
  BY <1>1, <1>2

\* ... and depends on later addresses only.
LEMMA ClearsLater ==
  ASSUME NEW T, NEW d \in Nat, NEW nv, NEW R, T.Size \in Nat \ {0}, NEW g, NEW h,
         NEW a \in 0 .. d + T.Size, AgreeAfter(T, d, g, h, a)
  PROVE  ClearsAt(T, d, nv, R, g, a) = ClearsAt(T, d, nv, R, h, a)
<1>1. CASE a >= d
  BY <1>1 DEF ClearsAt
<1>2. CASE a < d
  <2>1. a \in 0 .. d - 1
    BY <1>2
  <2>2. PICK i \in a + 1 .. d : \A f :
          ClearsAt(T, d, nv, R, f, a) = ClearsRun(T, R, f, a, i)
    BY <2>1, ClearsFrom
  <2>3. g[a + T.Size] = h[a + T.Size] /\ g[i] = h[i] /\ g[i + T.Size] = h[i + T.Size]
    BY <2>1 DEF AgreeAfter
  <2> QED
    BY <2>2, <2>3, Zenon DEF ClearsRun
<1> QED
  BY <1>1, <1>2

\* g follows the recursion in its last k places.
Follow(T, d, nv, R, k) ==
  \E g \in [0 .. d + T.Size -> SUBSET R] :
    \A a \in 0 .. d + T.Size : a + k > d + T.Size => g[a] = ClearsAt(T, d, nv, R, g, a)

\* One more place.
LEMMA FollowOn ==
  ASSUME NEW T, NEW d \in Nat, NEW nv, NEW R, T.Size \in Nat \ {0}, NEW k \in Nat,
         Follow(T, d, nv, R, k)
  PROVE  Follow(T, d, nv, R, k + 1)
<1> DEFINE D == 0 .. d + T.Size
           p == d + T.Size - k
<1>1. PICK g \in [D -> SUBSET R] : \A a \in D : a > p => g[a] = ClearsAt(T, d, nv, R, g, a)
  BY DEF Follow
<1>2. CASE p \notin D
  <2>1. \A a \in D : a > p
    BY <1>2
  <2> QED
    BY <1>1, <2>1 DEF Follow
<1>3. CASE p \in D
  <2> DEFINE h == [g EXCEPT ![p] = ClearsAt(T, d, nv, R, g, p)]
  <2>1. ClearsAt(T, d, nv, R, g, p) \in SUBSET R
    BY <1>3, ClearsResults DEF AgreeAfter
  <2>2. h \in [D -> SUBSET R]
    BY <2>1
  <2>3. h[p] = ClearsAt(T, d, nv, R, g, p) /\ \A b \in D : b # p => h[b] = g[b]
    BY <1>3
  <2> HIDE DEF h
  <2>4. ASSUME NEW a \in D, a >= p
        PROVE  h[a] = ClearsAt(T, d, nv, R, h, a)
    <3>1. ASSUME NEW b \in 0 .. d + T.Size, a < b
          PROVE  g[b] = h[b]
      <4>1. b \in Int /\ a \in Int /\ p \in Int /\ a >= p
        BY <2>4
      <4>2. b # p
        BY <3>1, <4>1
      <4> QED
        BY <2>3, <4>2
    <3>2. AgreeAfter(T, d, g, h, a)
      BY <3>1 DEF AgreeAfter
    <3>3. ClearsAt(T, d, nv, R, g, a) = ClearsAt(T, d, nv, R, h, a)
      BY <3>2, ClearsLater
    <3>4. CASE a = p
      BY <2>3, <3>3, <3>4
    <3>5. CASE a > p
      BY <1>1, <2>3, <3>3, <3>5
    <3> QED
      BY <2>4, <3>4, <3>5
  <2> QED
    BY <2>2, <2>4 DEF Follow
<1> QED
  BY <1>2, <1>3

\* The recursion defines a function: what it clears are results.
LEMMA ClearingDefined ==
  ASSUME NEW T, NEW d \in Nat, NEW nv, NEW R, T.Size \in Nat \ {0}
  PROVE  /\ Clearing(T, d, nv, R) \in [0 .. d + T.Size -> SUBSET R]
         /\ \A a \in 0 .. d + T.Size :
              Clearing(T, d, nv, R)[a] = ClearsAt(T, d, nv, R, Clearing(T, d, nv, R), a)
<1> DEFINE D == 0 .. d + T.Size
           Short == {k \in Nat : ~Follow(T, d, nv, R, k)}
<1>1. Follow(T, d, nv, R, 0)
  <2>1. [a \in D |-> {}] \in [D -> SUBSET R]
    OBVIOUS
  <2>2. \A a \in D : ~(a + 0 > d + T.Size)
    OBVIOUS
  <2> QED
    BY <2>1, <2>2 DEF Follow
<1>2. Short = {}
  <2>1. SUFFICES ASSUME Short # {} PROVE FALSE
    OBVIOUS
  <2>2. PICK k \in Short : \A j \in Short : ~(<<j, k>> \in OpToRel(<, Nat))
    BY <2>1, NatLessThanWellFounded, WFMin
  <2>3. k \in Nat /\ k # 0 /\ ~Follow(T, d, nv, R, k)
    BY <1>1
  <2>4. k - 1 \in Nat /\ k - 1 < k /\ (k - 1) + 1 = k
    BY <2>3
  <2>5. k - 1 \notin Short
    BY <2>2, <2>3, <2>4 DEF OpToRel
  <2>6. Follow(T, d, nv, R, k - 1)
    BY <2>4, <2>5
  <2> QED
    BY <2>3, <2>4, <2>6, FollowOn
<1>3. Follow(T, d, nv, R, d + T.Size + 1)
  BY <1>2
<1>4. PICK g \in [D -> SUBSET R] : \A a \in D : g[a] = ClearsAt(T, d, nv, R, g, a)
  BY <1>3 DEF Follow
<1>5. g = [a \in D |-> ClearsAt(T, d, nv, R, g, a)]
  BY <1>4
<1> DEFINE C == Clearing(T, d, nv, R)
<1>6. C = [a \in D |-> ClearsAt(T, d, nv, R, C, a)]
  BY <1>5, Zenon DEF Clearing
<1> HIDE DEF C
<1>7. \A a \in D : C[a] = ClearsAt(T, d, nv, R, C, a)
  BY <1>6, Zenon
<1> DEFINE Other == {k \in Nat : d + T.Size - k \in D /\ g[d + T.Size - k] # C[d + T.Size - k]}
<1>8. Other = {}
  <2>1. SUFFICES ASSUME Other # {} PROVE FALSE
    OBVIOUS
  <2>2. PICK k \in Other : \A j \in Other : ~(<<j, k>> \in OpToRel(<, Nat))
    BY <2>1, NatLessThanWellFounded, WFMin
  <2> DEFINE a == d + T.Size - k
  <2>3. k \in Nat /\ a \in D /\ g[a] # C[a]
    OBVIOUS
  <2>4. ASSUME NEW b \in D, a < b
        PROVE  g[b] = C[b]
    <3> DEFINE j == d + T.Size - b
    <3>1. j \in Nat /\ j < k /\ d + T.Size - j = b
      BY <2>3, <2>4
    <3>2. j \notin Other
      BY <2>2, <2>3, <3>1 DEF OpToRel
    <3> QED
      BY <3>1, <3>2
  <2> HIDE DEF a
  <2>5. AgreeAfter(T, d, g, C, a)
    BY <2>4 DEF AgreeAfter
  <2>6. ClearsAt(T, d, nv, R, g, a) = ClearsAt(T, d, nv, R, C, a)
    BY <2>3, <2>5, ClearsLater
  <2> QED
    BY <1>4, <1>7, <2>3, <2>6
<1>9. \A a \in D : g[a] = C[a]
  <2> TAKE a \in D
  <2>1. d + T.Size - a \in Nat /\ d + T.Size - (d + T.Size - a) = a
    OBVIOUS
  <2> QED
    BY <1>8, <2>1
<1>10. C \in [D -> SUBSET R]
  <2>1. \A a \in D : C[a] \in SUBSET R
    BY <1>9
  <2>2. C = [a \in D |-> C[a]]
    BY <1>6, <1>7
  <2> QED
    BY <2>1, <2>2
<1> QED
  BY <1>7, <1>10 DEF C

-----------------------------------------------------------------------------
(* The calls, and what a call returns.                                     *)

\* A dump of one value, through an array or a file.
PointShape ==
  /\ S.Size \in {1, 2, 4, 8} /\ S.TypeEx \in {{}, {"SIGNED"}}
  /\ call.DumpSize = S.Size /\ call.Results = {0}
  /\ call.Access \in {"array", "file"}
  /\ call.New \in [0 .. S.Size - 1 -> Bytes]
  /\ call.Old = NoDump \/ call.Old \in [0 .. S.Size - 1 -> Bytes]
  /\ \/ S.Type \in SearchTypes /\ S.Values[0] \in Numbers(S.Size)
     \/ /\ S.Type \in RangeTypes
        /\ S.Values[0] \in Numbers(S.Size) /\ S.Values[1] \in Numbers(S.Size)
     \/ /\ S.Type = "KNOWN_WILD"
        /\ \E wild \in 0 .. Span(S.Size) - 1 :
             /\ S.Values[0] \in {v \in 0 .. Span(S.Size) - 1 : Bits(v) \cap Bits(wild) = {}}
             /\ S.Values[1] = Reg - 1 - wild

\* A search for nothing with one extended option.
OneOption(f) ==
  /\ S.TypeEx = {f}
  /\ S.Type = "BITS_ALL" /\ S.Values[0] = 0
  /\ S.Size \in {1, 2, 4, 8}
  /\ call.Access = "array"

\* Eight bytes, and a filter.
FilterShape ==
  \E f \in Filters :
    /\ OneOption(f)
    /\ call.DumpSize = 8 /\ call.Results = Addresses(8, S.Size)
    /\ call.New \in [0 .. 7 -> Bytes]
    /\ call.MapMemAddy \in IF f \in AddressFilters THEN FilterAddys ELSE {0}
    /\ Ex1(S, f) \in Numbers(FilterBytes(f, S.Size))
    /\ Ex2(S, f) \in Numbers(FilterBytes(f, S.Size))

\* Some results left, and an option on consecutive results.
ConsecShape ==
  \E f \in ConsecFlags :
    /\ OneOption(f)
    /\ call.DumpSize \in 0 .. CountMod - 1 /\ call.DumpSize % S.Size = 0
    /\ call.Results \subseteq Addresses(call.DumpSize, S.Size)
    /\ Ex1(S, f) \in 0 .. MaxConsec

Shape == PointShape \/ FilterShape \/ ConsecShape

\* What CodeSearch returns for the call.
Found(junk) ==
  LET nv == ValuesOf(call.New)
      ov == IF call.Old = NoDump THEN [a \in DOMAIN nv |-> junk] ELSE ValuesOf(call.Old)
  IN  CodeSearch(call.S, call.DumpSize, call.MapMemAddy, nv, ov, call.Results)

Searched ==
  /\ Shape
  /\ pc \in {"search", "done"}
  /\ pc = "search" => results = call.Results /\ resCount = 0
  /\ pc = "done" => \E junk : results = Found(junk).Results /\ resCount = Found(junk).ResCount

\* What a call of Init's hands over ...
LEMMA Called ==
  ASSUME NEW type, NEW typeEx, NEW n, NEW v0, NEW v1, NEW x1, NEW x2, NEW access, NEW ltr,
         NEW new, NEW old, NEW dumpSize, NEW addy, NEW res,
         Call(SearchVars(type, typeEx, n, v0, v1, x1, x2), access, ltr, new, old, dumpSize, addy, res)
  PROVE  /\ S.Type = type /\ S.TypeEx = typeEx /\ S.Size = n
         /\ S.Values[0] = v0 /\ S.Values[1] = v1
         /\ call.Access = access /\ call.New = new /\ call.Old = old
         /\ call.DumpSize = dumpSize /\ call.MapMemAddy = addy /\ call.Results = res
         /\ pc = "search" /\ results = call.Results /\ resCount = 0
<1>1. /\ S = SearchVars(type, typeEx, n, v0, v1, x1, x2)
      /\ call.Access = access /\ call.New = new /\ call.Old = old
      /\ call.DumpSize = dumpSize /\ call.MapMemAddy = addy /\ call.Results = res
      /\ pc = "search" /\ results = call.Results /\ resCount = 0
  BY DEF Call, S
<1>2. /\ S.Type = type /\ S.TypeEx = typeEx /\ S.Size = n
      /\ S.Values[0] = v0 /\ S.Values[1] = v1
  BY <1>1 DEF SearchVars
<1> QED
  BY <1>1, <1>2

\* ... and the numbers that come with an extended option.
LEMMA CalledWith ==
  ASSUME NEW type, NEW typeEx, NEW n, NEW v0, NEW v1, NEW x1, NEW x2, NEW access, NEW ltr,
         NEW new, NEW old, NEW dumpSize, NEW addy, NEW res, NEW f \in typeEx,
         Call(SearchVars(type, typeEx, n, v0, v1, x1, x2), access, ltr, new, old, dumpSize, addy, res)
  PROVE  Ex1(S, f) = x1 /\ Ex2(S, f) = x2
<1>1. S = SearchVars(type, typeEx, n, v0, v1, x1, x2)
  BY DEF Call, S
<1>2. /\ S.ValuesEx1 = [g \in {Slot(h) : h \in typeEx} |-> x1]
      /\ S.ValuesEx2 = [g \in {Slot(h) : h \in typeEx} |-> x2]
  BY <1>1 DEF SearchVars
<1> QED
  BY <1>2 DEF Ex1, Ex2

\* Every call has one of the shapes.
LEMMA InitShape == Init => Shape /\ pc = "search" /\ results = call.Results /\ resCount = 0
<1>1. ASSUME NEW n \in PointSizes, NEW signed \in {{}, {"SIGNED"}}, NEW type, NEW v0, NEW v1,
             NEW access \in {"array", "file"}, NEW ltr, NEW new \in [0 .. n - 1 -> Bytes], NEW old,
             PointCall(type, signed, n, v0, v1, access, ltr, new, old),
             old = NoDump \/ old \in [0 .. n - 1 -> Bytes],
             \/ type \in SearchTypes /\ v0 \in Numbers(n)
             \/ type \in RangeTypes /\ v0 \in Numbers(n) /\ v1 \in Numbers(n)
             \/ /\ type = "KNOWN_WILD"
                /\ \E wild \in 0 .. Span(n) - 1 :
                     /\ v0 \in {v \in 0 .. Span(n) - 1 : Bits(v) \cap Bits(wild) = {}}
                     /\ v1 = Reg - 1 - wild
      PROVE  Shape /\ pc = "search" /\ results = call.Results /\ resCount = 0
  <2>1. n \in {1, 2, 4, 8}
    BY SearchCheckAssumption
  <2>2. /\ S.Type = type /\ S.TypeEx = signed /\ S.Size = n
        /\ S.Values[0] = v0 /\ S.Values[1] = v1
        /\ call.Access = access /\ call.New = new /\ call.Old = old
        /\ call.DumpSize = n /\ call.Results = {0}
        /\ pc = "search" /\ results = call.Results /\ resCount = 0
    <3>1. Call(SearchVars(type, signed, n, v0, v1, 0, 0), access, ltr, new, old, n, 0, {0})
      BY <1>1, Zenon DEF PointCall
    <3> QED
      BY <3>1, Called
  <2> QED
    BY <1>1, <2>1, <2>2 DEF Shape, PointShape
<1>2. PointInit => Shape /\ pc = "search" /\ results = call.Results /\ resCount = 0
  <2>1. SUFFICES ASSUME NEW n \in PointSizes, NEW signed \in {{}, {"SIGNED"}},
                        NEW new \in [0 .. n - 1 -> Bytes],
                 \/ \E v0 \in Numbers(n), type \in SearchTypes, old \in [0 .. n - 1 -> Bytes] :
                      PointCall(type, signed, n, v0, 0, "array", TRUE, new, old)
                 \/ \E v0 \in Numbers(n), type \in SearchTypes \ NeedsOldDump :
                      PointCall(type, signed, n, v0, 0, "array", TRUE, new, NoDump)
                 \/ \E v0 \in Numbers(n), v1 \in Numbers(n), type \in RangeTypes :
                      PointCall(type, signed, n, v0, v1, "array", TRUE, new, NoDump)
                 \/ \E wild \in 0 .. Span(n) - 1 :
                    \E v0 \in {v \in 0 .. Span(n) - 1 : Bits(v) \cap Bits(wild) = {}} :
                      PointCall("KNOWN_WILD", signed, n, v0, Reg - 1 - wild, "array", TRUE, new, NoDump)
                 PROVE  Shape /\ pc = "search" /\ results = call.Results /\ resCount = 0
    BY Zenon DEF PointInit
  <2>2. CASE \E v0 \in Numbers(n), type \in SearchTypes, old \in [0 .. n - 1 -> Bytes] :
               PointCall(type, signed, n, v0, 0, "array", TRUE, new, old)
    BY <1>1, <2>2
  <2>3. CASE \E v0 \in Numbers(n), type \in SearchTypes \ NeedsOldDump :
               PointCall(type, signed, n, v0, 0, "array", TRUE, new, NoDump)
    BY <1>1, <2>3
  <2>4. CASE \E v0 \in Numbers(n), v1 \in Numbers(n), type \in RangeTypes :
               PointCall(type, signed, n, v0, v1, "array", TRUE, new, NoDump)
    BY <1>1, <2>4
  <2>5. CASE \E wild \in 0 .. Span(n) - 1 :
             \E v0 \in {v \in 0 .. Span(n) - 1 : Bits(v) \cap Bits(wild) = {}} :
               PointCall("KNOWN_WILD", signed, n, v0, Reg - 1 - wild, "array", TRUE, new, NoDump)
    BY <1>1, <2>5
  <2> QED
    BY <2>1, <2>2, <2>3, <2>4, <2>5
<1>3. FileInit => Shape /\ pc = "search" /\ results = call.Results /\ resCount = 0
  BY <1>1 DEF FileInit, SearchTypes
<1>4. FilterInit => Shape /\ pc = "search" /\ results = call.Results /\ resCount = 0
  <2>1. SUFFICES ASSUME FilterInit
                 PROVE  Shape /\ pc = "search" /\ results = call.Results /\ resCount = 0
    OBVIOUS
  <2>2. PICK n \in {1, 2, 4, 8}, new \in FilterDumps, f \in Filters :
        \E x1 \in Numbers(FilterBytes(f, n)), x2 \in Numbers(FilterBytes(f, n)),
           addy \in IF f \in AddressFilters THEN FilterAddys ELSE {0} :
          Call(SearchVars("BITS_ALL", {f}, n, 0, 0, x1, x2), "array", TRUE, new, NoDump, 8, addy,
               Addresses(8, n))
    BY <2>1, Zenon DEF FilterInit
  <2>3. PICK x1 \in Numbers(FilterBytes(f, n)), x2 \in Numbers(FilterBytes(f, n)),
             addy \in IF f \in AddressFilters THEN FilterAddys ELSE {0} :
          Call(SearchVars("BITS_ALL", {f}, n, 0, 0, x1, x2), "array", TRUE, new, NoDump, 8, addy,
               Addresses(8, n))
    BY <2>2, Zenon
  <2>4. /\ S.Type = "BITS_ALL" /\ S.TypeEx = {f} /\ S.Size = n
        /\ S.Values[0] = 0 /\ Ex1(S, f) = x1 /\ Ex2(S, f) = x2
        /\ call.Access = "array" /\ call.New = new
        /\ call.DumpSize = 8 /\ call.MapMemAddy = addy /\ call.Results = Addresses(8, n)
        /\ pc = "search" /\ results = call.Results /\ resCount = 0
    <3> DEFINE typeEx == {f}
               res == Addresses(8, n)
               ltr == TRUE
    <3>1. f \in typeEx
      OBVIOUS
    <3>2. Call(SearchVars("BITS_ALL", typeEx, n, 0, 0, x1, x2), "array", ltr, new, NoDump, 8, addy, res)
      BY <2>3
    <3> HIDE DEF typeEx, res, ltr
    <3>3. /\ S.Type = "BITS_ALL" /\ S.TypeEx = typeEx /\ S.Size = n
          /\ S.Values[0] = 0
          /\ call.Access = "array" /\ call.New = new
          /\ call.DumpSize = 8 /\ call.MapMemAddy = addy /\ call.Results = res
          /\ pc = "search" /\ results = call.Results /\ resCount = 0
      BY <3>2, Called
    <3>4. Ex1(S, f) = x1 /\ Ex2(S, f) = x2
      BY <3>1, <3>2, CalledWith
    <3> QED
      BY <3>3, <3>4 DEF typeEx, res
  <2>5. new \in [0 .. 7 -> Bytes]
    BY SearchCheckAssumption
  <2> QED
    BY <2>3, <2>4, <2>5, Zenon DEF Shape, FilterShape, OneOption
<1>5. ConsecInit => Shape /\ pc = "search" /\ results = call.Results /\ resCount = 0
  <2>1. SUFFICES ASSUME ConsecInit
                 PROVE  Shape /\ pc = "search" /\ results = call.Results /\ resCount = 0
    OBVIOUS
  <2>2. PICK shape \in ConsecShapes, f \in ConsecFlags, x \in 0 .. MaxConsec :
          \E left \in SUBSET Addresses(shape[2], shape[1]), ones \in SUBSET Addresses(shape[2], shape[1]) :
            Call(SearchVars("BITS_ALL", {f}, shape[1], 0, 0, x, 0), "array", TRUE,
                 [i \in 0 .. shape[2] - 1 |-> IF i \in ones THEN 1 ELSE 0], NoDump, shape[2], 0, left)
    BY <2>1, Zenon DEF ConsecInit
  <2>3. PICK left \in SUBSET Addresses(shape[2], shape[1]), ones \in SUBSET Addresses(shape[2], shape[1]) :
            Call(SearchVars("BITS_ALL", {f}, shape[1], 0, 0, x, 0), "array", TRUE,
                 [i \in 0 .. shape[2] - 1 |-> IF i \in ones THEN 1 ELSE 0], NoDump, shape[2], 0, left)
    BY <2>2, Zenon
  <2>4. /\ S.Type = "BITS_ALL" /\ S.TypeEx = {f} /\ S.Size = shape[1]
        /\ S.Values[0] = 0 /\ Ex1(S, f) = x
        /\ call.Access = "array"
        /\ call.DumpSize = shape[2] /\ call.Results = left
        /\ pc = "search" /\ results = call.Results /\ resCount = 0
    <3> DEFINE typeEx == {f}
               new == [i \in 0 .. shape[2] - 1 |-> IF i \in ones THEN 1 ELSE 0]
               ltr == TRUE
    <3>1. f \in typeEx
      OBVIOUS
    <3>2. Call(SearchVars("BITS_ALL", typeEx, shape[1], 0, 0, x, 0), "array", ltr,
               new, NoDump, shape[2], 0, left)
      BY <2>3
    <3> HIDE DEF typeEx, new, ltr
    <3>3. /\ S.Type = "BITS_ALL" /\ S.TypeEx = typeEx /\ S.Size = shape[1]
          /\ S.Values[0] = 0
          /\ call.Access = "array"
          /\ call.DumpSize = shape[2] /\ call.Results = left
          /\ pc = "search" /\ results = call.Results /\ resCount = 0
      BY <3>2, Called
    <3>4. Ex1(S, f) = x
      BY <3>1, <3>2, CalledWith
    <3> QED
      BY <3>3, <3>4 DEF typeEx
  <2>5. shape[1] \in {1, 2, 4, 8} /\ shape[2] \in 0 .. CountMod - 1 /\ shape[2] % shape[1] = 0
    BY SearchCheckAssumption
  <2> QED
    BY <2>3, <2>4, <2>5, Zenon DEF Shape, ConsecShape, OneOption
<1> QED
  BY <1>2, <1>3, <1>4, <1>5 DEF Init

\* The call stays what it was, and the search returns what CodeSearch finds.
LEMMA SearchedInvariant == Spec => []Searched
<1>1. Init => Searched
  BY InitShape DEF Searched
<1>2. Searched /\ [Next]_vars => Searched'
  <2>1. SUFFICES ASSUME Searched, [Next]_vars PROVE Searched'
    OBVIOUS
  <2>2. call' = call
    BY <2>1 DEF Next, Search, vars
  <2>3. Shape'
    <3>1. Shape
      BY <2>1 DEF Searched
    <3> QED
      BY <2>2, <3>1 DEF Shape, PointShape, FilterShape, ConsecShape, OneOption, S
  <2>4. CASE UNCHANGED vars
    BY <2>1, <2>3, <2>4 DEF Searched, vars, Found, ValuesOf
  <2>5. CASE Search
    <3>1. pc = "search" /\ results = call.Results /\ pc' = "done"
      BY <2>1, <2>5 DEF Searched, Search
    <3>2. \E junk : results' = Found(junk).Results /\ resCount' = Found(junk).ResCount
      BY <2>5, <3>1, Zenon DEF Search, Found
    <3>3. \A junk : Found(junk)' = Found(junk)
      BY <2>2 DEF Found, ValuesOf
    <3> QED
      BY <2>3, <3>1, <3>2, <3>3 DEF Searched
  <2> QED
    BY <2>1, <2>4, <2>5 DEF Next
<1> QED
  BY <1>1, <1>2, PTL DEF Spec

-----------------------------------------------------------------------------
(* Counting.                                                               *)

\* Taking results away leaves as many fewer.
LEMMA Emptier ==
  ASSUME NEW R, IsFiniteSet(R), NEW C \in SUBSET R
  PROVE  /\ IsFiniteSet(C) /\ IsFiniteSet(R \ C)
         /\ Cardinality(R) \in Nat /\ Cardinality(C) \in Nat
         /\ Cardinality(R \ C) = Cardinality(R) - Cardinality(C)
         /\ Cardinality(C) <= Cardinality(R)
<1>1. IsFiniteSet(C) /\ IsFiniteSet(R \ C) /\ C \in SUBSET R /\ R \cap C = C
  BY FS_Subset
<1>2. Cardinality(R) \in Nat /\ Cardinality(C) \in Nat /\ Cardinality(R \ C) \in Nat
  BY <1>1, FS_CardinalityType
<1>3. Cardinality(R \ C) = Cardinality(R) - Cardinality(R \cap C)
  BY FS_Difference
<1> QED
  BY <1>1, <1>2, <1>3

\* A search that counts, of a dump whose addresses fit a u32: what is left is
\* of the old results, ResCount is a u32, and without an option on consecutive
\* results, or with bytes, it is how many are left.
LEMMA SearchCounts ==
  ASSUME NEW T, NEW d \in 0 .. CountMod - 1, NEW m, NEW nv, NEW ov, NEW R \in SUBSET (0 .. d - 1),
         T.Size \in {1, 2, 4, 8}, "OR_EQUAL" \notin T.TypeEx
  PROVE  LET found == CodeSearch(T, d, m, nv, ov, R)
         IN  /\ found.Results \subseteq R
             /\ found.ResCount \in 0 .. CountMod - 1
             /\ T.TypeEx \cap ConsecFlags = {} \/ T.Size = 1
                  => found.ResCount = Cardinality(found.Results)
<1> DEFINE verdict == [a \in R |-> Verdict(T, m, a, nv[a], ov[a])]
           left == {a \in R : verdict[a] # "off"}
           kept == {a \in R : verdict[a] = "keep"}
           count == Cardinality(kept)
           found == CodeSearch(T, d, m, nv, ov, R)
<1>0. CountMod \in Nat \ {0} /\ d \in Nat
  BY SearchLibAssumption
<1>1. found = IF T.TypeEx \cap ConsecFlags = {} THEN [Results |-> left, ResCount |-> count]
              ELSE FilterResultsEx(T, d, nv, left, count)
  BY DEF CodeSearch
<1>2. left = kept
  <2>1. \A a \in R : verdict[a] \in {"off", "keep"}
    BY DEF Verdict
  <2> QED
    BY <2>1
<1>3. left \in SUBSET R
  OBVIOUS
<1> HIDE DEF left, kept, found
<1>4. IsFiniteSet(R) /\ Cardinality(R) <= d
  <2>0. 0 \in Int /\ d - 1 \in Int /\ (IF 0 > d - 1 THEN 0 ELSE (d - 1) - 0 + 1) = d
    BY <1>0
  <2>1. IsFiniteSet(0 .. d - 1) /\ Cardinality(0 .. d - 1) = d
    BY <2>0, FS_Interval
  <2> QED
    BY <2>1, FS_Subset
<1>5. IsFiniteSet(left) /\ Cardinality(left) \in 0 .. CountMod - 1
  <2>1. IsFiniteSet(left) /\ Cardinality(left) <= Cardinality(R) /\ Cardinality(R) \in Nat
    BY <1>3, <1>4, Emptier, FS_Subset
  <2>2. Cardinality(left) \in Nat
    BY <2>1, FS_CardinalityType
  <2> QED
    BY <1>0, <1>4, <2>1, <2>2
<1>6. CASE T.TypeEx \cap ConsecFlags = {}
  <2>1. found.Results = left /\ found.ResCount = count
    BY <1>1, <1>6
  <2> QED
    BY <1>2, <1>3, <1>5, <2>1 DEF found
<1>7. CASE T.TypeEx \cap ConsecFlags # {}
  <2> DEFINE C == Clearing(T, d, nv, left)[0]
  <2>1. found = [Results |-> left \ C, ResCount |-> ConsecCount(T, count, C)]
    BY <1>1, <1>7, FilterClears
  <2>2. C \in SUBSET left
    <3>1. Clearing(T, d, nv, left) \in [0 .. d + T.Size -> SUBSET left]
      <4>1. T.Size \in Nat \ {0}
        OBVIOUS
      <4> QED
        BY <1>0, <4>1, ClearingDefined
    <3>2. 0 \in 0 .. d + T.Size
      BY <1>0
    <3> QED
      BY <3>1, <3>2
  <2> HIDE DEF C
  <2>3. /\ Cardinality(left \ C) = count - Cardinality(C)
        /\ Cardinality(left \ C) \in 0 .. CountMod - 1 /\ Cardinality(C) \in Nat /\ count \in Nat
    BY <1>0, <1>2, <1>5, <2>2, Emptier
  <2>4. ConsecCount(T, count, C) \in 0 .. CountMod - 1
    <3>1. count - T.Size * Cardinality(C) \in Int
      BY <2>3
    <3> QED
      BY <1>0, <3>1 DEF ConsecCount
  <2>5. ASSUME T.Size = 1
        PROVE  ConsecCount(T, count, C) = Cardinality(left \ C)
    <3>1. count - T.Size * Cardinality(C) = Cardinality(left \ C)
      BY <2>3, <2>5
    <3>2. Cardinality(left \ C) % CountMod = Cardinality(left \ C)
      BY <1>0, <2>3
    <3> QED
      BY <3>1, <3>2 DEF ConsecCount
  <2>6. found.Results = left \ C /\ found.ResCount = ConsecCount(T, count, C)
    BY <2>1
  <2> QED
    BY <1>3, <1>7, <2>4, <2>5, <2>6 DEF found
<1> QED
  BY <1>6, <1>7 DEF found

\* The call's search is one of these.
LEMMA FoundCounts ==
  ASSUME Shape, NEW junk
  PROVE  /\ Found(junk).Results \subseteq call.Results
         /\ Found(junk).ResCount \in 0 .. CountMod - 1
         /\ S.TypeEx \cap ConsecFlags = {} \/ S.Size = 1
              => Found(junk).ResCount = Cardinality(Found(junk).Results)
<1>1. /\ S.Size \in {1, 2, 4, 8} /\ call.DumpSize \in 0 .. CountMod - 1
      /\ call.Results \in SUBSET (0 .. call.DumpSize - 1)
  BY SearchCheckAssumption, SearchLibAssumption DEF Shape, PointShape, FilterShape, ConsecShape, OneOption
<1>2. "OR_EQUAL" \notin S.TypeEx
  BY DEF Shape, PointShape, FilterShape, ConsecShape, OneOption, Filters, ConsecFlags,
         ValueFilters, AddressFilters, PartFilters, PartSize, IGNORE_VALUE, IGNORE_RANGE
<1> DEFINE nv == ValuesOf(call.New)
           ov == IF call.Old = NoDump THEN [a \in DOMAIN nv |-> junk] ELSE ValuesOf(call.Old)
<1>3. Found(junk) = CodeSearch(S, call.DumpSize, call.MapMemAddy, nv, ov, call.Results)
  BY DEF Found, S
<1> HIDE DEF nv, ov
<1> QED
  BY <1>1, <1>2, <1>3, SearchCounts

\* Only results are left, and ResCount is a u32 (tab_search.c's loop over the
\* results, FilterResultsEx's decrements).
THEOREM TypeCorrect == Spec => []TypeOK
<1>1. Searched => TypeOK
  <2>1. SUFFICES ASSUME Searched PROVE TypeOK
    OBVIOUS
  <2>2. CASE pc = "search"
    BY <2>1, <2>2, SearchLibAssumption DEF Searched, TypeOK
  <2>3. CASE pc = "done"
    BY <2>1, <2>3, FoundCounts DEF Searched, TypeOK
  <2> QED
    BY <2>1, <2>2, <2>3 DEF Searched
<1> QED
  BY <1>1, SearchedInvariant, PTL

\* ResCount is how many results are left after every search without an option on
\* consecutive results, and after every search for bytes: the bytes-wise decrement
\* of FilterResultsEx never goes below zero there, and no result is counted twice.
THEOREM CountHonestCorrect == Spec => []CountHonest
<1>1. Searched => CountHonest
  BY FoundCounts DEF Searched, CountHonest
<1> QED
  BY <1>1, SearchedInvariant, PTL

-----------------------------------------------------------------------------
(* Powers of two, and the widths.                                          *)

\* Pow2 follows its recursion up to k.
Doubles(k) ==
  \E g \in [0 .. 8 * UnitBits -> Nat] :
    g[0] = 1 /\ \A n \in 1 .. 8 * UnitBits : n <= k => g[n] = 2 * g[n - 1]

\* One more power.
LEMMA DoublesOn == \A k \in Nat : Doubles(k) => Doubles(k + 1)
<1> DEFINE D == 0 .. 8 * UnitBits
<1>0. 8 * UnitBits \in Nat
  BY SearchLibAssumption
<1>1. SUFFICES ASSUME NEW k \in Nat, Doubles(k) PROVE Doubles(k + 1)
  OBVIOUS
<1>2. PICK g \in [D -> Nat] : g[0] = 1 /\ \A n \in 1 .. 8 * UnitBits : n <= k => g[n] = 2 * g[n - 1]
  BY <1>1 DEF Doubles
<1> DEFINE h == [g EXCEPT ![k + 1] = 2 * g[k]]
<1>3. CASE k + 1 \notin D
  <2>1. \A n \in 1 .. 8 * UnitBits : n <= k
    BY <1>0, <1>3
  <2> QED
    BY <1>2, <2>1 DEF Doubles
<1>4. CASE k + 1 \in D
  <2>1. k \in D /\ g[k] \in Nat
    BY <1>0, <1>4
  <2>2. h \in [D -> Nat] /\ h[k + 1] = 2 * g[k] /\ \A n \in D : n # k + 1 => h[n] = g[n]
    BY <1>4, <2>1
  <2> HIDE DEF h
  <2>3. h[0] = 1
    BY <1>0, <1>2, <2>2
  <2>4. ASSUME NEW n \in 1 .. 8 * UnitBits, n <= k + 1
        PROVE  h[n] = 2 * h[n - 1]
    <3>1. n \in D /\ n - 1 \in D /\ n - 1 # k + 1
      BY <1>0, <2>4
    <3>2. h[n - 1] = g[n - 1]
      BY <2>2, <3>1
    <3>3. CASE n = k + 1
      BY <2>2, <3>2, <3>3
    <3>4. CASE n <= k
      <4>1. h[n] = g[n]
        BY <2>2, <3>1, <3>4
      <4> QED
        BY <1>2, <3>2, <3>4, <4>1
    <3> QED
      BY <2>4, <3>3, <3>4
  <2> QED
    BY <2>2, <2>3, <2>4 DEF Doubles
<1> QED
  BY <1>3, <1>4

\* Pow2 is what its definition says.
LEMMA Powers ==
  /\ Pow2 \in [0 .. 8 * UnitBits -> Nat \ {0}]
  /\ Pow2[0] = 1
  /\ \A n \in 0 .. 8 * UnitBits : n + 1 <= 8 * UnitBits => Pow2[n + 1] = 2 * Pow2[n]
<1> DEFINE D == 0 .. 8 * UnitBits
           Short == {k \in Nat : ~Doubles(k)}
<1>0. 8 * UnitBits \in Nat
  BY SearchLibAssumption
<1>1. Doubles(0)
  <2>1. [n \in D |-> 1] \in [D -> Nat] /\ [n \in D |-> 1][0] = 1
    BY <1>0
  <2>2. \A n \in 1 .. 8 * UnitBits : ~(n <= 0)
    BY <1>0
  <2> QED
    BY <2>1, <2>2 DEF Doubles
<1>2. Short = {}
  <2>1. SUFFICES ASSUME Short # {} PROVE FALSE
    OBVIOUS
  <2>2. PICK k \in Short : \A j \in Short : ~(<<j, k>> \in OpToRel(<, Nat))
    BY <2>1, NatLessThanWellFounded, WFMin
  <2>3. k - 1 \in Nat /\ k - 1 < k /\ (k - 1) + 1 = k /\ ~Doubles(k)
    BY <1>1
  <2>4. k - 1 \notin Short
    BY <2>2, <2>3 DEF OpToRel
  <2> QED
    BY <2>3, <2>4, DoublesOn
<1>3. Doubles(8 * UnitBits)
  BY <1>0, <1>2
<1>4. PICK g \in [D -> Nat] : g[0] = 1 /\ \A n \in 1 .. 8 * UnitBits : g[n] = 2 * g[n - 1]
  BY <1>0, <1>3 DEF Doubles
<1>5. g = [n \in D |-> IF n = 0 THEN 1 ELSE 2 * g[n - 1]]
  BY <1>0, <1>4
<1>6. Pow2 = [n \in D |-> IF n = 0 THEN 1 ELSE 2 * Pow2[n - 1]]
  BY <1>5, Zenon DEF Pow2
<1>7. Pow2[0] = 1 /\ \A n \in D : n # 0 => Pow2[n] = 2 * Pow2[n - 1]
  BY <1>0, <1>6
<1> DEFINE Wrong == {n \in D : Pow2[n] \notin Nat \ {0}}
<1>8. Wrong = {}
  <2>1. SUFFICES ASSUME Wrong # {} PROVE FALSE
    OBVIOUS
  <2>2. Wrong \subseteq Nat
    BY <1>0
  <2>3. PICK n \in Wrong : \A j \in Wrong : ~(<<j, n>> \in OpToRel(<, Nat))
    BY <2>1, <2>2, NatLessThanWellFounded, WFMin
  <2>4. n \in D /\ n # 0 /\ n - 1 \in D /\ n - 1 < n /\ n - 1 \in Nat /\ n \in Nat
    BY <1>0, <1>7
  <2>5. n - 1 \notin Wrong
    BY <2>3, <2>4 DEF OpToRel
  <2>6. Pow2[n - 1] \in Nat \ {0} /\ Pow2[n] = 2 * Pow2[n - 1]
    BY <1>7, <2>4, <2>5
  <2>7. Pow2[n] \in Nat \ {0}
    BY <2>6
  <2> QED
    BY <2>7
<1>9. Pow2 \in [D -> Nat \ {0}]
  <2>1. \A n \in D : Pow2[n] \in Nat \ {0}
    BY <1>8
  <2>2. Pow2 = [n \in D |-> Pow2[n]]
    BY <1>6
  <2> QED
    BY <2>1, <2>2
<1>10. ASSUME NEW n \in D, n + 1 <= 8 * UnitBits
       PROVE  Pow2[n + 1] = 2 * Pow2[n]
  <2>1. n + 1 \in D /\ n + 1 # 0 /\ (n + 1) - 1 = n
    BY <1>0, <1>10
  <2> QED
    BY <1>7, <2>1
<1> QED
  BY <1>7, <1>9, <1>10

\* A power of a sum is the product of the powers.
LEMMA PowersAdd ==
  \A m, n \in Nat : m + n <= 8 * UnitBits => Pow2[m + n] = Pow2[m] * Pow2[n]
<1> DEFINE D == 0 .. 8 * UnitBits
<1>0. 8 * UnitBits \in Nat
  BY SearchLibAssumption
<1>1. SUFFICES ASSUME NEW m \in Nat
               PROVE  \A n \in Nat : m + n <= 8 * UnitBits => Pow2[m + n] = Pow2[m] * Pow2[n]
  OBVIOUS
<1> DEFINE Wrong == {n \in Nat : m + n <= 8 * UnitBits /\ Pow2[m + n] # Pow2[m] * Pow2[n]}
<1>2. SUFFICES ASSUME Wrong # {} PROVE FALSE
  OBVIOUS
<1>3. PICK n \in Wrong : \A j \in Wrong : ~(<<j, n>> \in OpToRel(<, Nat))
  BY <1>2, NatLessThanWellFounded, WFMin
<1>4. n \in Nat /\ m + n <= 8 * UnitBits /\ m \in D /\ n \in D
  BY <1>0
<1>5. Pow2[m] \in Nat \ {0} /\ Pow2[n] \in Nat \ {0} /\ Pow2[0] = 1
  BY <1>4, Powers
<1>6. n # 0
  <2>1. Pow2[m] * 1 = Pow2[m] /\ m + 0 = m
    BY <1>5
  <2> QED
    BY <1>5, <2>1
<1>7. n - 1 \in Nat /\ n - 1 < n /\ m + (n - 1) <= 8 * UnitBits /\ m + (n - 1) \in D /\ n - 1 \in D
  BY <1>0, <1>4, <1>6
<1>8. n - 1 \notin Wrong
  BY <1>3, <1>4, <1>7 DEF OpToRel
<1>9. Pow2[m + (n - 1)] = Pow2[m] * Pow2[n - 1]
  BY <1>7, <1>8
<1>10. Pow2[n] = 2 * Pow2[n - 1] /\ Pow2[m + n] = 2 * Pow2[m + (n - 1)]
  <2>1. (n - 1) + 1 = n /\ (m + (n - 1)) + 1 = m + n
    BY <1>4
  <2> QED
    BY <1>4, <1>7, <2>1, Powers
<1>11. Pow2[n - 1] \in Nat
  BY <1>7, Powers
<1>12. Pow2[m + n] = Pow2[m] * Pow2[n]
  BY <1>5, <1>9, <1>10, <1>11
<1> QED
  BY <1>12

\* Larger powers are multiples of smaller ones.
LEMMA PowersGrow ==
  ASSUME NEW m \in 0 .. 8 * UnitBits, NEW n \in 0 .. 8 * UnitBits, m <= n
  PROVE  /\ n - m \in 0 .. 8 * UnitBits /\ Pow2[n] = Pow2[m] * Pow2[n - m]
         /\ Pow2[m] <= Pow2[n]
<1>0. 8 * UnitBits \in Nat
  BY SearchLibAssumption
<1>1. n - m \in Nat /\ m \in Nat /\ m + (n - m) = n /\ n - m \in 0 .. 8 * UnitBits
  BY <1>0
<1>2. Pow2[n] = Pow2[m] * Pow2[n - m]
  BY <1>0, <1>1, PowersAdd
<1>3. Pow2[m] \in Nat \ {0} /\ Pow2[n - m] \in Nat \ {0}
  BY <1>1, Powers
<1>4. Pow2[m] * Pow2[n - m] >= Pow2[m]
  BY <1>3
<1> QED
  BY <1>1, <1>2, <1>3, <1>4

\* The bits of n bytes are of a u64.
LEMMA WidthBits ==
  ASSUME NEW n \in 0 .. 8
  PROVE  n * UnitBits \in 0 .. 8 * UnitBits
<1>1. UnitBits \in Nat
  BY SearchLibAssumption
<1> QED
  BY <1>1

\* The values of more bytes.
LEMMA SpanAdd ==
  ASSUME NEW m \in 0 .. 8, NEW n \in 0 .. 8, m + n <= 8
  PROVE  Span(m + n) = Span(m) * Span(n)
<1>1. UnitBits \in Nat
  BY SearchLibAssumption
<1>2. (m + n) * UnitBits = m * UnitBits + n * UnitBits
  BY <1>1
<1>3. m + n \in 0 .. 8
  OBVIOUS
<1>4. m * UnitBits \in Nat /\ n * UnitBits \in Nat /\ m * UnitBits + n * UnitBits <= 8 * UnitBits
  BY <1>1, <1>2, <1>3, WidthBits
<1>5. Pow2[m * UnitBits + n * UnitBits] = Pow2[m * UnitBits] * Pow2[n * UnitBits]
  BY <1>4, PowersAdd
<1> QED
  BY <1>2, <1>5 DEF Span

\* The widths of the values a search compares.
LEMMA Widths ==
  /\ \A n \in 0 .. 8 : Span(n) \in Nat \ {0}
  /\ Span(0) = 1 /\ Span(1) >= 2
  /\ \A n \in {1, 2, 4} : Span(n) \in 2 .. Span(4)
  /\ Reg = Span(8) /\ Reg = Span(4) * Span(4) /\ 16 * Span(4) <= Reg
<1>1. \A n \in 0 .. 8 : Span(n) \in Nat \ {0}
  BY WidthBits, Powers DEF Span
<1>2. Span(0) = 1
  <2>1. 0 * UnitBits = 0
    BY SearchLibAssumption
  <2> QED
    BY <2>1, Powers DEF Span
<1>3. Span(1) >= 2
  <2>1. UnitBits \in Nat \ {0} /\ 1 \in 0 .. 8 * UnitBits /\ 1 * UnitBits = UnitBits
        /\ UnitBits \in 0 .. 8 * UnitBits /\ 1 <= UnitBits
    BY SearchLibAssumption
  <2>2. 0 \in 0 .. 8 * UnitBits /\ 0 + 1 <= 8 * UnitBits
    BY <2>1
  <2>3. Pow2[1] = 2
    BY <2>2, Powers
  <2>4. Pow2[1] <= Pow2[UnitBits]
    BY <2>1, PowersGrow
  <2> QED
    BY <2>1, <2>3, <2>4 DEF Span
<1>4. Span(2) = Span(1) * Span(1) /\ Span(4) = Span(2) * Span(2) /\ Span(8) = Span(4) * Span(4)
  <2>1. Span(1 + 1) = Span(1) * Span(1) /\ Span(2 + 2) = Span(2) * Span(2) /\ Span(4 + 4) = Span(4) * Span(4)
    BY SpanAdd
  <2>2. 1 + 1 = 2 /\ 2 + 2 = 4 /\ 4 + 4 = 8
    OBVIOUS
  <2> QED
    BY <2>1, <2>2
<1>5. /\ Span(1) \in Nat /\ Span(2) \in Nat /\ Span(4) \in Nat
  BY <1>1
<1>6. Span(2) >= 2 * Span(1)
  BY <1>3, <1>4, <1>5
<1>7. Span(4) >= 4 * Span(2)
  <2>1. Span(2) >= 4
    BY <1>3, <1>5, <1>6
  <2> QED
    BY <1>4, <1>5, <2>1
<1>8. Span(8) >= 16 * Span(4)
  <2>1. Span(4) >= 16
    BY <1>3, <1>5, <1>6, <1>7
  <2> QED
    BY <1>4, <1>5, <2>1
<1>9. \A n \in {1, 2, 4} : Span(n) \in 2 .. Span(4)
  BY <1>3, <1>5, <1>6, <1>7
<1> QED
  BY <1>1, <1>2, <1>3, <1>4, <1>8, <1>9 DEF Reg

-----------------------------------------------------------------------------
(* Integers in a u64.                                                      *)

\* The u64 that holds the integer x.
Rep(x) == IF x < 0 THEN x + Reg ELSE x

\* The numbers a search of at most four bytes computes with.
Near == -(4 * Span(4)) .. 4 * Span(4)

\* Comparing, adding and subtracting u64s does it to the integers they hold.
LEMMA Represented ==
  ASSUME NEW x \in Near, NEW y \in Near
  PROVE  /\ Rep(x) = Rep(y) <=> x = y
         /\ SameSign(x, y) => (Rep(x) < Rep(y) <=> x < y) /\ (Rep(x) <= Rep(y) <=> x <= y)
         /\ S64(Rep(x)) = x
         /\ U64(Rep(x) + Rep(y)) = Rep(x + y)
         /\ U64(Rep(x) - Rep(y)) = Rep(x - y)
<1> DEFINE R == Reg
           M == Span(4)
<1>1. R \in Nat /\ M \in Nat /\ 16 * M <= R /\ 2 <= M
  BY Widths
<1>2. x \in -(4 * M) .. 4 * M /\ y \in -(4 * M) .. 4 * M
  BY DEF Near
<1>3. \A z : Rep(z) = IF z < 0 THEN z + R ELSE z
  BY DEF Rep
<1>4. \A z : U64(z) = z % R /\ S64(z) = IF 2 * z < R THEN z ELSE z - R
  BY DEF U64, S64
<1>5. \A z \in 0 .. R - 1 : z % R = z
  BY <1>1
<1>6. \A z \in R .. 2 * R - 1 : z % R = z - R
  BY <1>1
<1>7. \A z \in -R .. -1 : z % R = z + R
  BY <1>1
<1> HIDE DEF R, M
<1>8. ASSUME NEW a \in {x, x + R}, NEW b \in {y, y + R}, a \in 0 .. R - 1, b \in 0 .. R - 1
      PROVE  U64(a + b) = Rep(x + y) /\ U64(a - b) = Rep(x - y)
  <2>1. a \in Int /\ b \in Int /\ x + y \in -(8 * M) .. 8 * M /\ x - y \in -(8 * M) .. 8 * M
    BY <1>1, <1>2, <1>8
  <2>2. (a + b) % R = IF x + y < 0 THEN x + y + R ELSE x + y
    <3>1. CASE a + b < R
      <4>1. (a + b) % R = a + b
        BY <1>1, <1>5, <1>8, <2>1, <3>1
      <4> QED
        BY <1>1, <1>2, <1>8, <2>1, <3>1, <4>1
    <3>2. CASE a + b >= R
      <4>1. (a + b) % R = a + b - R
        BY <1>1, <1>6, <1>8, <2>1, <3>2
      <4> QED
        BY <1>1, <1>2, <1>8, <2>1, <3>2, <4>1
    <3> QED
      BY <1>1, <2>1, <3>1, <3>2
  <2>3. (a - b) % R = IF x - y < 0 THEN x - y + R ELSE x - y
    <3>1. CASE a - b >= 0
      <4>1. (a - b) % R = a - b
        BY <1>1, <1>5, <1>8, <2>1, <3>1
      <4> QED
        BY <1>1, <1>2, <1>8, <2>1, <3>1, <4>1
    <3>2. CASE a - b < 0
      <4>1. (a - b) % R = a - b + R
        BY <1>1, <1>7, <1>8, <2>1, <3>2
      <4> QED
        BY <1>1, <1>2, <1>8, <2>1, <3>2, <4>1
    <3> QED
      BY <1>1, <2>1, <3>1, <3>2
  <2> QED
    BY <1>3, <1>4, <2>2, <2>3
<1>12. Rep(x) = Rep(y) <=> x = y
  BY <1>1, <1>2, <1>3
<1>13. SameSign(x, y) => (Rep(x) < Rep(y) <=> x < y) /\ (Rep(x) <= Rep(y) <=> x <= y)
  BY <1>1, <1>2, <1>3 DEF SameSign
<1>14. S64(Rep(x)) = x
  BY <1>1, <1>2, <1>3, <1>4
<1>15. Rep(x) \in {x, x + R} /\ Rep(y) \in {y, y + R} /\ Rep(x) \in 0 .. R - 1 /\ Rep(y) \in 0 .. R - 1
  BY <1>1, <1>2, <1>3
<1> QED
  BY <1>8, <1>12, <1>13, <1>14, <1>15

\* What the loop compares holds what the label means.
LEMMA Operands ==
  ASSUME S.Size \in {1, 2, 4}, NEW v \in 0 .. Span(S.Size) - 1
  PROVE  /\ Meant(v) \in -Span(4) .. Span(4)
         /\ Operand(S, v) = Rep(Meant(v))
<1>1. /\ Span(S.Size) \in 2 .. Span(4) /\ Reg \in Nat /\ 16 * Span(4) <= Reg /\ Span(4) \in Nat
  BY Widths
<1>2. v % Span(S.Size) = v
  BY <1>1
<1>3. CASE "SIGNED" \in S.TypeEx /\ SignBit(v, S.Size)
  <2>1. Meant(v) = v - Span(S.Size) /\ Operand(S, v) = v + (Reg - Span(S.Size))
    BY <1>2, <1>3 DEF Meant, Operand, SignExtend64
  <2> QED
    BY <1>1, <2>1 DEF Rep
<1>4. CASE ~("SIGNED" \in S.TypeEx /\ SignBit(v, S.Size))
  <2>1. Meant(v) = v /\ Operand(S, v) = v
    BY <1>4 DEF Meant, Operand, SignExtend64
  <2> QED
    BY <1>1, <2>1 DEF Rep
<1> QED
  BY <1>3, <1>4

-----------------------------------------------------------------------------
(* The labels about numbers.                                               *)

\* What the conditions of TurnedOff compare, in integers.
LEMMA Compared ==
  ASSUME S.Size \in {1, 2, 4},
         NEW n \in 0 .. Span(S.Size) - 1, NEW o \in 0 .. Span(S.Size) - 1, NEW v0 \in 0 .. Span(S.Size) - 1
  PROVE  LET N == Operand(S, n)
             O == Operand(S, o)
             V0 == Operand(S, v0)
             up == U64(O + V0)
             down == U64(O - V0)
         IN  /\ Meant(n) \in Int /\ Meant(o) \in Int /\ Meant(v0) \in Int
             /\ N \in Int /\ up \in Int /\ down \in Int /\ V0 \in Int
             /\ (n = v0) <=> (Meant(n) = Meant(v0))
             /\ (N = V0) <=> (Meant(n) = Meant(v0))
             /\ (N = O) <=> (Meant(n) = Meant(o))
             /\ (N = up) <=> (Meant(n) = Meant(o) + Meant(v0))
             /\ (N = down) <=> (Meant(n) = Meant(o) - Meant(v0))
             /\ SameSign(Meant(n), Meant(v0)) =>
                  ((N < V0) <=> (Meant(n) < Meant(v0)))
             /\ SameSign(Meant(n), Meant(o) + Meant(v0)) =>
                  ((N < up) <=> (Meant(n) < Meant(o) + Meant(v0)))
             /\ SameSign(Meant(n), Meant(o) - Meant(v0)) =>
                  ((N < down) <=> (Meant(n) < Meant(o) - Meant(v0)))
             /\ Leq(S, N, O) <=> (Meant(n) <= Meant(o))
             /\ Leq(S, O, N) <=> (Meant(o) <= Meant(n))
<1> DEFINE m == Meant(n)
           p == Meant(o)
           w == Meant(v0)
           M == Span(4)
<1>1. M \in Nat /\ Span(S.Size) \in Nat
  BY Widths
<1>2. /\ m \in -M .. M /\ p \in -M .. M /\ w \in -M .. M
      /\ Operand(S, n) = Rep(m) /\ Operand(S, o) = Rep(p) /\ Operand(S, v0) = Rep(w)
  BY Operands
<1>3. n = v0 <=> m = w
  BY <1>1 DEF Meant, SignBit
<1>4. "SIGNED" \notin S.TypeEx => m >= 0 /\ p >= 0
  BY <1>1 DEF Meant
<1> HIDE DEF m, p, w
<1>5. /\ m \in Near /\ p \in Near /\ w \in Near /\ p + w \in Near /\ p - w \in Near
      /\ m \in Int /\ p \in Int /\ w \in Int
  BY <1>1, <1>2 DEF Near
<1> HIDE DEF M
<1>6. U64(Rep(p) + Rep(w)) = Rep(p + w) /\ U64(Rep(p) - Rep(w)) = Rep(p - w)
  BY <1>5, Represented
<1>7. /\ Rep(m) = Rep(w) <=> m = w
      /\ Rep(m) = Rep(p) <=> m = p
      /\ Rep(m) = Rep(p + w) <=> m = p + w
      /\ Rep(m) = Rep(p - w) <=> m = p - w
  BY <1>5, Represented
<1>8. /\ SameSign(m, w) => (Rep(m) < Rep(w) <=> m < w)
      /\ SameSign(m, p + w) => (Rep(m) < Rep(p + w) <=> m < p + w)
      /\ SameSign(m, p - w) => (Rep(m) < Rep(p - w) <=> m < p - w)
      /\ SameSign(m, p) => (Rep(m) <= Rep(p) <=> m <= p)
      /\ SameSign(p, m) => (Rep(p) <= Rep(m) <=> p <= m)
  BY <1>5, Represented
<1>9. S64(Rep(m)) = m /\ S64(Rep(p)) = p
  BY <1>5, Represented
<1>10. Rep(m) \in Int /\ Rep(p + w) \in Int /\ Rep(p - w) \in Int /\ Rep(w) \in Int
  BY <1>5, Widths DEF Rep
<1>11. Leq(S, Rep(m), Rep(p)) <=> m <= p
  <2>1. CASE "SIGNED" \in S.TypeEx
    BY <1>9, <2>1 DEF Leq
  <2>2. CASE "SIGNED" \notin S.TypeEx
    BY <1>4, <1>5, <1>8, <2>2 DEF Leq, SameSign
  <2> QED
    BY <2>1, <2>2
<1>12. Leq(S, Rep(p), Rep(m)) <=> p <= m
  <2>1. CASE "SIGNED" \in S.TypeEx
    BY <1>9, <2>1 DEF Leq
  <2>2. CASE "SIGNED" \notin S.TypeEx
    BY <1>4, <1>5, <1>8, <2>2 DEF Leq, SameSign
  <2> QED
    BY <2>1, <2>2
<1> QED
  BY <1>2, <1>3, <1>5, <1>6, <1>7, <1>8, <1>10, <1>11, <1>12 DEF m, p, w

\* The conditions on values and the labels decide alike; a search that reads no
\* old value does so whatever stands for it.
LEMMA NumberLabels ==
  ASSUME S.Size \in {1, 2, 4}, S.Type \in (SearchTypes \cup RangeTypes) \ BitTypes,
         NEW n \in 0 .. Span(S.Size) - 1, NEW o \in 0 .. Span(S.Size) - 1,
         NEW v0 \in 0 .. Span(S.Size) - 1, NEW v1, NEW O,
         S.Type \in RangeTypes => v1 \in 0 .. Span(S.Size) - 1,
         S.Type \notin AbsoluteTypes => O = Operand(S, o),
         Comparable(n, o, v0, v1)
  PROVE  ~TurnedOff(S, Operand(S, n), O, Operand(S, v0), Operand(S, v1))
           <=> Label(S.Type, Meant(n), Meant(o), Meant(v0), Meant(v1))
<1> DEFINE m == Meant(n)
           p == Meant(o)
           w == Meant(v0)
           x == Meant(v1)
           N == Operand(S, n)
           P == Operand(S, o)
           V0 == Operand(S, v0)
           V1 == Operand(S, v1)
           up == U64(P + V0)
           down == U64(P - V0)
<1>0. SUFFICES ~TurnedOff(S, N, O, V0, V1) <=> Label(S.Type, m, p, w, x)
  OBVIOUS
<1>1. /\ m \in Int /\ p \in Int /\ w \in Int
      /\ N \in Int /\ up \in Int /\ down \in Int /\ V0 \in Int
      /\ (n = v0) <=> (m = w)
      /\ (N = V0) <=> (m = w)
      /\ (N = P) <=> (m = p)
      /\ (N = up) <=> (m = p + w)
      /\ (N = down) <=> (m = p - w)
      /\ SameSign(m, w) => ((N < V0) <=> (m < w))
      /\ SameSign(m, p + w) => ((N < up) <=> (m < p + w))
      /\ SameSign(m, p - w) => ((N < down) <=> (m < p - w))
      /\ Leq(S, N, P) <=> (m <= p)
      /\ Leq(S, P, N) <=> (p <= m)
  BY Compared
<1>2. S.Type \in RangeTypes =>
        /\ x \in Int /\ V1 \in Int
        /\ (N = V1) <=> (m = x)
        /\ SameSign(m, x) => ((N < V1) <=> (m < x))
  BY Compared
<1>3. S.Type \in {"GREATER_LEAST", "GREATER_MOST", "NEQUAL_LEAST", "NEQUAL_MOST"} => SameSign(m, p + w)
  BY DEF Comparable
<1>4. S.Type \in {"LESS_LEAST", "LESS_MOST", "NEQUAL_LEAST", "NEQUAL_MOST"} => SameSign(m, p - w)
  BY DEF Comparable
<1>5. S.Type \in RangeTypes => SameSign(m, w) /\ SameSign(m, x)
  BY DEF Comparable
<1>6. S.Type = "IN_RANGE" => n # v0
  BY DEF Comparable
<1>7. S.Type \notin AbsoluteTypes => O = P
  OBVIOUS
<1> HIDE DEF m, p, w, x, N, P, V0, V1, up, down
<1>8. S.Type \notin AbsoluteTypes => U64(O + V0) = up /\ U64(O - V0) = down
  BY <1>7 DEF up, down
<1>9. CASE S.Type = "KNOWN"
  <2>1. TurnedOff(S, N, O, V0, V1) <=> (N # V0)
    BY <1>7, <1>8, <1>9 DEF TurnedOff, AbsoluteTypes
  <2>2. Label(S.Type, m, p, w, x) <=> (m = w)
    BY <1>9 DEF Label
  <2> QED
    BY <1>1, <1>3, <1>4, <1>9, <2>1, <2>2
<1>10. CASE S.Type = "GREATER"
  <2>1. TurnedOff(S, N, O, V0, V1) <=> (Leq(S, N, P))
    BY <1>7, <1>8, <1>10 DEF TurnedOff, AbsoluteTypes
  <2>2. Label(S.Type, m, p, w, x) <=> (m > p)
    BY <1>10 DEF Label
  <2> QED
    BY <1>1, <1>3, <1>4, <1>10, <2>1, <2>2
<1>11. CASE S.Type = "GREATER_BY"
  <2>1. TurnedOff(S, N, O, V0, V1) <=> (N # up)
    BY <1>7, <1>8, <1>11 DEF TurnedOff, AbsoluteTypes
  <2>2. Label(S.Type, m, p, w, x) <=> (m = p + w)
    BY <1>11 DEF Label
  <2> QED
    BY <1>1, <1>3, <1>4, <1>11, <2>1, <2>2
<1>12. CASE S.Type = "GREATER_LEAST"
  <2>1. TurnedOff(S, N, O, V0, V1) <=> (N < up)
    BY <1>7, <1>8, <1>12 DEF TurnedOff, AbsoluteTypes
  <2>2. Label(S.Type, m, p, w, x) <=> (m >= p + w)
    BY <1>12 DEF Label
  <2> QED
    BY <1>1, <1>3, <1>4, <1>12, <2>1, <2>2
<1>13. CASE S.Type = "GREATER_MOST"
  <2>1. TurnedOff(S, N, O, V0, V1) <=> (N > up \/ Leq(S, N, P))
    BY <1>7, <1>8, <1>13 DEF TurnedOff, AbsoluteTypes
  <2>2. Label(S.Type, m, p, w, x) <=> (p < m /\ m <= p + w)
    BY <1>13 DEF Label
  <2> QED
    BY <1>1, <1>3, <1>4, <1>13, <2>1, <2>2
<1>14. CASE S.Type = "LESS"
  <2>1. TurnedOff(S, N, O, V0, V1) <=> (Leq(S, P, N))
    BY <1>7, <1>8, <1>14 DEF TurnedOff, AbsoluteTypes
  <2>2. Label(S.Type, m, p, w, x) <=> (m < p)
    BY <1>14 DEF Label
  <2> QED
    BY <1>1, <1>3, <1>4, <1>14, <2>1, <2>2
<1>15. CASE S.Type = "LESS_BY"
  <2>1. TurnedOff(S, N, O, V0, V1) <=> (N # down)
    BY <1>7, <1>8, <1>15 DEF TurnedOff, AbsoluteTypes
  <2>2. Label(S.Type, m, p, w, x) <=> (m = p - w)
    BY <1>15 DEF Label
  <2> QED
    BY <1>1, <1>3, <1>4, <1>15, <2>1, <2>2
<1>16. CASE S.Type = "LESS_LEAST"
  <2>1. TurnedOff(S, N, O, V0, V1) <=> (N > down)
    BY <1>7, <1>8, <1>16 DEF TurnedOff, AbsoluteTypes
  <2>2. Label(S.Type, m, p, w, x) <=> (m <= p - w)
    BY <1>16 DEF Label
  <2> QED
    BY <1>1, <1>3, <1>4, <1>16, <2>1, <2>2
<1>17. CASE S.Type = "LESS_MOST"
  <2>1. TurnedOff(S, N, O, V0, V1) <=> (N < down \/ Leq(S, P, N))
    BY <1>7, <1>8, <1>17 DEF TurnedOff, AbsoluteTypes
  <2>2. Label(S.Type, m, p, w, x) <=> (p - w <= m /\ m < p)
    BY <1>17 DEF Label
  <2> QED
    BY <1>1, <1>3, <1>4, <1>17, <2>1, <2>2
<1>18. CASE S.Type = "EQUAL"
  <2>1. TurnedOff(S, N, O, V0, V1) <=> (N # P)
    BY <1>7, <1>8, <1>18 DEF TurnedOff, AbsoluteTypes
  <2>2. Label(S.Type, m, p, w, x) <=> (m = p)
    BY <1>18 DEF Label
  <2> QED
    BY <1>1, <1>3, <1>4, <1>18, <2>1, <2>2
<1>19. CASE S.Type = "NEQUAL"
  <2>1. TurnedOff(S, N, O, V0, V1) <=> (N = P)
    BY <1>7, <1>8, <1>19 DEF TurnedOff, AbsoluteTypes
  <2>2. Label(S.Type, m, p, w, x) <=> (m # p)
    BY <1>19 DEF Label
  <2> QED
    BY <1>1, <1>3, <1>4, <1>19, <2>1, <2>2
<1>20. CASE S.Type = "NEQUAL_TO"
  <2>1. TurnedOff(S, N, O, V0, V1) <=> (N = V0)
    BY <1>7, <1>8, <1>20 DEF TurnedOff, AbsoluteTypes
  <2>2. Label(S.Type, m, p, w, x) <=> (m # w)
    BY <1>20 DEF Label
  <2> QED
    BY <1>1, <1>3, <1>4, <1>20, <2>1, <2>2
<1>21. CASE S.Type = "NEQUAL_BY"
  <2>1. TurnedOff(S, N, O, V0, V1) <=> (N # down /\ N # up)
    BY <1>7, <1>8, <1>21 DEF TurnedOff, AbsoluteTypes
  <2>2. Label(S.Type, m, p, w, x) <=> (m \in {p - w, p + w})
    BY <1>21 DEF Label
  <2> QED
    BY <1>1, <1>3, <1>4, <1>21, <2>1, <2>2
<1>22. CASE S.Type = "NEQUAL_LEAST"
  <2>1. TurnedOff(S, N, O, V0, V1) <=> (N > down /\ N < up)
    BY <1>7, <1>8, <1>22 DEF TurnedOff, AbsoluteTypes
  <2>2. Label(S.Type, m, p, w, x) <=> (AbsVal(m - p) >= w)
    BY <1>22 DEF Label
  <2> QED
    BY <1>1, <1>3, <1>4, <1>22, <2>1, <2>2 DEF AbsVal
<1>23. CASE S.Type = "NEQUAL_MOST"
  <2>1. TurnedOff(S, N, O, V0, V1) <=> (N < down \/ N > up \/ N = P)
    BY <1>7, <1>8, <1>23 DEF TurnedOff, AbsoluteTypes
  <2>2. Label(S.Type, m, p, w, x) <=> (m # p /\ AbsVal(m - p) <= w)
    BY <1>23 DEF Label
  <2> QED
    BY <1>1, <1>3, <1>4, <1>23, <2>1, <2>2 DEF AbsVal
<1>24. CASE S.Type = "IN_RANGE"
  <2>1. TurnedOff(S, N, O, V0, V1) <=> (N <= V0 \/ N > V1)
    BY <1>7, <1>8, <1>24 DEF TurnedOff, AbsoluteTypes
  <2>2. Label(S.Type, m, p, w, x) <=> (w <= m /\ m <= x)
    BY <1>24 DEF Label
  <2>3. x \in Int /\ V1 \in Int /\ ((N = V1) <=> (m = x)) /\ ((N < V1) <=> (m < x)) /\ ((N < V0) <=> (m < w))
    BY <1>1, <1>2, <1>5, <1>24 DEF RangeTypes
  <2> QED
    BY <1>1, <1>6, <1>24, <2>1, <2>2, <2>3
<1>25. CASE S.Type = "NOT_RANGE"
  <2>1. TurnedOff(S, N, O, V0, V1) <=> (N >= V0 /\ N <= V1)
    BY <1>7, <1>8, <1>25 DEF TurnedOff, AbsoluteTypes
  <2>2. Label(S.Type, m, p, w, x) <=> (m < w \/ m > x)
    BY <1>25 DEF Label
  <2>3. x \in Int /\ V1 \in Int /\ ((N = V1) <=> (m = x)) /\ ((N < V1) <=> (m < x)) /\ ((N < V0) <=> (m < w))
    BY <1>1, <1>2, <1>5, <1>25 DEF RangeTypes
  <2> QED
    BY <1>1, <1>6, <1>25, <2>1, <2>2, <2>3
<1> QED
  BY <1>9, <1>10, <1>11, <1>12, <1>13, <1>14, <1>15, <1>16, <1>17, <1>18, <1>19, <1>20, <1>21, <1>22, <1>23, <1>24, <1>25 DEF SearchTypes, RangeTypes, BitTypes

-----------------------------------------------------------------------------
(* Bits.                                                                   *)

\* There is one quotient and one remainder ...
LEMMA Quotient ==
  ASSUME NEW v \in Int, NEW p \in Nat \ {0}, NEW d \in Int, NEW r \in 0 .. p - 1, v = p * d + r
  PROVE  v \div p = d /\ v % p = r
<1>1. p \in Int /\ p > 0 /\ r \in Int /\ p * d <= v /\ v < p * d + p
  OBVIOUS
<1>2. v \div p = d
  BY <1>1
<1>3. v % p = r
  BY <1>1
<1> QED
  BY <1>2, <1>3

\* ... and they give the number back.
LEMMA Divided ==
  ASSUME NEW v \in Int, NEW p \in Nat \ {0}
  PROVE  v \div p \in Int /\ v % p \in 0 .. p - 1 /\ v = p * (v \div p) + (v % p)
<1>1. v \div p \in Int
  OBVIOUS
<1>2. v % p \in 0 .. p - 1
  OBVIOUS
<1>3. v = p * (v \div p) + (v % p)
  OBVIOUS
<1> QED
  BY <1>1, <1>2, <1>3

\* The number of a bit, and the weights around it.
LEMMA Weights ==
  ASSUME NEW b \in 0 .. 8 * UnitBits - 1
  PROVE  /\ Pow2[b] \in Nat \ {0} /\ Pow2[8 * UnitBits - 1 - b] \in Nat \ {0}
         /\ Reg = Pow2[b] * (2 * Pow2[8 * UnitBits - 1 - b])
         /\ \A k \in b + 1 .. 8 * UnitBits :
              /\ Pow2[k - 1 - b] \in Nat \ {0}
              /\ Pow2[k - 1 - b] <= Pow2[8 * UnitBits - 1 - b]
              /\ Pow2[k] = Pow2[b] * (2 * Pow2[k - 1 - b])
<1>0. 8 * UnitBits \in Nat
  BY SearchLibAssumption
<1>1. ASSUME NEW k \in b + 1 .. 8 * UnitBits
      PROVE  /\ Pow2[k - 1 - b] \in Nat \ {0}
             /\ Pow2[k - 1 - b] <= Pow2[8 * UnitBits - 1 - b]
             /\ Pow2[k] = Pow2[b] * (2 * Pow2[k - 1 - b])
  <2>1. /\ b \in 0 .. 8 * UnitBits /\ k \in 0 .. 8 * UnitBits /\ b <= k
        /\ k - 1 - b \in 0 .. 8 * UnitBits /\ (k - 1 - b) + 1 = k - b
        /\ (k - 1 - b) + 1 <= 8 * UnitBits
        /\ 8 * UnitBits - 1 - b \in 0 .. 8 * UnitBits /\ k - 1 - b <= 8 * UnitBits - 1 - b
    BY <1>0
  <2>2. Pow2[k] = Pow2[b] * Pow2[k - b]
    BY <2>1, PowersGrow
  <2>3. Pow2[k - b] = 2 * Pow2[k - 1 - b] /\ Pow2[k - 1 - b] \in Nat \ {0}
    BY <2>1, Powers
  <2>4. Pow2[k - 1 - b] <= Pow2[8 * UnitBits - 1 - b]
    BY <2>1, PowersGrow
  <2> QED
    BY <2>2, <2>3, <2>4
<1>2. 8 * UnitBits \in b + 1 .. 8 * UnitBits /\ b \in 0 .. 8 * UnitBits
  BY <1>0
<1>3. Pow2[b] \in Nat \ {0}
  BY <1>2, Powers
<1>4. Reg = Pow2[8 * UnitBits]
  BY DEF Reg, Span
<1> QED
  BY <1>1, <1>2, <1>3, <1>4

\* A value of n bytes has bits of n bytes.
LEMMA LowBits ==
  ASSUME NEW n \in 0 .. 8, NEW v \in 0 .. Span(n) - 1
  PROVE  Bits(v) \subseteq 0 .. n * UnitBits - 1
<1>0. 8 * UnitBits \in Nat /\ n * UnitBits \in 0 .. 8 * UnitBits
  BY SearchLibAssumption, WidthBits
<1>1. SUFFICES ASSUME NEW b \in n * UnitBits .. 8 * UnitBits - 1
               PROVE  (v \div Pow2[b]) % 2 # 1
  BY <1>0 DEF Bits
<1>2. Pow2[b] \in Nat \ {0} /\ Span(n) <= Pow2[b] /\ Span(n) \in Nat
  <2>1. b \in 0 .. 8 * UnitBits /\ n * UnitBits <= b
    BY <1>0
  <2> QED
    BY <1>0, <2>1, PowersGrow, Powers DEF Span
<1>3. v \in 0 .. Pow2[b] - 1 /\ v = Pow2[b] * 0 + v /\ v \in Int
  BY <1>2
<1>4. v \div Pow2[b] = 0
  BY <1>2, <1>3, Quotient
<1> QED
  BY <1>4

\* The highest bit of n bytes is their sign.
LEMMA TopBit ==
  ASSUME NEW n \in 1 .. 8, NEW v \in 0 .. Span(n) - 1
  PROVE  /\ n * UnitBits - 1 \in 0 .. 8 * UnitBits - 1
         /\ SignBit(v, n) <=> n * UnitBits - 1 \in Bits(v)
<1> DEFINE b == n * UnitBits - 1
<1>0. 8 * UnitBits \in Nat /\ n * UnitBits \in 1 .. 8 * UnitBits
  <2>1. UnitBits \in Nat \ {0}
    BY SearchLibAssumption
  <2>2. n * UnitBits \in 0 .. 8 * UnitBits
    BY WidthBits
  <2>3. n * UnitBits >= 1
    BY <2>1
  <2> QED
    BY <2>1, <2>2, <2>3
<1>1. b \in 0 .. 8 * UnitBits - 1 /\ b + 1 = n * UnitBits /\ b \in 0 .. 8 * UnitBits /\ b + 1 <= 8 * UnitBits
  BY <1>0
<1> HIDE DEF b
<1>2. Span(n) = 2 * Pow2[b] /\ Pow2[b] \in Nat \ {0}
  BY <1>1, Powers DEF Span
<1>3. v % Span(n) = v
  BY <1>2
<1>4. SignBit(v, n) <=> v >= Pow2[b]
  BY <1>2, <1>3 DEF SignBit
<1>5. CASE v >= Pow2[b]
  <2>1. v \in Int /\ v - Pow2[b] \in 0 .. Pow2[b] - 1 /\ v = Pow2[b] * 1 + (v - Pow2[b])
    BY <1>2, <1>5
  <2>2. v \div Pow2[b] = 1
    BY <1>2, <2>1, Quotient
  <2> QED
    BY <1>1, <1>4, <1>5, <2>2 DEF Bits, b
<1>6. CASE v < Pow2[b]
  <2>1. v \in Int /\ v \in 0 .. Pow2[b] - 1 /\ v = Pow2[b] * 0 + v
    BY <1>2, <1>6
  <2>2. v \div Pow2[b] = 0
    BY <1>2, <2>1, Quotient
  <2> QED
    BY <1>1, <1>2, <1>4, <1>6, <2>2 DEF Bits, b
<1> QED
  BY <1>2, <1>5, <1>6

\* Sign extension sets all bits above those of n bytes.
LEMMA ExtendedBits ==
  ASSUME NEW n \in 0 .. 8, NEW v \in 0 .. Span(n) - 1
  PROVE  Bits(v + (Reg - Span(n))) = Bits(v) \cup (n * UnitBits .. 8 * UnitBits - 1)
<1> DEFINE k == n * UnitBits
           W == 8 * UnitBits
<1>0. W \in Nat /\ k \in 0 .. W /\ UnitBits \in Nat
  BY SearchLibAssumption, WidthBits
<1>1. Span(n) = Pow2[k] /\ Span(n) \in Nat \ {0} /\ v \in Nat /\ v < Span(n) /\ Reg \in Nat
  <2>1. 8 \in 0 .. 8 /\ Span(n) = Pow2[k]
    BY DEF Span
  <2>2. Span(n) \in Nat \ {0} /\ Reg \in Nat
    BY <2>1, Widths
  <2> QED
    BY <2>1, <2>2
<1> DEFINE x == v + (Reg - Span(n))
<1>2. ASSUME NEW b \in 0 .. k - 1
      PROVE  (x \div Pow2[b]) % 2 = (v \div Pow2[b]) % 2
  <2>1. b \in 0 .. W - 1 /\ k \in b + 1 .. W
    BY <1>0
  <2> DEFINE p == Pow2[b]
             q == Pow2[W - 1 - b]
             s == Pow2[k - 1 - b]
             d == v \div p
             r == v % p
  <2>2. p \in Nat \ {0} /\ q \in Nat \ {0} /\ s \in Nat \ {0} /\ Reg = p * (2 * q) /\ Span(n) = p * (2 * s)
    BY <1>1, <2>1, Weights
  <2>3. v \in Int
    BY <1>1
  <2>4. d \in Int /\ r \in 0 .. p - 1
    BY <2>2, <2>3, Divided
  <2>5. v = p * d + r
    BY <2>2, <2>3, Divided
  <2> HIDE DEF p, q, s, d, r
  <2>6. x = p * (d + 2 * (q - s)) + r /\ x \in Int /\ d + 2 * (q - s) \in Int
    BY <1>1, <2>2, <2>3, <2>4, <2>5
  <2> HIDE DEF x
  <2>7. x \div p = d + 2 * (q - s)
    BY <2>2, <2>4, <2>6, Quotient
  <2>8. (d + 2 * (q - s)) % 2 = d % 2
    BY <2>2, <2>4
  <2> QED
    BY <2>7, <2>8 DEF p, d
<1>3. ASSUME NEW b \in k .. W - 1
      PROVE  (x \div Pow2[b]) % 2 = 1
  <2>1. b \in 0 .. W - 1 /\ b \in 0 .. W /\ k <= b
    BY <1>0
  <2> DEFINE p == Pow2[b]
             q == Pow2[W - 1 - b]
  <2>2. p \in Nat \ {0} /\ q \in Nat \ {0} /\ Reg = p * (2 * q)
    BY <2>1, Weights
  <2>3. Span(n) <= p
    BY <1>0, <1>1, <2>1, PowersGrow
  <2> HIDE DEF p, q
  <2>4. /\ x = p * (2 * q - 1) + (p - (Span(n) - v)) /\ x \in Int /\ 2 * q - 1 \in Int
        /\ p - (Span(n) - v) \in 0 .. p - 1
    BY <1>1, <2>2, <2>3
  <2> HIDE DEF x
  <2>5. x \div p = 2 * q - 1
    BY <2>2, <2>4, Quotient
  <2>6. (2 * q - 1) % 2 = 1
    BY <2>2
  <2> QED
    BY <2>5, <2>6 DEF p
<1>4. Bits(v) \subseteq 0 .. k - 1
  BY LowBits
<1>5. \A b \in 0 .. W - 1 : b \in 0 .. k - 1 \/ b \in k .. W - 1
  BY <1>0
<1>6. \A b \in k .. W - 1 : b \in 0 .. W - 1 /\ b \notin 0 .. k - 1
  BY <1>0
<1>7. \A y : Bits(y) = {b \in 0 .. W - 1 : (y \div Pow2[b]) % 2 = 1}
  BY DEF Bits
<1> HIDE DEF x, k, W
<1>8. \A b : b \in Bits(x) <=> b \in Bits(v) \cup (k .. W - 1)
  <2> TAKE b
  <2>1. CASE b \in 0 .. k - 1
    <3>1. b \in Bits(x) <=> b \in Bits(v)
      BY <1>2, <1>7, <2>1
    <3> QED
      BY <1>6, <2>1, <3>1
  <2>2. CASE b \in k .. W - 1
    BY <1>3, <1>6, <1>7, <2>2
  <2>3. CASE b \notin 0 .. k - 1 /\ b \notin k .. W - 1
    BY <1>4, <1>5, <1>7, <2>3
  <2> QED
    BY <2>1, <2>2, <2>3
<1>9. Bits(x) = Bits(v) \cup (k .. W - 1)
  BY <1>8
<1> QED
  BY <1>9 DEF x, k, W

\* The bits of ~w.
LEMMA OtherBits ==
  ASSUME NEW w \in 0 .. Reg - 1
  PROVE  Bits(Reg - 1 - w) = (0 .. 8 * UnitBits - 1) \ Bits(w)
<1> DEFINE W == 8 * UnitBits
           x == Reg - 1 - w
<1>0. W \in Nat /\ Reg \in Nat
  BY SearchLibAssumption, Widths
<1>1. ASSUME NEW b \in 0 .. W - 1
      PROVE  (x \div Pow2[b]) % 2 = 1 <=> (w \div Pow2[b]) % 2 # 1
  <2> DEFINE p == Pow2[b]
             q == Pow2[W - 1 - b]
             d == w \div p
             r == w % p
  <2>1. p \in Nat \ {0} /\ q \in Nat \ {0} /\ Reg = p * (2 * q)
    BY Weights
  <2>2. w \in Int
    BY <1>0
  <2>3. d \in Int
    BY <2>1, <2>2, Divided
  <2>4. r \in 0 .. p - 1
    BY <2>1, <2>2, Divided
  <2>5. w = p * d + r
    BY <2>1, <2>2, Divided
  <2> HIDE DEF p, q, d, r
  <2>6. /\ x = p * (2 * q - 1 - d) + (p - 1 - r) /\ x \in Int /\ 2 * q - 1 - d \in Int
        /\ p - 1 - r \in 0 .. p - 1
    BY <1>0, <2>1, <2>2, <2>3, <2>4, <2>5
  <2> HIDE DEF x
  <2>7. x \div p = 2 * q - 1 - d
    BY <2>1, <2>6, Quotient
  <2>8. (2 * q - 1 - d) % 2 = 1 <=> d % 2 # 1
    BY <2>1, <2>3
  <2> QED
    BY <2>7, <2>8 DEF p, d
<1>2. \A y : Bits(y) = {b \in 0 .. W - 1 : (y \div Pow2[b]) % 2 = 1}
  BY DEF Bits
<1> HIDE DEF x, W
<1>3. Bits(x) = (0 .. W - 1) \ Bits(w)
  BY <1>1, <1>2
<1> QED
  BY <1>3 DEF x, W

\* The bits of an operand: those of the value, and the bits above them when it
\* is negative in a signed search.
LEMMA OperandBits ==
  ASSUME S.Size \in {1, 2, 4}, NEW v \in 0 .. Span(S.Size) - 1
  PROVE  /\ Bits(v) \subseteq 0 .. S.Size * UnitBits - 1
         /\ Bits(Operand(S, v)) =
              IF Meant(v) < 0 THEN Bits(v) \cup (S.Size * UnitBits .. 8 * UnitBits - 1) ELSE Bits(v)
         /\ Meant(v) < 0 <=> "SIGNED" \in S.TypeEx /\ S.Size * UnitBits - 1 \in Bits(v)
         /\ Meant(v) >= 0 => Meant(v) = v /\ Operand(S, v) = v
         /\ Meant(v) \in Int
<1>1. S.Size \in 1 .. 8 /\ S.Size \in 0 .. 8 /\ Span(S.Size) \in Nat /\ v \in Nat /\ v < Span(S.Size)
  BY Widths
<1>2. SignBit(v, S.Size) <=> S.Size * UnitBits - 1 \in Bits(v)
  BY <1>1, TopBit
<1>3. v % Span(S.Size) = v
  BY <1>1
<1>4. Bits(v) \subseteq 0 .. S.Size * UnitBits - 1
  BY <1>1, LowBits
<1>5. CASE "SIGNED" \in S.TypeEx /\ SignBit(v, S.Size)
  <2>1. Meant(v) = v - Span(S.Size) /\ Operand(S, v) = v + (Reg - Span(S.Size))
    BY <1>3, <1>5 DEF Meant, Operand, SignExtend64
  <2>2. Bits(v + (Reg - Span(S.Size))) = Bits(v) \cup (S.Size * UnitBits .. 8 * UnitBits - 1)
    BY <1>1, ExtendedBits
  <2>3. Meant(v) < 0 /\ Meant(v) \in Int
    BY <1>1, <2>1
  <2> QED
    BY <1>2, <1>4, <1>5, <2>1, <2>2, <2>3
<1>6. CASE ~("SIGNED" \in S.TypeEx /\ SignBit(v, S.Size))
  <2>1. Meant(v) = v /\ Operand(S, v) = v
    BY <1>6 DEF Meant, Operand, SignExtend64
  <2>2. ~(Meant(v) < 0) /\ Meant(v) \in Int
    BY <1>1, <2>1
  <2> QED
    BY <1>2, <1>4, <1>6, <2>1, <2>2
<1> QED
  BY <1>5, <1>6

\* Zero has no bits.
LEMMA NoBits == Bits(0) = {}
<1>1. 0 \in 0 .. Span(0) - 1 /\ 0 * UnitBits = 0
  BY Widths, SearchLibAssumption
<1> QED
  BY <1>1, LowBits

-----------------------------------------------------------------------------
(* The labels about bits.                                                  *)

\* The wild digits of a search for a known value stand for either bit.
LEMMA WildLabel ==
  ASSUME S.Size \in {1, 2, 4}, NEW n \in 0 .. Span(S.Size) - 1, NEW v0 \in 0 .. Span(S.Size) - 1,
         NEW wild \in 0 .. Span(S.Size) - 1, Bits(v0) \cap Bits(wild) = {},
         Meant(n) >= 0 \/ SignBit(Reg - 1 - wild, S.Size)
  PROVE  Bits(Operand(S, n)) \cap Bits(Operand(S, Reg - 1 - wild)) = Bits(Operand(S, v0))
           <=> \A b \in (0 .. S.Size * UnitBits - 1) \ Bits(wild) : b \in Bits(n) <=> b \in Bits(v0)
<1> DEFINE M == Span(S.Size)
           v1 == Reg - 1 - wild
           k == S.Size * UnitBits
           W == 8 * UnitBits
           lo == 0 .. k - 1
           hi == k .. W - 1
           n1 == Bits(n)
           v == Bits(v0)
           w == Bits(wild)
<1>1. M \in Nat \ {0} /\ Reg \in Nat /\ M <= Reg /\ Span(8 - S.Size) \in Nat \ {0} /\ Reg = M * Span(8 - S.Size)
  <2>1. S.Size \in 0 .. 8 /\ 8 - S.Size \in 0 .. 8 /\ S.Size + (8 - S.Size) = 8 /\ 8 \in 0 .. 8
    OBVIOUS
  <2>2. Span(S.Size + (8 - S.Size)) = Span(S.Size) * Span(8 - S.Size)
    BY <2>1, SpanAdd
  <2>3. M \in Nat \ {0} /\ Reg \in Nat /\ Span(8 - S.Size) \in Nat \ {0} /\ Reg = Span(8)
    BY <2>1, Widths
  <2>4. Reg = M * Span(8 - S.Size)
    BY <2>1, <2>2, <2>3
  <2> QED
    BY <2>3, <2>4
<1>2. v1 % M = M - 1 - wild
  <2> DEFINE c == Span(8 - S.Size)
  <2> HIDE DEF c, M
  <2>1. v1 = M * (c - 1) + (M - 1 - wild) /\ v1 \in Int /\ c - 1 \in Int /\ M - 1 - wild \in 0 .. M - 1
    BY <1>1 DEF c, M
  <2> HIDE DEF v1
  <2> QED
    BY <1>1, <2>1, Quotient
<1>3. SignBit(v1, S.Size) <=> k - 1 \notin w
  <2>1. S.Size \in 1 .. 8
    OBVIOUS
  <2>2. SignBit(wild, S.Size) <=> k - 1 \in w
    BY <2>1, TopBit
  <2>3. wild % M = wild
    <3>1. M \in Nat \ {0} /\ wild \in 0 .. M - 1
      BY <1>1
    <3> HIDE DEF M
    <3> QED
      BY <3>1
  <2>4. SignBit(wild, S.Size) <=> 2 * wild >= M
    BY <2>3 DEF SignBit
  <2>5. SignBit(v1, S.Size) <=> 2 * (M - 1 - wild) >= M
    BY <1>2 DEF SignBit
  <2>6. \E h \in Int : M = 2 * h
    <3>1. k - 1 \in 0 .. W - 1 /\ k \in 0 .. W /\ k - 1 \in 0 .. W /\ (k - 1) + 1 = k /\ k <= W
      <4>1. k - 1 \in 0 .. W - 1 /\ UnitBits \in Nat
        BY <2>1, TopBit, SearchLibAssumption
      <4> QED
        BY <4>1
    <3>2. Pow2[k] = 2 * Pow2[k - 1] /\ Pow2[k - 1] \in Nat
      BY <3>1, Powers
    <3> QED
      BY <3>2 DEF Span
  <2>7. 2 * (M - 1 - wild) >= M <=> ~(2 * wild >= M)
    BY <1>1, <2>6
  <2> QED
    BY <2>2, <2>4, <2>5, <2>7
<1>4. Operand(S, v1) = v1
  <2>1. CASE "SIGNED" \in S.TypeEx /\ SignBit(v1, S.Size)
    <3>1. Operand(S, v1) = (v1 % M) + (Reg - M)
      BY <2>1 DEF Operand, SignExtend64
    <3> QED
      BY <1>1, <1>2, <3>1
  <2>2. CASE ~("SIGNED" \in S.TypeEx /\ SignBit(v1, S.Size))
    BY <2>2 DEF Operand, SignExtend64
  <2> QED
    BY <2>1, <2>2
<1>5. Bits(v1) = (0 .. W - 1) \ w
  <2>1. wild \in 0 .. Reg - 1
    BY <1>1
  <2> QED
    BY <2>1, OtherBits
<1>6. /\ n1 \subseteq lo /\ Bits(Operand(S, n)) = (IF Meant(n) < 0 THEN n1 \cup hi ELSE n1)
      /\ Meant(n) < 0 <=> "SIGNED" \in S.TypeEx /\ k - 1 \in n1
      /\ Meant(n) \in Int
  BY OperandBits
<1>7. /\ v \subseteq lo /\ Bits(Operand(S, v0)) = (IF Meant(v0) < 0 THEN v \cup hi ELSE v)
      /\ Meant(v0) < 0 <=> "SIGNED" \in S.TypeEx /\ k - 1 \in v
  BY OperandBits
<1>8. w \subseteq lo
  BY OperandBits
<1>9. lo \subseteq 0 .. W - 1 /\ hi \subseteq 0 .. W - 1 /\ lo \cap hi = {} /\ k - 1 \in lo
  <2>1. S.Size \in 1 .. 8 /\ 0 \in 0 .. M - 1
    BY <1>1
  <2>2. k - 1 \in 0 .. W - 1 /\ UnitBits \in Nat
    BY <2>1, TopBit, SearchLibAssumption
  <2>3. k \in Int /\ W \in Int /\ 1 <= k /\ k <= W
    BY <2>2
  <2> QED
    BY <2>3
<1>10. Meant(n) < 0 => k - 1 \notin w
  BY <1>3, <1>6
<1>11. v \cap w = {}
  OBVIOUS
<1>12. SUFFICES Bits(Operand(S, n)) \cap ((0 .. W - 1) \ w) = Bits(Operand(S, v0))
                  <=> \A b \in lo \ w : b \in n1 <=> b \in v
  BY <1>4, <1>5, Zenon
<1> DEFINE all == 0 .. W - 1
           top == k - 1
<1> HIDE DEF M, v1, k, W, lo, hi, n1, v, w, all, top
<1>13. /\ n1 \subseteq lo /\ v \subseteq lo /\ w \subseteq lo /\ v \cap w = {}
       /\ lo \subseteq all /\ hi \subseteq all /\ lo \cap hi = {} /\ top \in lo
  BY <1>6, <1>7, <1>8, <1>9, <1>11 DEF all, top
<1>14. SUFFICES Bits(Operand(S, n)) \cap (all \ w) = Bits(Operand(S, v0))
                  <=> \A b \in lo \ w : b \in n1 <=> b \in v
  BY DEF all
<1>15. CASE Meant(n) < 0 /\ Meant(v0) < 0
  <2>1. Bits(Operand(S, n)) = n1 \cup hi /\ Bits(Operand(S, v0)) = v \cup hi
    BY <1>6, <1>7, <1>15
  <2> QED
    BY <1>13, <2>1
<1>16. CASE Meant(n) < 0 /\ ~(Meant(v0) < 0)
  <2>1. Bits(Operand(S, n)) = n1 \cup hi /\ Bits(Operand(S, v0)) = v
    BY <1>6, <1>7, <1>16
  <2>2. top \in n1 /\ top \notin v /\ top \notin w
    BY <1>6, <1>7, <1>10, <1>16 DEF top
  <2> QED
    BY <1>13, <2>1, <2>2
<1>17. CASE ~(Meant(n) < 0) /\ Meant(v0) < 0
  <2>1. Bits(Operand(S, n)) = n1 /\ Bits(Operand(S, v0)) = v \cup hi
    BY <1>6, <1>7, <1>17
  <2>2. top \notin n1 /\ top \in v /\ top \notin w
    BY <1>6, <1>7, <1>13, <1>17 DEF top
  <2> QED
    BY <1>13, <2>1, <2>2
<1>18. CASE ~(Meant(n) < 0) /\ ~(Meant(v0) < 0)
  <2>1. Bits(Operand(S, n)) = n1 /\ Bits(Operand(S, v0)) = v
    BY <1>6, <1>7, <1>18
  <2> QED
    BY <1>13, <2>1
<1> QED
  BY <1>15, <1>16, <1>17, <1>18

\* The conditions on bits and the labels decide alike.
LEMMA BitLabels ==
  ASSUME S.Size \in {1, 2, 4}, S.Type \in BitTypes,
         NEW n \in 0 .. Span(S.Size) - 1, NEW o \in 0 .. Span(S.Size) - 1,
         NEW v0 \in 0 .. Span(S.Size) - 1, NEW v1, NEW O,
         S.Type = "KNOWN_WILD" =>
           \E wild \in 0 .. Span(S.Size) - 1 : Bits(v0) \cap Bits(wild) = {} /\ v1 = Reg - 1 - wild,
         S.Type \notin AbsoluteTypes => O = Operand(S, o),
         Comparable(n, o, v0, v1)
  PROVE  ~TurnedOff(S, Operand(S, n), O, Operand(S, v0), Operand(S, v1))
           <=> BitLabel(S.Type, n, o, v0, v1)
<1> DEFINE k == S.Size * UnitBits
           W == 8 * UnitBits
           lo == 0 .. k - 1
           hi == k .. W - 1
           N == Operand(S, n)
           P == Operand(S, o)
           V0 == Operand(S, v0)
           V1 == Operand(S, v1)
           Differ(x, y) == {b \in lo : (b \in Bits(x)) # (b \in Bits(y))}
<1>0. SUFFICES ~TurnedOff(S, N, O, V0, V1) <=> BitLabel(S.Type, n, o, v0, v1)
  OBVIOUS
<1>1. /\ Bits(n) \subseteq lo /\ Bits(N) = (IF Meant(n) < 0 THEN Bits(n) \cup hi ELSE Bits(n))
      /\ Meant(n) < 0 <=> "SIGNED" \in S.TypeEx /\ k - 1 \in Bits(n)
      /\ Meant(n) >= 0 => N = n
      /\ Meant(n) \in Int
  BY OperandBits
<1>2. /\ Bits(o) \subseteq lo /\ Bits(P) = (IF Meant(o) < 0 THEN Bits(o) \cup hi ELSE Bits(o))
      /\ Meant(o) \in Int
  BY OperandBits
<1>3. /\ Bits(v0) \subseteq lo /\ Bits(V0) = (IF Meant(v0) < 0 THEN Bits(v0) \cup hi ELSE Bits(v0))
      /\ Meant(v0) < 0 <=> "SIGNED" \in S.TypeEx /\ k - 1 \in Bits(v0)
      /\ Meant(v0) >= 0 => V0 = v0
      /\ Meant(v0) \in Int
  BY OperandBits
<1>4. lo \cap hi = {}
  <2>1. k \in Int /\ W \in Int
    BY SearchLibAssumption
  <2> QED
    BY <2>1
<1>5. Differ(n, 0) = Bits(n)
  BY <1>1, NoBits
<1>6. CASE S.Type = "KNOWN_WILD"
  <2>1. PICK wild \in 0 .. Span(S.Size) - 1 : Bits(v0) \cap Bits(wild) = {} /\ v1 = Reg - 1 - wild
    BY <1>6
  <2>2. Meant(n) >= 0 \/ SignBit(Reg - 1 - wild, S.Size)
    BY <1>6, <2>1 DEF Comparable
  <2>3. Bits(N) \cap Bits(V1) = Bits(V0) <=> \A b \in lo \ Bits(wild) : b \in Bits(n) <=> b \in Bits(v0)
    BY <2>1, <2>2, WildLabel
  <2>4. TurnedOff(S, N, O, V0, V1) <=> Bits(N) \cap Bits(V1) # Bits(V0)
    BY <1>6 DEF TurnedOff
  <2>5. BitLabel(S.Type, n, o, v0, v1) <=> \A b \in lo \cap Bits(v1) : b \notin Differ(n, v0)
    BY <1>6 DEF BitLabel
  <2>6. lo \cap Bits(v1) = lo \ Bits(wild)
    <3>1. wild \in 0 .. Reg - 1 /\ lo \subseteq 0 .. W - 1
      <4>1. S.Size \in 0 .. 8
        OBVIOUS
      <4>2. k \in 0 .. W
        BY <4>1, WidthBits
      <4>3. Span(S.Size) \in 2 .. Span(4) /\ 16 * Span(4) <= Reg /\ Reg \in Nat
        BY Widths
      <4>4. wild \in 0 .. Reg - 1
        <5>1. Span(4) \in Nat /\ Span(S.Size) <= Reg /\ Span(S.Size) \in Nat
          BY <4>3, Widths
        <5> QED
          BY <4>3, <5>1
      <4>5. 8 * UnitBits \in Nat
        BY SearchLibAssumption
      <4>6. lo \subseteq 0 .. W - 1
        BY <4>2, <4>5
      <4> QED
        BY <4>4, <4>6
    <3>2. Bits(Reg - 1 - wild) = (0 .. W - 1) \ Bits(wild)
      BY <3>1, OtherBits
    <3> QED
      BY <2>1, <3>1, <3>2
  <2> HIDE DEF N, V0, V1, lo
  <2>7. (\A b \in lo \cap Bits(v1) : b \notin Differ(n, v0))
          <=> (\A b \in lo \ Bits(wild) : b \in Bits(n) <=> b \in Bits(v0))
    BY <2>6
  <2> QED
    BY <2>3, <2>4, <2>5, <2>7
<1>7. CASE S.Type = "EQUAL_NUM_BITS"
  <2>1. N = n /\ V0 = v0
    BY <1>1, <1>3, <1>7 DEF Comparable
  <2>2. TurnedOff(S, N, O, V0, V1) <=> BitCount(N) # V0
    BY <1>7 DEF TurnedOff
  <2>3. BitLabel(S.Type, n, o, v0, v1) <=> Cardinality(Differ(n, 0)) = v0
    BY <1>7 DEF BitLabel
  <2> QED
    BY <1>5, <2>1, <2>2, <2>3 DEF BitCount
<1>8. CASE S.Type = "NEQUAL_TO_BITS"
  <2>1. N = n /\ V0 = v0
    BY <1>1, <1>3, <1>8 DEF Comparable
  <2>2. TurnedOff(S, N, O, V0, V1) <=> BitCount(N) = V0
    BY <1>8 DEF TurnedOff
  <2>3. BitLabel(S.Type, n, o, v0, v1) <=> Cardinality(Differ(n, 0)) # v0
    BY <1>8 DEF BitLabel
  <2> QED
    BY <1>5, <2>1, <2>2, <2>3 DEF BitCount
<1>9. CASE S.Type = "NEQUAL_BY_BITS"
  <2>1. SameSign(Meant(n), Meant(o)) /\ V0 = v0
    BY <1>3, <1>9 DEF Comparable
  <2>2. O = P
    BY <1>9 DEF AbsoluteTypes
  <2>3. TurnedOff(S, N, P, V0, V1) <=> Cardinality((Bits(N) \ Bits(P)) \cup (Bits(P) \ Bits(N))) # V0
    BY <1>9 DEF TurnedOff
  <2>4. BitLabel(S.Type, n, o, v0, v1) <=> Cardinality(Differ(n, o)) = v0
    BY <1>9 DEF BitLabel
  <2>5. (Bits(N) \ Bits(P)) \cup (Bits(P) \ Bits(N)) = Differ(n, o)
    <3>1. Meant(n) < 0 <=> Meant(o) < 0
      BY <2>1 DEF SameSign
    <3> HIDE DEF N, P, lo, hi
    <3> QED
      BY <1>1, <1>2, <1>4, <3>1
  <2> QED
    BY <2>1, <2>2, <2>3, <2>4, <2>5
<1>10. CASE S.Type = "BITS_ANY"
  <2>1. TurnedOff(S, N, O, V0, V1) <=> Bits(N) \cap Bits(V0) = {}
    BY <1>10 DEF TurnedOff
  <2>2. BitLabel(S.Type, n, o, v0, v1) <=> \E b \in Bits(v0) : b \notin Differ(n, v0)
    BY <1>10 DEF BitLabel
  <2> DEFINE top == k - 1
  <2> HIDE DEF N, V0, V1, lo, hi, top
  <2>3. Meant(n) < 0 /\ Meant(v0) < 0 => top \in Bits(n) /\ top \in Bits(v0)
    BY <1>1, <1>3 DEF top
  <2>4. Bits(N) \cap Bits(V0) # {} <=> Bits(n) \cap Bits(v0) # {}
    BY <1>1, <1>3, <1>4, <2>3
  <2>5. (\E b \in Bits(v0) : b \notin Differ(n, v0)) <=> Bits(n) \cap Bits(v0) # {}
    BY <1>3
  <2> QED
    BY <2>1, <2>2, <2>4, <2>5
<1>11. CASE S.Type = "BITS_ALL"
  <2>1. TurnedOff(S, N, O, V0, V1) <=> ~(Bits(V0) \subseteq Bits(N))
    BY <1>11 DEF TurnedOff
  <2>2. BitLabel(S.Type, n, o, v0, v1) <=> \A b \in Bits(v0) : b \notin Differ(n, v0)
    BY <1>11 DEF BitLabel
  <2> DEFINE top == k - 1
  <2> HIDE DEF N, V0, V1, lo, hi, top
  <2>3. /\ Meant(v0) < 0 /\ ~(Meant(n) < 0) => top \in Bits(v0) /\ top \notin Bits(n)
    BY <1>1, <1>3 DEF top
  <2>4. Bits(V0) \subseteq Bits(N) <=> Bits(v0) \subseteq Bits(n)
    BY <1>1, <1>3, <1>4, <2>3
  <2>5. (\A b \in Bits(v0) : b \notin Differ(n, v0)) <=> Bits(v0) \subseteq Bits(n)
    BY <1>3
  <2> QED
    BY <2>1, <2>2, <2>4, <2>5
<1> QED
  BY <1>6, <1>7, <1>8, <1>9, <1>10, <1>11 DEF BitTypes

-----------------------------------------------------------------------------
(* Values in memory.                                                       *)

\* The sums of LittleEndian, byte after byte.
Sums(ram, a, n, g) ==
  g = [i \in 0 .. n |-> IF i = 0 THEN 0 ELSE g[i - 1] + ram[a + i - 1] * Span(i - 1)]

Low(ram, a, n) == CHOOSE g : Sums(ram, a, n, g)

\* There are such sums for any number of bytes.
LEMMA LowSums ==
  ASSUME NEW ram, NEW a \in Int
  PROVE  \A n \in Nat : \E g : Sums(ram, a, n, g)
<1> DEFINE Short == {n \in Nat : ~\E g : Sums(ram, a, n, g)}
<1>1. SUFFICES ASSUME Short # {} PROVE FALSE
  OBVIOUS
<1>2. PICK n \in Short : \A j \in Short : ~(<<j, n>> \in OpToRel(<, Nat))
  BY <1>1, NatLessThanWellFounded, WFMin
<1>3. n # 0
  <2> DEFINE z == [i \in 0 .. 0 |-> 0]
  <2>1. z = [i \in 0 .. 0 |-> IF i = 0 THEN 0 ELSE z[i - 1] + ram[a + i - 1] * Span(i - 1)]
    OBVIOUS
  <2> QED
    BY <2>1 DEF Sums
<1>4. n \in Nat /\ n - 1 \in Nat /\ n - 1 < n
  BY <1>3
<1>5. n - 1 \notin Short
  BY <1>2, <1>4 DEF OpToRel
<1>6. PICK g : Sums(ram, a, n - 1, g)
  BY <1>4, <1>5
<1> DEFINE h == [i \in 0 .. n |-> IF i = n THEN g[n - 1] + ram[a + n - 1] * Span(n - 1) ELSE g[i]]
<1>7. \A i \in 0 .. n - 1 : g[i] = IF i = 0 THEN 0 ELSE g[i - 1] + ram[a + i - 1] * Span(i - 1)
  BY <1>6, Zenon DEF Sums
<1>8. h[n] = g[n - 1] + ram[a + n - 1] * Span(n - 1) /\ \A i \in 0 .. n - 1 : h[i] = g[i]
  BY <1>4
<1>9. ASSUME NEW i \in 0 .. n
      PROVE  h[i] = IF i = 0 THEN 0 ELSE h[i - 1] + ram[a + i - 1] * Span(i - 1)
  <2> HIDE DEF h
  <2>1. CASE i = n
    <3>1. h[n - 1] = g[n - 1]
      BY <1>4, <1>8
    <3> QED
      BY <1>3, <1>8, <2>1, <3>1
  <2>2. CASE i = 0
    BY <1>4, <1>7, <1>8, <2>2
  <2>3. CASE i # 0 /\ i # n
    <3>1. i \in 0 .. n - 1 /\ i - 1 \in 0 .. n - 1
      BY <1>4, <2>3
    <3> QED
      BY <1>7, <1>8, <2>3, <3>1
  <2> QED
    BY <2>1, <2>2, <2>3
<1>10. h = [i \in 0 .. n |-> h[i]]
  OBVIOUS
<1> HIDE DEF h
<1>11. Sums(ram, a, n, h)
  BY <1>9, <1>10 DEF Sums
<1> QED
  BY <1>11

\* Low gives its sums.
LEMMA LowValues ==
  ASSUME NEW ram, NEW a \in Int, NEW n \in Nat
  PROVE  /\ Low(ram, a, n)[0] = 0
         /\ \A i \in 1 .. n : Low(ram, a, n)[i] = Low(ram, a, n)[i - 1] + ram[a + i - 1] * Span(i - 1)
<1> DEFINE g == Low(ram, a, n)
<1>1. Sums(ram, a, n, g)
  BY LowSums, Zenon DEF Low
<1> HIDE DEF g
<1>2. \A i \in 0 .. n : g[i] = IF i = 0 THEN 0 ELSE g[i - 1] + ram[a + i - 1] * Span(i - 1)
  BY <1>1, Zenon DEF Sums
<1> QED
  BY <1>2 DEF g

\* More bytes make the same sums of the first ones.
LEMMA LowAgrees ==
  ASSUME NEW ram, NEW a \in Int, NEW n \in Nat
  PROVE  \A i \in 0 .. n : Low(ram, a, n)[i] = Low(ram, a, n + 1)[i]
<1> DEFINE g == Low(ram, a, n)
           h == Low(ram, a, n + 1)
           Wrong == {i \in 0 .. n : g[i] # h[i]}
<1>1. SUFFICES ASSUME Wrong # {} PROVE FALSE
  OBVIOUS
<1>2. Wrong \subseteq Nat
  OBVIOUS
<1>3. PICK i \in Wrong : \A j \in Wrong : ~(<<j, i>> \in OpToRel(<, Nat))
  BY <1>1, <1>2, NatLessThanWellFounded, WFMin
<1>4. g[0] = 0 /\ \A j \in 1 .. n : g[j] = g[j - 1] + ram[a + j - 1] * Span(j - 1)
  BY LowValues
<1>5. h[0] = 0 /\ \A j \in 1 .. n : h[j] = h[j - 1] + ram[a + j - 1] * Span(j - 1)
  <2>1. n + 1 \in Nat /\ 1 .. n \subseteq 1 .. n + 1
    OBVIOUS
  <2> QED
    BY <2>1, LowValues
<1> HIDE DEF g, h
<1>6. i \in 1 .. n /\ i - 1 \in 0 .. n /\ i - 1 \in Nat /\ i - 1 < i /\ i \in Nat
  BY <1>4, <1>5
<1>7. i - 1 \notin Wrong
  BY <1>3, <1>6 DEF OpToRel
<1>8. g[i - 1] = h[i - 1]
  BY <1>6, <1>7
<1>9. g[i] = h[i]
  BY <1>4, <1>5, <1>6, <1>8
<1> QED
  BY <1>9

\* One more byte.
LEMMA LittleEndianStep ==
  ASSUME NEW ram, NEW a \in Int, NEW n \in Nat
  PROVE  /\ LittleEndian(ram, a, 0) = 0
         /\ LittleEndian(ram, a, n + 1) = LittleEndian(ram, a, n) + ram[a + n] * Span(n)
<1>1. \A k : LittleEndian(ram, a, k) = Low(ram, a, k)[k]
  BY DEF LittleEndian, Low, Sums
<1>2. Low(ram, a, 0)[0] = 0
  BY LowValues
<1>3. n + 1 \in Nat /\ n + 1 \in 1 .. n + 1 /\ (n + 1) - 1 = n /\ n \in 0 .. n
  OBVIOUS
<1>4. Low(ram, a, n + 1)[n + 1] = Low(ram, a, n + 1)[n] + ram[a + (n + 1) - 1] * Span(n)
  <2>1. Low(ram, a, n + 1)[n + 1]
          = Low(ram, a, n + 1)[(n + 1) - 1] + ram[a + (n + 1) - 1] * Span((n + 1) - 1)
    BY <1>3, LowValues
  <2> QED
    BY <1>3, <2>1
<1>5. Low(ram, a, n)[n] = Low(ram, a, n + 1)[n]
  BY <1>3, LowAgrees
<1> QED
  BY <1>1, <1>2, <1>4, <1>5

\* A value of n bytes, and its first ones.
LEMMA MemoryValues ==
  ASSUME NEW ram, NEW a \in Int, NEW n \in 0 .. 8, \A i \in 0 .. n - 1 : ram[a + i] \in Bytes
  PROVE  LittleEndian(ram, a, n) \in 0 .. Span(n) - 1
<1> DEFINE Wrong == {k \in 0 .. n : LittleEndian(ram, a, k) \notin 0 .. Span(k) - 1}
<1>1. SUFFICES ASSUME Wrong # {} PROVE FALSE
  OBVIOUS
<1>2. Wrong \subseteq Nat
  OBVIOUS
<1>3. PICK k \in Wrong : \A j \in Wrong : ~(<<j, k>> \in OpToRel(<, Nat))
  BY <1>1, <1>2, NatLessThanWellFounded, WFMin
<1>4. k # 0
  <2>1. LittleEndian(ram, a, 0) = 0
    <3>1. 0 \in Nat
      OBVIOUS
    <3> QED
      BY <3>1, LittleEndianStep
  <2>2. Span(0) = 1
    BY Widths
  <2>3. LittleEndian(ram, a, 0) \in 0 .. Span(0) - 1
    BY <2>1, <2>2
  <2> QED
    BY <2>3
<1> DEFINE m == k - 1
<1>5. k \in Nat /\ m \in Nat /\ m < k /\ m \in 0 .. n - 1 /\ m \in 0 .. 8 /\ k = m + 1 /\ m \in 0 .. n
  BY <1>4
<1> HIDE DEF m
<1>6. m \notin Wrong
  BY <1>3, <1>5 DEF OpToRel
<1>7. LittleEndian(ram, a, m) \in 0 .. Span(m) - 1
  BY <1>5, <1>6
<1>8. LittleEndian(ram, a, k) = LittleEndian(ram, a, m) + ram[a + m] * Span(m)
  BY <1>5, LittleEndianStep
<1>9. Span(k) = Span(m) * Span(1) /\ Span(m) \in Nat \ {0} /\ Span(1) \in Nat \ {0}
  <2>1. m \in 0 .. 8 /\ 1 \in 0 .. 8 /\ m + 1 <= 8
    BY <1>5
  <2> QED
    BY <1>5, <2>1, SpanAdd, Widths
<1>10. ram[a + m] \in 0 .. Span(1) - 1
  BY <1>5 DEF Bytes
<1> DEFINE l == LittleEndian(ram, a, m)
           b == ram[a + m]
           s == Span(m)
           u == Span(1)
<1>11. LittleEndian(ram, a, k) \in 0 .. Span(k) - 1
  <2> SUFFICES l + b * s \in 0 .. s * u - 1
    BY <1>8, <1>9
  <2>1. l \in 0 .. s - 1 /\ b \in 0 .. u - 1 /\ s \in Nat \ {0} /\ u \in Nat \ {0}
    BY <1>7, <1>9, <1>10
  <2> HIDE DEF l, b, s, u
  <2>2. b * s >= 0 /\ b * s <= (u - 1) * s
    BY <2>1
  <2>3. (u - 1) * s = s * u - s
    BY <2>1
  <2>4. b * s \in Int /\ s * u \in Int
    BY <2>1
  <2> QED
    BY <2>1, <2>2, <2>3, <2>4
<1> QED
  BY <1>11

\* The values of one and two bytes.
LEMMA SmallValues ==
  ASSUME NEW ram, NEW a \in Int, ram[a] \in Int
  PROVE  /\ LittleEndian(ram, a, 1) = ram[a]
         /\ LittleEndian(ram, a, 2) = ram[a] + ram[a + 1] * Span(1)
<1>0. 0 \in Nat /\ 1 \in Nat /\ 0 + 1 = 1 /\ 1 + 1 = 2 /\ a + 0 = a
  OBVIOUS
<1>1. LittleEndian(ram, a, 0) = 0 /\ LittleEndian(ram, a, 0 + 1) = LittleEndian(ram, a, 0) + ram[a + 0] * Span(0)
  BY <1>0, LittleEndianStep
<1>2. LittleEndian(ram, a, 1 + 1) = LittleEndian(ram, a, 1) + ram[a + 1] * Span(1)
  BY <1>0, LittleEndianStep
<1>3. Span(0) = 1
  BY Widths
<1>4. ram[a] * 1 = ram[a]
  OBVIOUS
<1>5. LittleEndian(ram, a, 1) = ram[a]
  BY <1>0, <1>1, <1>3, <1>4
<1> QED
  BY <1>0, <1>2, <1>5

-----------------------------------------------------------------------------
(* A search of a dump of one value.                                        *)

\* An array, and a file where it can, gives the value in memory.
LEMMA PointReads ==
  ASSUME S.Size \in {1, 2, 4}, call.Access \in {"array", "file"},
         NEW ram \in [0 .. S.Size - 1 -> Bytes], ReadsTrue(ram)
  PROVE  /\ Memory(ram, 0, S.Size) \in 0 .. Span(S.Size) - 1
         /\ GetSearchValues(call.Access, call.Ltr, ram, 0, S.Size) = Memory(ram, 0, S.Size)
<1>1. Memory(ram, 0, S.Size) \in 0 .. Span(S.Size) - 1
  <2>1. 0 \in Int /\ S.Size \in 0 .. 8 /\ \A i \in 0 .. S.Size - 1 : ram[0 + i] \in Bytes
    OBVIOUS
  <2> QED
    BY <2>1, MemoryValues DEF Memory
<1>2. ram[0] \in Int
  BY Widths DEF Bytes
<1>3. GetSearchValues(call.Access, call.Ltr, ram, 0, S.Size) = Memory(ram, 0, S.Size)
  <2>1. CASE call.Access = "array"
    BY <2>1 DEF GetSearchValues, ArrayValue, Memory
  <2>2. CASE call.Access = "file" /\ S.Size = 1
    <3>1. GetSearchValues(call.Access, call.Ltr, ram, 0, S.Size) = ram[0]
      BY <2>2 DEF GetSearchValues, FileValue
    <3> QED
      BY <1>2, <2>2, <3>1, SmallValues DEF Memory
  <2>3. CASE call.Access = "file" /\ S.Size = 2
    <3>1. call.Ltr
      BY <2>3 DEF ReadsTrue
    <3>2. GetSearchValues(call.Access, call.Ltr, ram, 0, S.Size) = ram[0] + ram[0 + 1] * Span(1)
      BY <2>3, <3>1 DEF GetSearchValues, FileValue
    <3> QED
      BY <1>2, <2>3, <3>2, SmallValues DEF Memory
  <2>4. CASE call.Access = "file" /\ S.Size = 4
    <3>1. ~SignBit(Memory(ram, 0, 4), 4)
      BY <2>4 DEF ReadsTrue
    <3>2. GetSearchValues(call.Access, call.Ltr, ram, 0, S.Size) = Getw(ram, 0)
      BY <2>4 DEF GetSearchValues, FileValue
    <3> QED
      BY <2>4, <3>1, <3>2 DEF Getw, SignExtend64, Memory
  <2> QED
    BY <2>1, <2>2, <2>3, <2>4
<1> QED
  BY <1>1, <1>3

\* The numbers a user may type are of the size of the search.
LEMMA Typed ==
  ASSUME NEW n \in {1, 2, 4}, NEW v \in Numbers(n)
  PROVE  v \in 0 .. Span(n) - 1
<1>1. Span(n) \in Nat /\ Span(n) >= 2
  BY Widths
<1>2. v \in {0, 1, 2, Span(n) \div 2 - 1, Span(n) \div 2, Span(n) - 1} /\ v < Span(n)
  BY DEF Numbers
<1>3. Span(n) \div 2 \in Nat /\ Span(n) \div 2 >= 1
  BY <1>1
<1> QED
  BY <1>1, <1>2, <1>3

\* Without an extended option a result stays unless its type of search turns it off.
LEMMA PointStays ==
  ASSUME NEW T, T.TypeEx \subseteq {"SIGNED"}, NEW d, NEW m, NEW nv, NEW ov
  PROVE  0 \in CodeSearch(T, d, m, nv, ov, {0}).Results
           <=> ~TurnedOff(T, Operand(T, nv[0]), Operand(T, ov[0]),
                          Operand(T, T.Values[0]), Operand(T, T.Values[1]))
<1> DEFINE verdict == [a \in {0} |-> Verdict(T, m, a, nv[a], ov[a])]
           left == {a \in {0} : verdict[a] # "off"}
           count == Cardinality({a \in {0} : verdict[a] = "keep"})
           off == TurnedOff(T, Operand(T, nv[0]), Operand(T, ov[0]),
                            Operand(T, T.Values[0]), Operand(T, T.Values[1]))
<1>1. T.TypeEx \cap ConsecFlags = {} /\ "OR_EQUAL" \notin T.TypeEx
  BY DEF ConsecFlags
<1>2. CodeSearch(T, d, m, nv, ov, {0}) = [Results |-> left, ResCount |-> count]
  BY <1>1 DEF CodeSearch
<1>3. CodeSearch(T, d, m, nv, ov, {0}).Results = left
  BY <1>2
<1>4. 0 \in left <=> Verdict(T, m, 0, nv[0], ov[0]) # "off"
  OBVIOUS
<1>5. ~Ignored(T, m, 0, nv[0])
  <2>1. \A f \in T.TypeEx : f = "SIGNED"
    OBVIOUS
  <2>2. \A part \in {"BYTE", "SHORT", "WORD", "DWORD"} :
          IGNORE_VALUE(part) \notin T.TypeEx /\ IGNORE_RANGE(part) \notin T.TypeEx
    BY <2>1 DEF IGNORE_VALUE, IGNORE_RANGE
  <2> QED
    BY <2>1, <2>2 DEF Ignored
<1>6. Verdict(T, m, 0, nv[0], ov[0]) = IF off THEN "off" ELSE "keep"
  BY <1>1, <1>5, Zenon DEF Verdict
<1> QED
  BY <1>3, <1>4, <1>6

\* A search keeps exactly the values its label names, in a dump of one, two or
\* four bytes: TypesMeanLabel, whatever the width of a byte.
LEMMA PointLabels ==
  ASSUME Searched
  PROVE  TypesMeanLabel
<1>1. SUFFICES ASSUME IsPoint, HasOld \/ S.Type \in AbsoluteTypes, ReadsTrue(call.New),
                      HasOld => ReadsTrue(call.Old),
                      Comparable(NewInMemory, OldInMemory, S.Values[0], S.Values[1])
               PROVE  0 \in results <=> LabelKeeps(NewInMemory, OldInMemory)
  BY Zenon DEF TypesMeanLabel
<1> DEFINE n == NewInMemory
           o == OldInMemory
           v0 == S.Values[0]
           v1 == S.Values[1]
<1>2. PointShape /\ S.Size \in {1, 2, 4} /\ S.TypeEx \subseteq {"SIGNED"}
  <2>1. Shape /\ S.TypeEx \subseteq {"SIGNED"} /\ S.Size < 8
    BY <1>1 DEF Searched, IsPoint
  <2>2. \A f \in Filters \cup ConsecFlags : ~OneOption(f)
    BY <2>1 DEF OneOption, Filters, ConsecFlags, ValueFilters, AddressFilters, PartFilters, PartSize,
                IGNORE_VALUE, IGNORE_RANGE
  <2>3. PointShape
    BY <2>1, <2>2 DEF Shape, FilterShape, ConsecShape
  <2> QED
    BY <2>1, <2>3 DEF PointShape
<1>3. /\ call.DumpSize = S.Size /\ call.Results = {0} /\ call.Access \in {"array", "file"}
      /\ call.New \in [0 .. S.Size - 1 -> Bytes]
      /\ HasOld => call.Old \in [0 .. S.Size - 1 -> Bytes]
  BY <1>2 DEF PointShape, HasOld
<1>4. n \in 0 .. Span(S.Size) - 1 /\ GetSearchValues(call.Access, call.Ltr, call.New, 0, S.Size) = n
  BY <1>1, <1>2, <1>3, PointReads DEF NewInMemory
<1>5. o \in 0 .. Span(S.Size) - 1
      /\ (HasOld => GetSearchValues(call.Access, call.Ltr, call.Old, 0, S.Size) = o)
  <2>1. CASE HasOld
    BY <1>1, <1>2, <1>3, <2>1, PointReads DEF OldInMemory
  <2>2. CASE ~HasOld
    <3>1. o = 0 /\ Span(S.Size) \in Nat /\ Span(S.Size) >= 2
      BY <1>2, <2>2, Widths DEF OldInMemory
    <3> QED
      BY <2>2, <3>1
  <2> QED
    BY <2>1, <2>2
<1>6. v0 \in 0 .. Span(S.Size) - 1
  <2>1. v0 \in Numbers(S.Size) \/ v0 \in 0 .. Span(S.Size) - 1
    BY <1>2 DEF PointShape
  <2> QED
    BY <1>2, <2>1, Typed
<1>7. S.Type \in RangeTypes => v1 \in 0 .. Span(S.Size) - 1
  <2>1. S.Type \in RangeTypes => v1 \in Numbers(S.Size)
    BY <1>2 DEF PointShape, RangeTypes, SearchTypes
  <2> QED
    BY <1>2, <2>1, Typed
<1>8. S.Type = "KNOWN_WILD" =>
        \E wild \in 0 .. Span(S.Size) - 1 : Bits(v0) \cap Bits(wild) = {} /\ v1 = Reg - 1 - wild
  BY <1>2 DEF PointShape, RangeTypes, SearchTypes
<1>9. S.Type \in SearchTypes \cup RangeTypes \cup {"KNOWN_WILD"}
  BY <1>2 DEF PointShape
<1>10. PICK junk : results = Found(junk).Results
  BY <1>1 DEF Searched, IsPoint
<1> DEFINE nv == ValuesOf(call.New)
           ov == IF call.Old = NoDump THEN [a \in DOMAIN nv |-> junk] ELSE ValuesOf(call.Old)
<1>11. Found(junk) = CodeSearch(S, call.DumpSize, call.MapMemAddy, nv, ov, {0})
  BY <1>3 DEF Found, S
<1>12. 0 \in Addresses(call.DumpSize, call.S.Size)
  BY <1>2, <1>3 DEF S
<1>13. nv[0] = n
  BY <1>4, <1>12 DEF ValuesOf, S
<1>14. HasOld => ov[0] = o
  BY <1>5, <1>12 DEF ValuesOf, HasOld, S
<1> HIDE DEF n, o, v0, v1, nv, ov
<1>15. 0 \in results <=> ~TurnedOff(S, Operand(S, nv[0]), Operand(S, ov[0]), Operand(S, v0), Operand(S, v1))
  BY <1>2, <1>10, <1>11, PointStays DEF v0, v1
<1> DEFINE O == Operand(S, ov[0])
<1>16. S.Type \notin AbsoluteTypes => O = Operand(S, o)
  BY <1>1, <1>14
<1> HIDE DEF O
<1>17. 0 \in results <=> ~TurnedOff(S, Operand(S, n), O, Operand(S, v0), Operand(S, v1))
  BY <1>13, <1>15 DEF O
<1>18. Comparable(n, o, v0, v1)
  BY <1>1 DEF n, o, v0, v1
<1>19. LabelKeeps(n, o) <=> IF S.Type \in BitTypes THEN BitLabel(S.Type, n, o, v0, v1)
                           ELSE Label(S.Type, Meant(n), Meant(o), Meant(v0), Meant(v1))
  BY DEF LabelKeeps, v0, v1
<1>20. CASE S.Type \in BitTypes
  <2>1. ~TurnedOff(S, Operand(S, n), O, Operand(S, v0), Operand(S, v1)) <=> BitLabel(S.Type, n, o, v0, v1)
    BY <1>2, <1>4, <1>5, <1>6, <1>8, <1>16, <1>18, <1>20, BitLabels
  <2>2. 0 \in results <=> LabelKeeps(n, o)
    BY <1>17, <1>19, <1>20, <2>1
  <2> QED
    BY <2>2 DEF n, o
<1>21. CASE S.Type \notin BitTypes
  <2>0. S.Type \in (SearchTypes \cup RangeTypes) \ BitTypes
    BY <1>9, <1>21 DEF BitTypes
  <2>1. ~TurnedOff(S, Operand(S, n), O, Operand(S, v0), Operand(S, v1))
          <=> Label(S.Type, Meant(n), Meant(o), Meant(v0), Meant(v1))
    BY <1>2, <1>4, <1>5, <1>6, <1>7, <1>16, <1>18, <2>0, NumberLabels
  <2>2. 0 \in results <=> LabelKeeps(n, o)
    BY <1>17, <1>19, <1>21, <2>1
  <2> QED
    BY <2>2 DEF n, o
<1> QED
  BY <1>20, <1>21

\* Every type of search keeps exactly the values its label in the search window
\* names (tab_search.c:85-109), signed or not, for every pair of dumps of one,
\* two or four bytes and every width of a byte, as far as the program's u64
\* arithmetic compares like the integers do (Comparable).
THEOREM TypesMeanLabelCorrect == Spec => []TypesMeanLabel
  BY PointLabels, SearchedInvariant, PTL
-----------------------------------------------------------------------------
(* A search for nothing with a filter.                                     *)

\* A filter is none of the other extended options.
LEMMA FilterAlone ==
  ASSUME NEW f \in Filters, OneOption(f)
  PROVE  /\ S.TypeEx = {f} /\ S.TypeEx \cap ConsecFlags = {}
         /\ "OR_EQUAL" \notin S.TypeEx /\ "SIGNED" \notin S.TypeEx
<1>1. S.TypeEx = {f}
  BY DEF OneOption
<1>2. f \notin ConsecFlags /\ f # "OR_EQUAL" /\ f # "SIGNED"
  BY DEF Filters, ConsecFlags, ValueFilters, AddressFilters, PartFilters, PartSize,
         IGNORE_VALUE, IGNORE_RANGE
<1> QED
  BY <1>1, <1>2

\* A result stays unless the filter ignores it.
LEMMA FilterStays ==
  ASSUME NEW f \in Filters, OneOption(f), NEW d, NEW m, NEW nv, NEW ov, NEW R, NEW a \in R
  PROVE  a \in CodeSearch(S, d, m, nv, ov, R).Results <=> ~Ignored(S, m, a, nv[a])
<1> DEFINE verdict == [b \in R |-> Verdict(S, m, b, nv[b], ov[b])]
           left == {b \in R : verdict[b] # "off"}
           count == Cardinality({b \in R : verdict[b] = "keep"})
           off == TurnedOff(S, Operand(S, nv[a]), Operand(S, ov[a]),
                            Operand(S, S.Values[0]), Operand(S, S.Values[1]))
<1>1. S.TypeEx \cap ConsecFlags = {} /\ "OR_EQUAL" \notin S.TypeEx /\ "SIGNED" \notin S.TypeEx
  BY FilterAlone
<1>2. CodeSearch(S, d, m, nv, ov, R) = [Results |-> left, ResCount |-> count]
  BY <1>1 DEF CodeSearch
<1>3. CodeSearch(S, d, m, nv, ov, R).Results = left
  BY <1>2
<1>4. a \in left <=> Verdict(S, m, a, nv[a], ov[a]) # "off"
  OBVIOUS
<1>5. ~off
  <2>1. S.Type = "BITS_ALL" /\ Operand(S, S.Values[0]) = 0
    BY <1>1 DEF OneOption, Operand
  <2>2. off <=> ~(Bits(0) \subseteq Bits(Operand(S, nv[a])))
    BY <2>1 DEF TurnedOff
  <2> QED
    BY <2>2, NoBits
<1>6. Verdict(S, m, a, nv[a], ov[a]) = IF Ignored(S, m, a, nv[a]) THEN "off" ELSE "keep"
  BY <1>1, <1>5, Zenon DEF Verdict
<1> QED
  BY <1>3, <1>4, <1>6

\* What each filter alone ignores.
LEMMA OnlyOneIgnores ==
  ASSUME NEW f \in Filters, OneOption(f), NEW m, NEW a, NEW v
  PROVE  LET x1 == Ex1(S, f)
             x2 == Ex2(S, f)
             off == Ignored(S, m, a, v)
         IN  /\ f = "IGNORE_0" => (off <=> v = 0)
             /\ f = "IGNORE_FF" => (off <=> v = Span(S.Size) - 1)
             /\ f = "IGNORE_VALUE" => (off <=> v = x1)
             /\ f = "IGNORE_IN_RANGE" => (off <=> Within(v, x1, x2))
             /\ f = "IGNORE_NOT_RANGE" => (off <=> v <= x1 \/ v >= x2)
             /\ f = "INCLUDE_ADDRESS_RANGE" => (off <=> ~Within(BitOr(a, m), x1, x2))
             /\ f = "EXCLUDE_UPPER16" => (off <=> S.Size = 2 /\ a % 4 = 0)
             /\ f = "EXCLUDE_LOWER16" => (off <=> S.Size = 2 /\ a % 4 # 0)
             /\ \A p \in DOMAIN PartSize :
                  /\ f = IGNORE_VALUE(p) => (off <=> x1 \in Parts(p, a, v, S.Size))
                  /\ f = IGNORE_RANGE(p) => (off <=> \E x \in Parts(p, a, v, S.Size) : Within(x, x1, x2))
<1> DEFINE x1 == Ex1(S, f)
           x2 == Ex2(S, f)
           off == Ignored(S, m, a, v)
           parts == {"BYTE", "SHORT", "WORD", "DWORD"}
           OffByPart(p) == \/ f = IGNORE_VALUE(p) /\ x1 \in Parts(p, a, v, S.Size)
                           \/ f = IGNORE_RANGE(p) /\ \E x \in Parts(p, a, v, S.Size) : Within(x, x1, x2)
<1>1. \A g : g \in S.TypeEx <=> g = f
  BY FilterAlone
<1>2. off <=> \/ f = "INCLUDE_ADDRESS_RANGE" /\ ~Within(BitOr(a, m), x1, x2)
              \/ f = "IGNORE_0" /\ v = 0
              \/ f = "IGNORE_FF" /\ v = Span(S.Size) - 1
              \/ f = "IGNORE_VALUE" /\ v = x1
              \/ f = "IGNORE_IN_RANGE" /\ Within(v, x1, x2)
              \/ f = "IGNORE_NOT_RANGE" /\ (v <= x1 \/ v >= x2)
              \/ \E p \in parts : OffByPart(p)
              \/ f = "EXCLUDE_UPPER16" /\ S.Size = 2 /\ a % 4 = 0
              \/ f = "EXCLUDE_LOWER16" /\ S.Size = 2 /\ a % 4 # 0
  BY <1>1, Zenon DEF Ignored
<1>3. \A p, q \in parts : /\ IGNORE_VALUE(p) = IGNORE_VALUE(q) => p = q
                          /\ IGNORE_RANGE(p) = IGNORE_RANGE(q) => p = q
                          /\ IGNORE_VALUE(p) # IGNORE_RANGE(q)
  BY DEF IGNORE_VALUE, IGNORE_RANGE
<1>4. \A p \in parts : {IGNORE_VALUE(p), IGNORE_RANGE(p)} \cap
        ({"IGNORE_0", "IGNORE_FF", "IGNORE_VALUE", "IGNORE_IN_RANGE", "IGNORE_NOT_RANGE",
          "INCLUDE_ADDRESS_RANGE", "EXCLUDE_UPPER16", "EXCLUDE_LOWER16"}) = {}
  BY DEF IGNORE_VALUE, IGNORE_RANGE
<1>5. DOMAIN PartSize = parts
  BY DEF PartSize
<1> HIDE DEF x1, x2, off, parts, OffByPart
<1>6. f \in {"IGNORE_0", "IGNORE_FF", "IGNORE_VALUE", "IGNORE_IN_RANGE", "IGNORE_NOT_RANGE",
             "INCLUDE_ADDRESS_RANGE", "EXCLUDE_UPPER16", "EXCLUDE_LOWER16"}
        => \A p \in parts : ~OffByPart(p)
  BY <1>4 DEF OffByPart
<1>7. ASSUME NEW p \in parts
      PROVE  /\ f = IGNORE_VALUE(p) => (off <=> x1 \in Parts(p, a, v, S.Size))
             /\ f = IGNORE_RANGE(p) => (off <=> \E x \in Parts(p, a, v, S.Size) : Within(x, x1, x2))
  <2>1. CASE f \in {IGNORE_VALUE(p), IGNORE_RANGE(p)}
    <3>1. off <=> \E q \in parts : OffByPart(q)
      BY <1>2, <1>4, <2>1
    <3>2. \A q \in parts : OffByPart(q) => q = p
      BY <1>3, <2>1 DEF OffByPart
    <3>3. off <=> OffByPart(p)
      BY <3>1, <3>2
    <3>4. /\ f = IGNORE_VALUE(p) => (OffByPart(p) <=> x1 \in Parts(p, a, v, S.Size))
          /\ f = IGNORE_RANGE(p) => (OffByPart(p) <=> \E x \in Parts(p, a, v, S.Size) : Within(x, x1, x2))
      BY <1>3 DEF OffByPart
    <3> QED
      BY <3>3, <3>4
  <2>2. CASE f \notin {IGNORE_VALUE(p), IGNORE_RANGE(p)}
    BY <2>2
  <2> QED
    BY <2>1, <2>2
<1>8. /\ f = "IGNORE_0" => (off <=> v = 0)
      /\ f = "IGNORE_FF" => (off <=> v = Span(S.Size) - 1)
      /\ f = "IGNORE_VALUE" => (off <=> v = x1)
      /\ f = "IGNORE_IN_RANGE" => (off <=> Within(v, x1, x2))
      /\ f = "IGNORE_NOT_RANGE" => (off <=> v <= x1 \/ v >= x2)
      /\ f = "INCLUDE_ADDRESS_RANGE" => (off <=> ~Within(BitOr(a, m), x1, x2))
      /\ f = "EXCLUDE_UPPER16" => (off <=> S.Size = 2 /\ a % 4 = 0)
      /\ f = "EXCLUDE_LOWER16" => (off <=> S.Size = 2 /\ a % 4 # 0)
  <2> DEFINE u == v <= x1 \/ v >= x2
             w == Within(v, x1, x2)
             z == Within(BitOr(a, m), x1, x2)
             y == v = Span(S.Size) - 1
             s == S.Size = 2 /\ a % 4 = 0
             t == S.Size = 2 /\ a % 4 # 0
             o == \E p \in parts : OffByPart(p)
  <2>1. off <=> \/ f = "INCLUDE_ADDRESS_RANGE" /\ ~z
                \/ f = "IGNORE_0" /\ v = 0
                \/ f = "IGNORE_FF" /\ y
                \/ f = "IGNORE_VALUE" /\ v = x1
                \/ f = "IGNORE_IN_RANGE" /\ w
                \/ f = "IGNORE_NOT_RANGE" /\ u
                \/ o
                \/ f = "EXCLUDE_UPPER16" /\ s
                \/ f = "EXCLUDE_LOWER16" /\ t
    BY <1>2, Zenon
  <2>2. f \in {"IGNORE_0", "IGNORE_FF", "IGNORE_VALUE", "IGNORE_IN_RANGE", "IGNORE_NOT_RANGE",
               "INCLUDE_ADDRESS_RANGE", "EXCLUDE_UPPER16", "EXCLUDE_LOWER16"} => ~o
    BY <1>6
  <2> SUFFICES /\ f = "IGNORE_0" => (off <=> v = 0)
               /\ f = "IGNORE_FF" => (off <=> y)
               /\ f = "IGNORE_VALUE" => (off <=> v = x1)
               /\ f = "IGNORE_IN_RANGE" => (off <=> w)
               /\ f = "IGNORE_NOT_RANGE" => (off <=> u)
               /\ f = "INCLUDE_ADDRESS_RANGE" => (off <=> ~z)
               /\ f = "EXCLUDE_UPPER16" => (off <=> s)
               /\ f = "EXCLUDE_LOWER16" => (off <=> t)
    BY Zenon
  <2> HIDE DEF u, w, z, y, s, t, o
  <2> QED
    BY <2>1, <2>2
<1> QED
  BY <1>5, <1>7, <1>8, Zenon DEF x1, x2, off

-----------------------------------------------------------------------------
(* Parts of a value in memory.                                             *)

\* A value is its first bytes and, that much higher, the others.
LEMMA Split ==
  ASSUME NEW ram, NEW a \in Int, NEW m \in 0 .. 8, NEW n \in 0 .. 8, m + n <= 8,
         \A i \in 0 .. m + n - 1 : ram[a + i] \in Bytes
  PROVE  LittleEndian(ram, a, m + n) = LittleEndian(ram, a, m) + Span(m) * LittleEndian(ram, a + m, n)
<1> DEFINE Splits(k) == LittleEndian(ram, a, m + k) = LittleEndian(ram, a, m) + Span(m) * LittleEndian(ram, a + m, k)
           Wrong == {k \in 0 .. n : ~Splits(k)}
<1>1. SUFFICES ASSUME Wrong # {} PROVE FALSE
  OBVIOUS
<1>2. Wrong \subseteq Nat
  OBVIOUS
<1>3. PICK k \in Wrong : \A j \in Wrong : ~(<<j, k>> \in OpToRel(<, Nat))
  BY <1>1, <1>2, NatLessThanWellFounded, WFMin
<1>4. LittleEndian(ram, a, m) \in Int /\ Span(m) \in Nat \ {0}
  <2>1. \A i \in 0 .. m - 1 : ram[a + i] \in Bytes
    OBVIOUS
  <2>2. LittleEndian(ram, a, m) \in 0 .. Span(m) - 1
    BY <2>1, MemoryValues
  <2> QED
    BY <2>2, Widths
<1>5. k # 0
  <2>1. 0 \in Nat /\ m + 0 = m /\ a + m \in Int
    OBVIOUS
  <2>2. LittleEndian(ram, a + m, 0) = 0
    BY <2>1, LittleEndianStep
  <2>3. Splits(0)
    BY <1>4, <2>1, <2>2
  <2> QED
    BY <2>3
<1> DEFINE j == k - 1
<1>6. /\ k \in Nat /\ j \in Nat /\ j < k /\ j \in 0 .. n /\ k = j + 1 /\ j \in 0 .. 8 /\ m + j <= 8
      /\ m + j \in Nat /\ m + k = (m + j) + 1 /\ m + j \in 0 .. m + n - 1 /\ a + m \in Int
      /\ a + (m + j) = (a + m) + j
  BY <1>5
<1> HIDE DEF j
<1>7. Splits(j)
  <2>1. j \notin Wrong
    BY <1>3, <1>6 DEF OpToRel
  <2> QED
    BY <1>6, <2>1
<1>8. LittleEndian(ram, a, m + k) = LittleEndian(ram, a, m + j) + ram[a + (m + j)] * Span(m + j)
  BY <1>6, LittleEndianStep
<1>9. LittleEndian(ram, a + m, k) = LittleEndian(ram, a + m, j) + ram[(a + m) + j] * Span(j)
  BY <1>6, LittleEndianStep
<1>10. Span(m + j) = Span(m) * Span(j) /\ Span(j) \in Nat \ {0}
  BY <1>6, SpanAdd, Widths
<1>11. ram[(a + m) + j] \in Int
  <2>1. ram[a + (m + j)] \in Bytes
    BY <1>6
  <2> QED
    BY <1>6, <2>1, Widths DEF Bytes
<1>12. LittleEndian(ram, a + m, j) \in Int
  <2>1. ASSUME NEW i \in 0 .. j - 1
        PROVE  ram[(a + m) + i] \in Bytes
    <3>1. m + i \in 0 .. m + n - 1 /\ (a + m) + i = a + (m + i)
      BY <1>6
    <3> QED
      BY <3>1
  <2>2. LittleEndian(ram, a + m, j) \in 0 .. Span(j) - 1
    BY <1>6, <2>1, MemoryValues
  <2> QED
    BY <1>10, <2>2
<1> DEFINE L == LittleEndian(ram, a, m)
           l == LittleEndian(ram, a + m, j)
           b == ram[(a + m) + j]
           s == Span(m)
           u == Span(j)
<1>13. Splits(k)
  <2> SUFFICES (L + s * l) + b * (s * u) = L + s * (l + b * u)
    BY <1>6, <1>7, <1>8, <1>9, <1>10
  <2>1. L \in Int /\ l \in Int /\ b \in Int /\ s \in Int /\ u \in Int
    BY <1>4, <1>10, <1>11, <1>12
  <2> HIDE DEF L, l, b, s, u
  <2>2. s * (l + b * u) = s * l + s * (b * u)
    BY <2>1
  <2>3. b * (s * u) = s * (b * u)
    BY <2>1
  <2> QED
    BY <2>1, <2>2, <2>3
<1> QED
  BY <1>13

\* Some of the bytes of a value, as the Byte-, Short- and WordFromU64 of lib_misc.c
\* cut them out.
LEMMA Part ==
  ASSUME NEW ram, NEW a \in Int, NEW n \in 0 .. 8, \A i \in 0 .. n - 1 : ram[a + i] \in Bytes,
         NEW m \in 0 .. n, NEW k \in 0 .. n, m + k <= n
  PROVE  (LittleEndian(ram, a, n) \div Span(m)) % Span(k) = LittleEndian(ram, a + m, k)
<1> DEFINE r == n - m
           t == r - k
           V == LittleEndian(ram, a, n)
           L == LittleEndian(ram, a, m)
           H == LittleEndian(ram, a + m, r)
           X == LittleEndian(ram, a + m, k)
           Y == LittleEndian(ram, (a + m) + k, t)
<1>1. /\ m \in 0 .. 8 /\ k \in 0 .. 8 /\ r \in 0 .. 8 /\ t \in 0 .. 8 /\ m + r = n /\ k + t = r
      /\ a + m \in Int /\ (a + m) + k \in Int
  OBVIOUS
<1>2. /\ \A i \in 0 .. m - 1 : ram[a + i] \in Bytes
      /\ \A i \in 0 .. r - 1 : ram[(a + m) + i] \in Bytes
      /\ \A i \in 0 .. k - 1 : ram[(a + m) + i] \in Bytes
      /\ \A i \in 0 .. t - 1 : ram[((a + m) + k) + i] \in Bytes
  <2>1. ASSUME NEW i \in 0 .. r - 1
        PROVE  ram[(a + m) + i] \in Bytes
    <3>1. m + i \in 0 .. n - 1 /\ (a + m) + i = a + (m + i)
      OBVIOUS
    <3> QED
      BY <3>1
  <2>2. ASSUME NEW i \in 0 .. t - 1
        PROVE  ram[((a + m) + k) + i] \in Bytes
    <3>1. m + k + i \in 0 .. n - 1 /\ ((a + m) + k) + i = a + (m + k + i)
      OBVIOUS
    <3> QED
      BY <3>1
  <2>3. \A i \in 0 .. m - 1 : ram[a + i] \in Bytes
    OBVIOUS
  <2>4. \A i \in 0 .. k - 1 : i \in 0 .. r - 1
    OBVIOUS
  <2> HIDE DEF r, t
  <2> QED
    BY <2>1, <2>2, <2>3, <2>4
<1> HIDE DEF r, t
<1>3. L \in 0 .. Span(m) - 1 /\ H \in 0 .. Span(r) - 1 /\ X \in 0 .. Span(k) - 1 /\ Y \in 0 .. Span(t) - 1
  BY <1>1, <1>2, MemoryValues
<1>4. V = L + Span(m) * H
  <2>1. \A i \in 0 .. m + r - 1 : ram[a + i] \in Bytes
    BY <1>1
  <2>2. LittleEndian(ram, a, m + r) = L + Span(m) * H
    BY <1>1, <2>1, Split
  <2> QED
    BY <1>1, <2>2
<1>5. H = X + Span(k) * Y
  <2>1. \A i \in 0 .. k + t - 1 : ram[(a + m) + i] \in Bytes
    BY <1>1, <1>2
  <2> DEFINE b == a + m
  <2>2. b \in Int /\ k \in 0 .. 8 /\ t \in 0 .. 8 /\ k + t <= 8
    BY <1>1
  <2>3. \A i \in 0 .. k + t - 1 : ram[b + i] \in Bytes
    BY <2>1
  <2> HIDE DEF b
  <2>4. LittleEndian(ram, b, k + t) = LittleEndian(ram, b, k) + Span(k) * LittleEndian(ram, b + k, t)
    BY <2>2, <2>3, Split, SMTT(60)
  <2> QED
    BY <1>1, <2>4 DEF b
<1>6. Span(m) \in Nat \ {0} /\ Span(k) \in Nat \ {0} /\ Span(r) \in Nat /\ Span(t) \in Nat
  BY <1>1, Widths
<1> HIDE DEF V, L, H, X, Y
<1>7. V = Span(m) * H + L /\ V \in Int /\ H \in Int
  BY <1>3, <1>4, <1>6
<1>8. V \div Span(m) = H
  BY <1>3, <1>6, <1>7, Quotient
<1>9. H = Span(k) * Y + X /\ Y \in Int
  BY <1>3, <1>5, <1>6
<1>10. H % Span(k) = X
  BY <1>3, <1>6, <1>7, <1>9, Quotient
<1> QED
  BY <1>8, <1>10 DEF V, X

\* From b on, other has the n bytes that ram has from a on.
SameFrom(ram, a, other, b, n) == \A i \in 0 .. n - 1 : ram[a + i] = other[b + i]

\* The same bytes make the same value.
LEMMA SameBytes ==
  ASSUME NEW ram, NEW a \in Int, NEW other, NEW b \in Int, NEW n \in Nat,
         SameFrom(ram, a, other, b, n)
  PROVE  LittleEndian(ram, a, n) = LittleEndian(other, b, n)
<1> DEFINE Wrong == {k \in 0 .. n : LittleEndian(ram, a, k) # LittleEndian(other, b, k)}
<1>1. SUFFICES ASSUME Wrong # {} PROVE FALSE
  OBVIOUS
<1>2. Wrong \subseteq Nat
  OBVIOUS
<1>3. PICK k \in Wrong : \A j \in Wrong : ~(<<j, k>> \in OpToRel(<, Nat))
  BY <1>1, <1>2, NatLessThanWellFounded, WFMin
<1>4. k # 0
  <2>1. 0 \in Nat
    OBVIOUS
  <2>2. LittleEndian(ram, a, 0) = 0 /\ LittleEndian(other, b, 0) = 0
    BY <2>1, LittleEndianStep
  <2> QED
    BY <2>2
<1> DEFINE j == k - 1
<1>5. k \in Nat /\ j \in Nat /\ j < k /\ j \in 0 .. n /\ j \in 0 .. n - 1 /\ k = j + 1
  BY <1>4
<1> HIDE DEF j
<1>6. LittleEndian(ram, a, j) = LittleEndian(other, b, j)
  <2>1. j \notin Wrong
    BY <1>3, <1>5 DEF OpToRel
  <2> QED
    BY <1>5, <2>1
<1>7. LittleEndian(ram, a, k) = LittleEndian(ram, a, j) + ram[a + j] * Span(j)
  BY <1>5, LittleEndianStep
<1>8. LittleEndian(other, b, k) = LittleEndian(other, b, j) + other[b + j] * Span(j)
  BY <1>5, LittleEndianStep
<1>9. ram[a + j] = other[b + j]
  BY <1>5 DEF SameFrom
<1>10. LittleEndian(ram, a, k) = LittleEndian(other, b, k)
  BY <1>6, <1>7, <1>8, <1>9
<1> QED
  BY <1>10
\* The value at an address is LittleEndian of a dump whose words are exchanged for
\* a doubleword (MAKEU64 takes the low half first).
Turned(ram, n) == IF n = 8 THEN [i \in 0 .. 7 |-> ram[(i + 4) % 8]] ELSE ram

\* Where a value is in the dump, and that it has the bytes of the turned dump.
LEMMA TurnedValues ==
  ASSUME NEW n \in {1, 2, 4, 8}, NEW ram \in [0 .. 7 -> Bytes], NEW a \in Addresses(8, n)
  PROVE  /\ a \in Nat /\ a + n <= 8 /\ n \in 0 .. 8 /\ (n = 8 => a = 0)
         /\ \A i \in 0 .. n - 1 : Turned(ram, n)[a + i] \in Bytes
         /\ ArrayValue(ram, a, n) = LittleEndian(Turned(ram, n), a, n)
         /\ ArrayValue(ram, a, n) \in 0 .. Span(n) - 1
<1>1. a \in Nat /\ a + n <= 8 /\ n \in 0 .. 8 /\ (n = 8 => a = 0)
  <2>1. a \in 0 .. 7 /\ a % n = 0
    OBVIOUS
  <2>2. CASE n = 1
    BY <2>1, <2>2
  <2>3. CASE n = 2
    BY <2>1, <2>3
  <2>4. CASE n = 4
    BY <2>1, <2>4
  <2>5. CASE n = 8
    BY <2>1, <2>5
  <2> QED
    BY <2>2, <2>3, <2>4, <2>5
<1>2. \A i \in 0 .. n - 1 : Turned(ram, n)[a + i] \in Bytes
  <2>1. CASE n = 8
    <3>1. Turned(ram, n) = [i \in 0 .. 7 |-> ram[(i + 4) % 8]]
      BY <2>1 DEF Turned
    <3>2. \A i \in 0 .. 7 : (i + 4) % 8 \in 0 .. 7
      OBVIOUS
    <3>3. \A i \in 0 .. 7 : Turned(ram, n)[i] \in Bytes
      BY <3>1, <3>2
    <3>4. \A i \in 0 .. n - 1 : a + i \in 0 .. 7
      BY <1>1, <2>1
    <3> QED
      BY <3>3, <3>4
  <2>2. CASE n # 8
    <3>1. Turned(ram, n) = ram
      BY <2>2 DEF Turned
    <3>2. \A i \in 0 .. n - 1 : a + i \in 0 .. 7
      BY <1>1
    <3> QED
      BY <3>1, <3>2
  <2> QED
    BY <2>1, <2>2
<1>3. ArrayValue(ram, a, n) = LittleEndian(Turned(ram, n), a, n)
  <2>1. CASE n = 8
    <3> DEFINE w == Turned(ram, n)
    <3>1. w = [i \in 0 .. 7 |-> ram[(i + 4) % 8]] /\ a = 0
      BY <1>1, <2>1 DEF Turned
    <3>2. \A i \in 0 .. 3 : w[0 + i] = ram[4 + i] /\ w[4 + i] = ram[0 + i]
      BY <3>1
    <3>3. \A i \in 0 .. 7 : w[0 + i] \in Bytes
      BY <1>2, <2>1, <3>1
    <3> HIDE DEF w
    <3>4. 0 \in Int /\ 4 \in Int /\ 4 \in Nat /\ 4 \in 0 .. 8 /\ 4 + 4 = 8 /\ 0 + 4 = 4 /\ 4 - 1 = 3
      OBVIOUS
    <3>5. LittleEndian(w, 0, 4) = LittleEndian(ram, 4, 4)
      <4>1. SameFrom(w, 0, ram, 4, 4)
        BY <3>2 DEF SameFrom
      <4> QED
        BY <3>4, <4>1, SameBytes
    <3>6. LittleEndian(w, 4, 4) = LittleEndian(ram, 0, 4)
      <4>1. SameFrom(w, 4, ram, 0, 4)
        BY <3>2 DEF SameFrom
      <4> QED
        BY <3>4, <4>1, SameBytes
    <3>7. \A i \in 0 .. 4 + 4 - 1 : w[0 + i] \in Bytes
      BY <3>3
    <3>8. LittleEndian(w, 0, 4 + 4) = LittleEndian(w, 0, 4) + Span(4) * LittleEndian(w, 0 + 4, 4)
      BY <3>4, <3>7, Split, SMTT(60)
    <3>9. LittleEndian(w, 0, 8) = LittleEndian(ram, 4, 4) + Span(4) * LittleEndian(ram, 0, 4)
      BY <3>4, <3>5, <3>6, <3>8
    <3>10. ArrayValue(ram, 0, 8) = LittleEndian(ram, 4, 4) + LittleEndian(ram, 0, 4) * Span(4)
      BY DEF ArrayValue
    <3>11. LittleEndian(ram, 0, 4) \in Int /\ Span(4) \in Int
      <4>1. \A i \in 0 .. 4 - 1 : ram[0 + i] \in Bytes
        OBVIOUS
      <4>2. LittleEndian(ram, 0, 4) \in 0 .. Span(4) - 1
        BY <3>4, <4>1, MemoryValues
      <4> QED
        BY <3>4, <4>2, Widths
    <3>12. ArrayValue(ram, 0, 8) = LittleEndian(w, 0, 8)
      BY <3>9, <3>10, <3>11
    <3> QED
      BY <2>1, <3>1, <3>12 DEF w
  <2>2. CASE n # 8
    BY <2>2 DEF ArrayValue, Turned
  <2> QED
    BY <2>1, <2>2
<1>4. LittleEndian(Turned(ram, n), a, n) \in 0 .. Span(n) - 1
  <2> DEFINE w == Turned(ram, n)
  <2> HIDE DEF w
  <2>1. a \in Int /\ \A i \in 0 .. n - 1 : w[a + i] \in Bytes
    BY <1>1, <1>2 DEF w
  <2>2. LittleEndian(w, a, n) \in 0 .. Span(n) - 1
    BY <1>1, <2>1, MemoryValues
  <2> QED
    BY <2>2 DEF w
<1> QED
  BY <1>1, <1>2, <1>3, <1>4

\* Where the byte with number i of the value at a is in memory.
Where(a, n, i) == IF n = 8 THEN (i + 4) % 8 ELSE a + i

\* The k bytes of a value from the one with number i on are as many bytes in memory.
LEMMA Cut ==
  ASSUME NEW n \in {1, 2, 4, 8}, NEW ram \in [0 .. 7 -> Bytes], NEW a \in Addresses(8, n),
         NEW k \in {1, 2, 4}, NEW i \in 0 .. 7, i + k <= n,
         n = 8 => ((i + 4) % 8) + k <= 8
  PROVE  (ArrayValue(ram, a, n) \div Span(i)) % Span(k) = LittleEndian(ram, Where(a, n, i), k)
<1> DEFINE w == Turned(ram, n)
<1>1. /\ a \in Int /\ a + n <= 8 /\ n \in 0 .. 8 /\ (n = 8 => a = 0)
      /\ \A j \in 0 .. n - 1 : w[a + j] \in Bytes
      /\ ArrayValue(ram, a, n) = LittleEndian(w, a, n)
  BY TurnedValues
<1>2. i \in 0 .. n /\ k \in 0 .. n /\ k \in Nat /\ a + i \in Int
  BY <1>1
<1>3. Where(a, n, i) \in Int
  BY <1>1 DEF Where
<1>4. \A j \in 0 .. k - 1 : w[(a + i) + j] = ram[Where(a, n, i) + j]
  <2>1. CASE n = 8
    <3>1. w = [j \in 0 .. 7 |-> ram[(j + 4) % 8]] /\ a = 0 /\ Where(a, n, i) = (i + 4) % 8
      BY <1>1, <2>1 DEF Turned, Where
    <3>2. ASSUME NEW j \in 0 .. k - 1
          PROVE  i + j \in 0 .. 7 /\ ((i + j) + 4) % 8 = ((i + 4) % 8) + j
      <4>1. CASE k = 1
        BY <4>1
      <4>2. CASE k = 2
        BY <4>2
      <4>3. CASE k = 4
        BY <4>3
      <4> QED
        BY <4>1, <4>2, <4>3
    <3> QED
      BY <3>1, <3>2
  <2>2. CASE n # 8
    BY <2>2 DEF Turned, Where
  <2> QED
    BY <2>1, <2>2
<1> HIDE DEF w
<1>5. LittleEndian(w, a + i, k) = LittleEndian(ram, Where(a, n, i), k)
  <2> DEFINE b == a + i
             c == Where(a, n, i)
  <2>1. b \in Int /\ c \in Int /\ k \in Nat
    BY <1>2, <1>3
  <2>2. SameFrom(w, b, ram, c, k)
    BY <1>4 DEF SameFrom
  <2> HIDE DEF b, c
  <2>3. LittleEndian(w, b, k) = LittleEndian(ram, c, k)
    BY <2>1, <2>2, SameBytes
  <2> QED
    BY <2>3 DEF b, c
<1>6. (LittleEndian(w, a, n) \div Span(i)) % Span(k) = LittleEndian(w, a + i, k)
  BY <1>1, <1>2, Part, SMTT(60)
<1> QED
  BY <1>1, <1>5, <1>6
\* The parts CodeSearch cuts out of a value are the aligned parts of the memory at
\* its address, for the filters and sizes of FilterSees.
LEMMA PartsFound ==
  ASSUME NEW p \in DOMAIN PartSize, S.Size \in {1, 2, 4, 8}, call.New \in [0 .. 7 -> Bytes],
         NEW a \in Addresses(8, S.Size),
         S.Size = 8 \/ p = "BYTE" \/ (p = "WORD" /\ S.Size = 4 /\ a % 8 = 4)
  PROVE  Parts(p, a, AsRead(a), S.Size) = PartsInMemory(p, a)
<1> DEFINE n == S.Size
           ram == call.New
           v == ArrayValue(ram, a, n)
           M(b, k) == LittleEndian(ram, b, k)
           Piece(i, k) == (v \div Span(i)) % Span(k)
<1>1. n \in {1, 2, 4, 8} /\ ram \in [0 .. 7 -> Bytes] /\ a \in Addresses(8, n)
  OBVIOUS
<1>2. a \in Nat /\ a + n <= 8 /\ (n = 8 => a = 0)
  <2> HIDE DEF n, ram
  <2> QED
    BY <1>1, TurnedValues
<1>3. ASSUME NEW k \in {1, 2, 4}, NEW i \in 0 .. 7, i + k <= n, n = 8 => ((i + 4) % 8) + k <= 8
      PROVE  Piece(i, k) = M(Where(a, n, i), k)
  <2> HIDE DEF n, ram
  <2> QED
    BY <1>1, <1>3, Cut
<1>4. AsRead(a) = v
  BY DEF AsRead
<1>5. CASE p = "DWORD"
  <2>1. Parts(p, a, v, n) = {v}
    BY <1>5 DEF Parts
  <2>2. PartsInMemory(p, a) = {v}
    BY <1>4, <1>5 DEF PartsInMemory
  <2> QED
    BY <1>4, <2>1, <2>2
<1>6. CASE p = "BYTE"
  <2> DEFINE I == 0 .. n - 1
             B == {c \in a .. a + n - 1 : c % 1 = 0}
  <2>1. Parts(p, a, v, n) = {ByteFromU64(v, 7 - i) : i \in I}
    BY <1>6 DEF Parts
  <2>2. PartsInMemory(p, a) = {M(b, 1) : b \in B}
    <3>1. PartSize[p] = 1 /\ p # "DWORD"
      BY <1>6 DEF PartSize
    <3> QED
      BY <3>1 DEF PartsInMemory, Memory
  <2>3. ASSUME NEW i \in I
        PROVE  ByteFromU64(v, 7 - i) = M(Where(a, n, i), 1)
    <3>1. i \in 0 .. 7 /\ i + 1 <= n /\ (n = 8 => ((i + 4) % 8) + 1 <= 8) /\ 7 - (7 - i) = i
      BY <1>1
    <3>2. ByteFromU64(v, 7 - i) = Piece(i, 1)
      BY <3>1 DEF ByteFromU64
    <3>3. Piece(i, 1) = M(Where(a, n, i), 1)
      <4> HIDE DEF n, v, Piece, M
      <4> QED
        BY <1>3, <3>1
    <3> QED
      BY <3>2, <3>3
  <2>4. \A i \in I : Where(a, n, i) \in B
    BY <1>1, <1>2 DEF Where
  <2>5. ASSUME NEW b \in B
        PROVE  \E i \in I : Where(a, n, i) = b
    <3>1. CASE n = 8
      <4>1. (b + 4) % 8 \in I /\ (((b + 4) % 8) + 4) % 8 = b
        BY <1>2, <3>1
      <4> QED
        BY <3>1, <4>1 DEF Where
    <3>2. CASE n # 8
      <4>1. b - a \in I /\ a + (b - a) = b
        BY <1>1, <1>2
      <4> QED
        BY <3>2, <4>1 DEF Where
    <3> QED
      BY <3>1, <3>2
  <2> HIDE DEF n, v, M, I, B
  <2>6. {ByteFromU64(v, 7 - i) : i \in I} = {M(b, 1) : b \in B}
    BY <2>3, <2>4, <2>5
  <2> QED
    BY <1>4, <2>1, <2>2, <2>6 DEF n
<1>7. CASE p = "SHORT"
  <2>1. n = 8 /\ a = 0
    BY <1>2, <1>7
  <2>2. Parts(p, a, v, n) = {ShortFromU64(v, i) : i \in 0 .. 3}
    <3>1. Shorts(a, n) = 0 .. 3
      BY <2>1 DEF Shorts
    <3> QED
      BY <1>7, <3>1 DEF Parts
  <2>3. PartsInMemory(p, a) = {M(b, 2) : b \in {0, 2, 4, 6}}
    <3>1. PartSize[p] = 2 /\ p # "DWORD"
      BY <1>7 DEF PartSize
    <3>2. {c \in 0 .. 6 : c % 2 = 0} = {0, 2, 4, 6}
      OBVIOUS
    <3>3. a .. a + S.Size - 2 = 0 .. 6
      BY <2>1
    <3> QED
      BY <3>1, <3>2, <3>3 DEF PartsInMemory, Memory
  <2>4. /\ ShortFromU64(v, 0) = Piece(6, 2) /\ ShortFromU64(v, 1) = Piece(4, 2)
        /\ ShortFromU64(v, 2) = Piece(2, 2) /\ ShortFromU64(v, 3) = Piece(0, 2)
    BY DEF ShortFromU64
  <2>5. \A i \in {0, 2, 4, 6} : Piece(i, 2) = M((i + 4) % 8, 2)
    <3> SUFFICES ASSUME NEW i \in {0, 2, 4, 6}
                 PROVE  Piece(i, 2) = M((i + 4) % 8, 2)
      OBVIOUS
    <3>1. i \in 0 .. 7 /\ i + 2 <= n /\ (n = 8 => ((i + 4) % 8) + 2 <= 8)
      BY <2>1
    <3>2. Where(a, n, i) = (i + 4) % 8
      BY <2>1 DEF Where
    <3> HIDE DEF n, v, Piece, M
    <3>3. Piece(i, 2) = M(Where(a, n, i), 2)
      BY <1>3, <3>1
    <3> QED
      BY <3>2, <3>3
  <2>6. /\ Piece(6, 2) = M(2, 2) /\ Piece(4, 2) = M(0, 2)
        /\ Piece(2, 2) = M(6, 2) /\ Piece(0, 2) = M(4, 2)
    <3>1. (6 + 4) % 8 = 2 /\ (4 + 4) % 8 = 0 /\ (2 + 4) % 8 = 6 /\ (0 + 4) % 8 = 4
      OBVIOUS
    <3> HIDE DEF Piece, M
    <3> QED
      BY <2>5, <3>1
  <2>7. 0 .. 3 = {0, 1, 2, 3}
    OBVIOUS
  <2> HIDE DEF n, v, Piece, M
  <2>8. {ShortFromU64(v, i) : i \in 0 .. 3} = {M(b, 2) : b \in {0, 2, 4, 6}}
    BY <2>4, <2>6, <2>7
  <2> QED
    BY <1>4, <2>2, <2>3, <2>8 DEF n
<1>8. CASE p = "WORD" /\ n = 8
  <2>1. a = 0
    BY <1>2, <1>8
  <2>2. Parts(p, a, v, n) = {WordFromU64(v, i) : i \in {0, 1}}
    <3>1. Words(a, n) = {0, 1}
      BY <1>8 DEF Words
    <3> QED
      BY <1>8, <3>1 DEF Parts
  <2>3. PartsInMemory(p, a) = {M(b, 4) : b \in {0, 4}}
    <3>1. PartSize[p] = 4 /\ p # "DWORD"
      BY <1>8 DEF PartSize
    <3>2. {c \in 0 .. 4 : c % 4 = 0} = {0, 4}
      OBVIOUS
    <3>3. a .. a + S.Size - 4 = 0 .. 4
      BY <1>8, <2>1
    <3> QED
      BY <3>1, <3>2, <3>3 DEF PartsInMemory, Memory
  <2>4. WordFromU64(v, 0) = Piece(4, 4) /\ WordFromU64(v, 1) = Piece(0, 4)
    BY DEF WordFromU64
  <2>5. Piece(4, 4) = M(0, 4) /\ Piece(0, 4) = M(4, 4)
    <3>1. /\ 4 \in {1, 2, 4} /\ 4 \in 0 .. 7 /\ 4 + 4 <= n /\ (n = 8 => ((4 + 4) % 8) + 4 <= 8)
          /\ 0 \in 0 .. 7 /\ 0 + 4 <= n /\ (n = 8 => ((0 + 4) % 8) + 4 <= 8)
      BY <1>8
    <3>2. Where(a, n, 4) = 0 /\ Where(a, n, 0) = 4
      BY <1>8 DEF Where
    <3> HIDE DEF n, v, Piece, M
    <3>3. Piece(4, 4) = M(Where(a, n, 4), 4) /\ Piece(0, 4) = M(Where(a, n, 0), 4)
      BY <1>3, <3>1
    <3> QED
      BY <3>2, <3>3
  <2> HIDE DEF n, v, Piece, M
  <2>6. {WordFromU64(v, i) : i \in {0, 1}} = {M(b, 4) : b \in {0, 4}}
    BY <2>4, <2>5
  <2> QED
    BY <1>4, <2>2, <2>3, <2>6 DEF n
<1>9. CASE p = "WORD" /\ n # 8
  <2>1. n = 4 /\ a = 4
    <3>1. S.Size = 4 /\ a % 8 = 4
      BY <1>9
    <3>2. a \in 0 .. 4
      BY <1>2, <3>1
    <3> QED
      BY <3>1, <3>2
  <2>2. Parts(p, a, v, n) = {WordFromU64(v, 1)}
    <3>1. Words(a, n) = {1}
      BY <2>1 DEF Words
    <3> QED
      BY <1>9, <3>1 DEF Parts
  <2>3. PartsInMemory(p, a) = {M(4, 4)}
    <3>1. PartSize[p] = 4 /\ p # "DWORD"
      BY <1>9 DEF PartSize
    <3>2. {c \in 4 .. 4 : c % 4 = 0} = {4}
      OBVIOUS
    <3>3. a .. a + S.Size - 4 = 4 .. 4
      BY <2>1
    <3> QED
      BY <3>1, <3>2, <3>3 DEF PartsInMemory, Memory
  <2>4. WordFromU64(v, 1) = Piece(0, 4)
    BY DEF WordFromU64
  <2>5. Piece(0, 4) = M(4, 4)
    <3>1. 4 \in {1, 2, 4} /\ 0 \in 0 .. 7 /\ 0 + 4 <= n /\ (n = 8 => ((0 + 4) % 8) + 4 <= 8)
      BY <2>1
    <3>2. Where(a, n, 0) = 4
      BY <2>1 DEF Where
    <3> HIDE DEF n, v, Piece, M
    <3>3. Piece(0, 4) = M(Where(a, n, 0), 4)
      BY <1>3, <3>1
    <3> QED
      BY <3>2, <3>3
  <2> HIDE DEF n, v, Piece, M
  <2> QED
    BY <1>4, <2>2, <2>3, <2>4, <2>5 DEF n
<1> QED
  BY <1>5, <1>6, <1>7, <1>8, <1>9 DEF PartSize
\* A value has all its bits set exactly when all its bytes do.
LEMMA AllOnes ==
  ASSUME NEW ram, NEW a \in Int, NEW n \in 0 .. 8, \A i \in 0 .. n - 1 : ram[a + i] \in Bytes
  PROVE  LittleEndian(ram, a, n) = Span(n) - 1 <=> \A i \in 0 .. n - 1 : ram[a + i] = Span(1) - 1
<1> DEFINE Ones(k) == \A i \in 0 .. k - 1 : ram[a + i] = Span(1) - 1
           Full(k) == LittleEndian(ram, a, k) = Span(k) - 1
           Wrong == {k \in 0 .. n : ~(Full(k) <=> Ones(k))}
<1> SUFFICES Full(n) <=> Ones(n)
  OBVIOUS
<1> HIDE DEF Full, Ones
<1>1. SUFFICES ASSUME Wrong # {} PROVE FALSE
  OBVIOUS
<1>2. Wrong \subseteq Nat
  OBVIOUS
<1>3. PICK k \in Wrong : \A j \in Wrong : ~(<<j, k>> \in OpToRel(<, Nat))
  BY <1>1, <1>2, NatLessThanWellFounded, WFMin
<1> USE DEF Full, Ones
<1>4. k # 0
  <2>1. 0 \in Nat
    OBVIOUS
  <2>2. LittleEndian(ram, a, 0) = 0 /\ Span(0) = 1
    BY <2>1, LittleEndianStep, Widths
  <2>3. Full(0) /\ Ones(0)
    BY <2>2
  <2> QED
    BY <2>3
<1> DEFINE j == k - 1
<1>5. /\ k \in Nat /\ j \in Nat /\ j < k /\ j \in 0 .. n /\ j \in 0 .. n - 1 /\ k = j + 1
      /\ j \in 0 .. 8 /\ 1 \in 0 .. 8 /\ j + 1 <= 8 /\ k - 1 = j
  BY <1>4
<1> HIDE DEF j
<1>6. Full(j) <=> Ones(j)
  <2>1. j \notin Wrong
    BY <1>3, <1>5 DEF OpToRel
  <2> QED
    BY <1>5, <2>1
<1> DEFINE L == LittleEndian(ram, a, j)
           b == ram[a + j]
           s == Span(j)
           u == Span(1)
<1>7. LittleEndian(ram, a, k) = L + b * s
  BY <1>5, LittleEndianStep
<1>8. Span(k) = s * u
  BY <1>5, SpanAdd
<1>9. s \in Nat \ {0} /\ u \in Nat \ {0}
  BY <1>5, Widths
<1>10. L \in 0 .. s - 1
  <2>1. \A i \in 0 .. j - 1 : ram[a + i] \in Bytes
    BY <1>5
  <2> QED
    BY <1>5, <2>1, MemoryValues
<1>11. b \in 0 .. u - 1
  BY <1>5 DEF Bytes
<1>12. Ones(k) <=> Ones(j) /\ b = u - 1
  <2>1. \A i \in 0 .. k - 1 : i \in 0 .. j - 1 \/ i = j
    BY <1>5
  <2>2. j \in 0 .. k - 1 /\ \A i \in 0 .. j - 1 : i \in 0 .. k - 1
    BY <1>5
  <2> QED
    BY <2>1, <2>2
<1>13. Full(k) <=> L + b * s = s * u - 1
  BY <1>7, <1>8
<1>14. Full(j) <=> L = s - 1
  OBVIOUS
<1> HIDE DEF L, b, s, u, Ones, Full
<1>15. L + b * s = s * u - 1 <=> L = s - 1 /\ b = u - 1
  <2> DEFINE c == (u - 1) - b
  <2>1. c \in Nat /\ b = (u - 1) - c /\ b \in Int
    BY <1>9, <1>11
  <2>2. s * u - b * s = s + c * s
    BY <1>9, <2>1
  <2>3. c * s \in Nat /\ (c * s = 0 <=> c = 0)
    BY <1>9, <2>1
  <2>4. s * u \in Int /\ b * s \in Int
    BY <1>9, <2>1
  <2> HIDE DEF c
  <2>5. L + b * s = s * u - 1 <=> L = (s - 1) + c * s
    BY <1>9, <1>10, <2>2, <2>3, <2>4
  <2>6. L = (s - 1) + c * s <=> L = s - 1 /\ c = 0
    BY <1>9, <1>10, <2>3
  <2>7. c = 0 <=> b = u - 1
    BY <1>9, <2>1
  <2> QED
    BY <2>5, <2>6, <2>7
<1> QED
  BY <1>3, <1>6, <1>12, <1>13, <1>14, <1>15

\* IGNORE_FF looks at every byte of a value.
LEMMA BytesFull ==
  ASSUME NEW n \in {1, 2, 4, 8}, NEW ram \in [0 .. 7 -> Bytes], NEW a \in Addresses(8, n)
  PROVE  ArrayValue(ram, a, n) # Span(n) - 1 <=> \E b \in a .. a + n - 1 : ram[b] # Span(1) - 1
<1> DEFINE w == Turned(ram, n)
           F == Span(1) - 1
<1>1. /\ a \in Int /\ a + n <= 8 /\ n \in 0 .. 8 /\ (n = 8 => a = 0)
      /\ \A i \in 0 .. n - 1 : w[a + i] \in Bytes
      /\ ArrayValue(ram, a, n) = LittleEndian(w, a, n)
  BY TurnedValues
<1> HIDE DEF w, F
<1>2. LittleEndian(w, a, n) = Span(n) - 1 <=> \A i \in 0 .. n - 1 : w[a + i] = F
  BY <1>1, AllOnes DEF F
<1>3. (\A i \in 0 .. n - 1 : w[a + i] = F) <=> \A b \in a .. a + n - 1 : ram[b] = F
  <2>1. CASE n = 8
    <3>1. w = [i \in 0 .. 7 |-> ram[(i + 4) % 8]] /\ a = 0
      BY <1>1, <2>1 DEF Turned, w
    <3>2. \A i \in 0 .. 7 : w[0 + i] = ram[(i + 4) % 8]
      BY <3>1
    <3>3. \A b \in 0 .. 7 : (b + 4) % 8 \in 0 .. 7 /\ (((b + 4) % 8) + 4) % 8 = b
      OBVIOUS
    <3>4. (\A i \in 0 .. 7 : w[0 + i] = F) <=> \A b \in 0 .. 7 : ram[b] = F
      BY <3>2, <3>3
    <3> QED
      BY <2>1, <3>1, <3>4
  <2>2. CASE n # 8
    <3>1. w = ram
      BY <2>2 DEF Turned, w
    <3>2. \A b \in a .. a + n - 1 : b - a \in 0 .. n - 1 /\ a + (b - a) = b
      BY <1>1
    <3>3. \A i \in 0 .. n - 1 : a + i \in a .. a + n - 1
      BY <1>1
    <3> QED
      BY <3>1, <3>2, <3>3
  <2> QED
    BY <2>1, <2>2
<1> QED
  BY <1>1, <1>2, <1>3 DEF F
-----------------------------------------------------------------------------
(* The address in the PS2's memory: address | MapMemAddy.                  *)

OrStep(x, y, or, b) ==
  IF b = 0 THEN 0
  ELSE or[b - 1] + (IF b - 1 \in Bits(x) \cup Bits(y) THEN Pow2[b - 1] ELSE 0)

OrTo(x, y) == CHOOSE or : or = [b \in 0 .. 4 * UnitBits |-> OrStep(x, y, or, b)]

\* A number below a power of two is the number below the power before it, and one
\* more bit.
LEMMA OneMoreBit ==
  ASSUME NEW z \in Int, NEW b \in 1 .. 8 * UnitBits
  PROVE  z % Pow2[b] = (z % Pow2[b - 1]) + (IF b - 1 \in Bits(z) THEN Pow2[b - 1] ELSE 0)
<1> DEFINE c == b - 1
           p == Pow2[c]
           d == z \div p
           r == z % p
           e == d \div 2
           f == d % 2
<1>1. c \in 0 .. 8 * UnitBits - 1 /\ c \in 0 .. 8 * UnitBits /\ c + 1 <= 8 * UnitBits /\ b = c + 1
  BY SearchLibAssumption
<1>2. p \in Nat \ {0} /\ Pow2[b] = 2 * p
  BY <1>1, Powers
<1>3. c \in Bits(z) <=> f = 1
  BY <1>1 DEF Bits
<1> SUFFICES z % Pow2[b] = r + (IF c \in Bits(z) THEN p ELSE 0)
  OBVIOUS
<1> HIDE DEF c, p
<1>4. d \in Int /\ r \in 0 .. p - 1 /\ z = p * d + r
  BY <1>2, Divided
<1> HIDE DEF d, r
<1>5. e \in Int /\ f \in {0, 1} /\ d = 2 * e + f
  BY <1>4
<1> HIDE DEF e, f
<1> DEFINE q == 2 * p
           t == f * p + r
<1>6. t = r + (IF f = 1 THEN p ELSE 0) /\ t \in 0 .. q - 1 /\ q \in Nat \ {0}
  BY <1>2, <1>4, <1>5
<1>7. z = q * e + t
  <2>1. p * d = p * (2 * e) + p * f
    BY <1>2, <1>4, <1>5
  <2>2. p * (2 * e) = (2 * p) * e
    BY <1>2, <1>5
  <2>3. p * f = f * p
    BY <1>2, <1>5
  <2> QED
    BY <1>2, <1>4, <1>5, <2>1, <2>2, <2>3
<1> HIDE DEF q, t
<1>8. z % q = t
  BY <1>5, <1>6, <1>7, Quotient
<1> QED
  BY <1>2, <1>3, <1>6, <1>8 DEF q

\* BitOr is the number that has the bits of both.
LEMMA OrOfBits ==
  ASSUME NEW x, NEW y, NEW z \in 0 .. Span(4) - 1,
         \A b \in 0 .. 4 * UnitBits - 1 : b \in Bits(x) \cup Bits(y) <=> b \in Bits(z)
  PROVE  BitOr(x, y) = z
<1> DEFINE N == 4 * UnitBits
           h == [b \in 0 .. N |-> z % Pow2[b]]
           g == OrTo(x, y)
<1>1. BitOr(x, y) = g[N]
  BY DEF BitOr, OrTo, OrStep
<1>2. /\ N \in Nat /\ N <= 8 * UnitBits /\ z \in Int /\ Span(4) = Pow2[N]
      /\ Pow2[0] = 1 /\ Pow2[N] \in Nat \ {0}
  BY SearchLibAssumption, Powers, Widths DEF Span
<1>3. ASSUME NEW b \in 0 .. N
      PROVE  h[b] = OrStep(x, y, h, b)
  <2>1. CASE b = 0
    <3>1. h[b] = z % 1
      BY <1>2, <2>1
    <3>2. z % 1 = 0
      BY <1>2
    <3> QED
      BY <2>1, <3>1, <3>2 DEF OrStep
  <2>2. CASE b # 0
    <3>1. b \in 1 .. 8 * UnitBits /\ b - 1 \in 0 .. N - 1 /\ b - 1 \in 0 .. N
      BY <2>2, SearchLibAssumption
    <3>2. b - 1 \in Bits(x) \cup Bits(y) <=> b - 1 \in Bits(z)
      BY <3>1
    <3>3. z % Pow2[b] = (z % Pow2[b - 1]) + (IF b - 1 \in Bits(z) THEN Pow2[b - 1] ELSE 0)
      BY <1>2, <3>1, OneMoreBit
    <3>4. h[b] = z % Pow2[b] /\ h[b - 1] = z % Pow2[b - 1]
      BY <3>1
    <3> HIDE DEF h
    <3> QED
      BY <2>2, <3>2, <3>3, <3>4 DEF OrStep
  <2> QED
    BY <2>1, <2>2
<1>4. g = [b \in 0 .. N |-> OrStep(x, y, g, b)]
  <2>1. h = [b \in 0 .. N |-> OrStep(x, y, h, b)]
    BY <1>3
  <2> HIDE DEF h
  <2> QED
    BY <2>1, Zenon DEF OrTo
<1> HIDE DEF g, N
<1> DEFINE Wrong == {b \in 0 .. N : g[b] # h[b]}
<1> HIDE DEF h
<1>5. Wrong = {}
  <2>1. SUFFICES ASSUME Wrong # {} PROVE FALSE
    OBVIOUS
  <2>2. Wrong \subseteq Nat
    BY <1>2
  <2>3. PICK b \in Wrong : \A c \in Wrong : ~(<<c, b>> \in OpToRel(<, Nat))
    BY <2>1, <2>2, NatLessThanWellFounded, WFMin
  <2>4. b \in 0 .. N /\ g[b] # h[b] /\ b \in Nat
    <3>1. b \in Wrong
      BY <2>3
    <3>2. b \in 0 .. N /\ g[b] # h[b]
      BY <3>1, Zenon
    <3> QED
      BY <1>2, <3>2
  <2>5. g[b] = OrStep(x, y, g, b) /\ h[b] = OrStep(x, y, h, b)
    BY <1>3, <1>4, <2>4
  <2>6. b # 0
    BY <2>4, <2>5 DEF OrStep
  <2>7. b - 1 \in 0 .. N /\ b - 1 < b /\ b - 1 \in Nat
    BY <1>2, <2>4, <2>6
  <2>8. g[b - 1] = h[b - 1]
    <3>1. b - 1 \notin Wrong
      BY <2>3, <2>4, <2>7 DEF OpToRel
    <3> QED
      BY <2>7, <3>1
  <2>9. OrStep(x, y, g, b) = OrStep(x, y, h, b)
    BY <2>8 DEF OrStep
  <2> QED
    BY <2>4, <2>5, <2>9
<1>6. g[N] = h[N]
  <2>1. N \in 0 .. N
    BY <1>2
  <2> QED
    BY <1>5, <2>1
<1>7. h[N] = z
  <2>1. N \in 0 .. N
    BY <1>2
  <2>2. h[N] = z % Pow2[N]
    BY <2>1 DEF h
  <2>3. z \in 0 .. Pow2[N] - 1
    BY <1>2
  <2> QED
    BY <1>2, <2>2, <2>3
<1> QED
  BY <1>1, <1>6, <1>7

\* Below an address that is a multiple of 8 there is room for the offset of a byte.
LEMMA AddressBits ==
  ASSUME NEW a \in 0 .. 7, NEW m \in Nat, m % 8 = 0, NEW b \in 0 .. 8 * UnitBits - 1
  PROVE  b \in Bits(a) \cup Bits(m) <=> b \in Bits(a + m)
<1>1. PICK q \in Nat : m = 8 * q
  <2>1. m = 8 * (m \div 8) /\ m \div 8 \in Nat
    OBVIOUS
  <2> QED
    BY <2>1
<1>2. \A v \in Int : b \in Bits(v) <=> (v \div Pow2[b]) % 2 = 1
  BY DEF Bits
<1>3. a \in Int /\ m \in Int /\ a + m \in Int
  OBVIOUS
<1>4. CASE b \in {0, 1, 2}
  <2>1. Pow2[0] = 1 /\ (b >= 1 => Pow2[1] = 2) /\ (b >= 2 => Pow2[2] = 4)
    <3>1. 0 \in 0 .. 8 * UnitBits /\ 1 \in 0 .. 8 * UnitBits /\ 0 + 1 <= 8 * UnitBits /\ 1 + 1 <= 8 * UnitBits
      BY SearchLibAssumption
    <3>2. Pow2[0 + 1] = 2 * Pow2[0] /\ Pow2[1 + 1] = 2 * Pow2[1]
      BY <3>1, Powers
    <3> QED
      BY <3>2, Powers
  <2>2. CASE b = 0
    <3>1. Pow2[b] = 1
      BY <2>1, <2>2
    <3>2. (a + 8 * q) \div 1 = a + 8 * q /\ a \div 1 = a /\ (8 * q) \div 1 = 8 * q
      BY <1>1
    <3>3. (8 * q) % 2 = 0 /\ (a + 8 * q) % 2 = a % 2
      BY <1>1
    <3> QED
      BY <1>1, <1>2, <1>3, <3>1, <3>2, <3>3
  <2>3. CASE b = 1
    <3>1. Pow2[b] = 2
      BY <2>1, <2>3
    <3>2. (a + 8 * q) \div 2 = (a \div 2) + 4 * q /\ (8 * q) \div 2 = 4 * q
      BY <1>1
    <3>3. (4 * q) % 2 = 0 /\ ((a \div 2) + 4 * q) % 2 = (a \div 2) % 2
      BY <1>1
    <3> QED
      BY <1>1, <1>2, <1>3, <3>1, <3>2, <3>3
  <2>4. CASE b = 2
    <3>1. Pow2[b] = 4
      BY <2>1, <2>4
    <3>2. (a + 8 * q) \div 4 = (a \div 4) + 2 * q /\ (8 * q) \div 4 = 2 * q
      BY <1>1
    <3>3. (2 * q) % 2 = 0 /\ ((a \div 4) + 2 * q) % 2 = (a \div 4) % 2
      BY <1>1
    <3> QED
      BY <1>1, <1>2, <1>3, <3>1, <3>2, <3>3
  <2> QED
    BY <1>4, <2>2, <2>3, <2>4
<1>5. CASE b \notin {0, 1, 2}
  <2> DEFINE p == Pow2[b]
             k == Pow2[b - 3]
             d == m \div p
             r == m % p
  <2>1. k \in Nat \ {0} /\ p = 8 * k
    <3>1. b \in Nat /\ b >= 3 /\ 3 \in Nat /\ b - 3 \in Nat /\ 3 + (b - 3) = b /\ 3 + (b - 3) <= 8 * UnitBits
      BY <1>5, SearchLibAssumption
    <3>2. b - 3 \in 0 .. 8 * UnitBits /\ 0 + 1 <= 8 * UnitBits /\ 1 + 1 <= 8 * UnitBits /\ 2 + 1 <= 8 * UnitBits
          /\ 0 \in 0 .. 8 * UnitBits /\ 1 \in 0 .. 8 * UnitBits /\ 2 \in 0 .. 8 * UnitBits
      BY SearchLibAssumption, <3>1
    <3>3. Pow2[0 + 1] = 2 * Pow2[0] /\ Pow2[1 + 1] = 2 * Pow2[1] /\ Pow2[2 + 1] = 2 * Pow2[2] /\ Pow2[0] = 1
      BY <3>2, Powers
    <3>4. Pow2[3] = 8
      BY <3>3
    <3>5. Pow2[3 + (b - 3)] = Pow2[3] * Pow2[b - 3]
      BY <3>1, PowersAdd
    <3>6. Pow2[b - 3] \in Nat \ {0}
      BY <3>2, Powers
    <3> QED
      BY <3>1, <3>4, <3>5, <3>6
  <2> HIDE DEF p, k
  <2>2. p \in Nat \ {0} /\ p >= 8
    BY <2>1
  <2>3. d \in Int /\ r \in 0 .. p - 1 /\ m = p * d + r
    BY <1>3, <2>2, Divided
  <2>4. r + 8 <= p
    <3> DEFINE l == q - k * d
    <3>1. k * d \in Int /\ p * d = 8 * (k * d)
      BY <2>1, <2>3
    <3>2. r = 8 * q - 8 * (k * d)
      BY <1>1, <2>3, <3>1
    <3> DEFINE w == k * d
    <3> HIDE DEF w
    <3>3. w \in Int /\ r = 8 * (q - w)
      BY <3>1, <3>2 DEF w
    <3>4. 8 * (q - w) < 8 * k
      BY <2>1, <2>3, <3>3
    <3>5. q - w < k
      BY <2>1, <3>3, <3>4
    <3> QED
      BY <2>1, <3>3, <3>5
  <2> HIDE DEF d, r
  <2>5. a \div p = 0
    <3>1. 0 \in Int /\ a \in 0 .. p - 1 /\ a = p * 0 + a
      BY <2>2
    <3> QED
      BY <1>3, <2>2, <3>1, Quotient
  <2>6. m \div p = d
    BY <1>3, <2>2, <2>3, Quotient
  <2>7. (a + m) \div p = d
    <3> DEFINE t == a + r
               v == a + m
    <3>1. v \in Int /\ t \in 0 .. p - 1 /\ v = p * d + t
      <4>1. p * d \in Int
        BY <2>2, <2>3
      <4> DEFINE c == p * d
      <4>2. c \in Int /\ m = c + r
        BY <2>3, <4>1
      <4> HIDE DEF c
      <4>3. v \in Int /\ t \in 0 .. p - 1 /\ v = c + t
        BY <2>2, <2>3, <2>4, <4>2
      <4> QED
        BY <4>3 DEF c
    <3> HIDE DEF t, v
    <3>2. v \div p = d
      BY <2>2, <2>3, <3>1, Quotient
    <3> QED
      BY <3>2 DEF v
  <2> QED
    BY <1>2, <1>3, <2>5, <2>6, <2>7 DEF p
<1> QED
  BY <1>4, <1>5

\* The address in the PS2's memory is the sum, for a dump that starts at a multiple
\* of its size.
LEMMA AddressesAdd ==
  ASSUME NEW a \in 0 .. 7, NEW m \in 0 .. Span(4) - 1, m % 8 = 0
  PROVE  BitOr(a, m) = m + a
<1>1. m \in Nat /\ Span(4) \in Nat
  BY Widths
<1>2. PICK k \in Nat : Span(4) = 8 * k
  <2> DEFINE t == 4 * UnitBits - 3
             E == Pow2[t]
  <2>1. /\ t \in Nat /\ 3 \in Nat /\ 3 + t = 4 * UnitBits /\ 3 + t <= 8 * UnitBits /\ t \in 0 .. 8 * UnitBits
        /\ 0 \in 0 .. 8 * UnitBits /\ 1 \in 0 .. 8 * UnitBits /\ 2 \in 0 .. 8 * UnitBits
        /\ 0 + 1 <= 8 * UnitBits /\ 1 + 1 <= 8 * UnitBits /\ 2 + 1 <= 8 * UnitBits
    BY SearchLibAssumption
  <2> HIDE DEF t
  <2>2. Pow2[0 + 1] = 2 * Pow2[0] /\ Pow2[1 + 1] = 2 * Pow2[1] /\ Pow2[2 + 1] = 2 * Pow2[2] /\ Pow2[0] = 1
    BY <2>1, Powers
  <2>3. Pow2[3] = 8
    BY <2>2
  <2>4. Pow2[3 + t] = Pow2[3] * E
    BY <2>1, PowersAdd
  <2>5. E \in Nat
    BY <2>1, Powers
  <2>6. Span(4) = 8 * E
    BY <2>1, <2>3, <2>4 DEF Span
  <2> QED
    BY <2>5, <2>6
<1>3. m + a \in 0 .. Span(4) - 1
  <2>1. PICK q \in Nat : m = 8 * q
    <3>1. m = 8 * (m \div 8) /\ m \div 8 \in Nat
      BY <1>1
    <3> QED
      BY <3>1
  <2>2. q < k
    BY <1>2, <2>1
  <2> QED
    BY <1>2, <2>1, <2>2
<1>4. \A b \in 0 .. 4 * UnitBits - 1 : b \in Bits(a) \cup Bits(m) <=> b \in Bits(m + a)
  <2>1. \A b \in 0 .. 4 * UnitBits - 1 : b \in 0 .. 8 * UnitBits - 1
    BY SearchLibAssumption
  <2>2. a + m = m + a
    BY <1>1
  <2> QED
    BY <1>1, <2>1, <2>2, AddressBits
<1> QED
  BY <1>3, <1>4, OrOfBits
-----------------------------------------------------------------------------
(* Each filter and its label.                                              *)

\* A number a user may type is a number.
LEMMA TypedNumbers ==
  ASSUME NEW n \in {1, 2, 4, 8}, NEW v \in Numbers(n)
  PROVE  v \in Int
<1>1. Span(n) \in Nat
  BY Widths
<1>2. v \in {0, 1, 2, Span(n) \div 2 - 1, Span(n) \div 2, Span(n) - 1}
  BY DEF Numbers
<1> QED
  BY <1>1, <1>2

\* The part of a part filter.
LEMMA PartsOfFilters ==
  ASSUME NEW p \in DOMAIN PartSize, NEW f \in {IGNORE_VALUE(p), IGNORE_RANGE(p)}
  PROVE  PartOf(f) = p
<1>1. DOMAIN PartSize = {"BYTE", "SHORT", "WORD", "DWORD"}
  BY DEF PartSize
<1>2. \A q \in DOMAIN PartSize : f \in {IGNORE_VALUE(q), IGNORE_RANGE(q)} => q = p
  BY <1>1 DEF IGNORE_VALUE, IGNORE_RANGE
<1> QED
  BY <1>2 DEF PartOf

\* The parts of a value are numbers.
LEMMA PartNumbers ==
  ASSUME NEW p \in {"BYTE", "SHORT", "WORD", "DWORD"}, NEW a, NEW v \in Int, NEW n \in {1, 2, 4, 8},
         a \in Addresses(8, n), NEW x \in Parts(p, a, v, n)
  PROVE  x \in Int
<1>1. \A k \in 0 .. 8 : Span(k) \in Nat \ {0}
  BY Widths
<1>2. CASE p = "DWORD"
  BY <1>2 DEF Parts
<1>3. CASE p = "BYTE"
  <2>1. PICK i \in 0 .. n - 1 : x = ByteFromU64(v, 7 - i)
    BY <1>3 DEF Parts
  <2>2. x = (v \div Span(7 - (7 - i))) % Span(1)
    BY <2>1 DEF ByteFromU64
  <2> DEFINE j == 7 - (7 - i)
             y == v \div Span(j)
  <2>3. j \in 0 .. 8 /\ 1 \in 0 .. 8
    BY <2>1
  <2>4. y \in Int
    <3> HIDE DEF j
    <3> QED
      BY <1>1, <2>3, Divided
  <2> HIDE DEF y, j
  <2>5. y % Span(1) \in 0 .. Span(1) - 1
    BY <1>1, <2>3, <2>4, Divided
  <2>6. Span(1) \in Nat
    BY <1>1, <2>3
  <2> QED
    BY <2>2, <2>5, <2>6 DEF y, j
<1>4. CASE p = "SHORT"
  <2>1. PICK i \in Shorts(a, n) : x = ShortFromU64(v, i)
    BY <1>4 DEF Parts
  <2>2. i \in 0 .. 3
    <3>1. a \in 0 .. 7 /\ (a % 8) \div 4 \in 0 .. 1 /\ (a % 8) \div 2 \in 0 .. 3
      OBVIOUS
    <3>2. Shorts(a, n) \in {0 .. 3, {(a % 8) \div 4, (a % 8) \div 4 + 1}, {(a % 8) \div 2}}
      BY DEF Shorts
    <3> QED
      BY <2>1, <3>1, <3>2
  <2>3. x = (v \div Span(6 - 2 * i)) % Span(2)
    BY <2>1 DEF ShortFromU64
  <2> DEFINE j == 6 - 2 * i
             y == v \div Span(j)
  <2>4. j \in 0 .. 8 /\ 2 \in 0 .. 8
    BY <2>2
  <2>5. y \in Int
    <3> HIDE DEF j
    <3> QED
      BY <1>1, <2>4, Divided
  <2> HIDE DEF y, j
  <2>6. y % Span(2) \in 0 .. Span(2) - 1
    BY <1>1, <2>4, <2>5, Divided
  <2>7. Span(2) \in Nat
    BY <1>1, <2>4
  <2> QED
    BY <2>3, <2>6, <2>7 DEF y, j
<1>5. CASE p = "WORD"
  <2>1. PICK i \in Words(a, n) : x = WordFromU64(v, i)
    BY <1>5 DEF Parts
  <2>2. i \in {0, 1}
    <3>1. a \in 0 .. 7 /\ (a % 8) \div 4 \in 0 .. 1
      OBVIOUS
    <3> QED
      BY <2>1, <3>1 DEF Words
  <2>3. x = (v \div Span(4 - 4 * i)) % Span(4)
    BY <2>1 DEF WordFromU64
  <2> DEFINE j == 4 - 4 * i
             y == v \div Span(j)
  <2>4. j \in 0 .. 8 /\ 4 \in 0 .. 8
    BY <2>2
  <2>5. y \in Int
    <3> HIDE DEF j
    <3> QED
      BY <1>1, <2>4, Divided
  <2> HIDE DEF y, j
  <2>6. y % Span(4) \in 0 .. Span(4) - 1
    BY <1>1, <2>4, <2>5, Divided
  <2>7. Span(4) \in Nat
    BY <1>1, <2>4
  <2> QED
    BY <2>3, <2>6, <2>7 DEF y, j
<1> QED
  BY <1>2, <1>3, <1>4, <1>5
\* A filter keeps exactly the results its label names: FiltersMeanLabel, whatever the
\* width of a byte.
LEMMA FilterLabels ==
  ASSUME Searched
  PROVE  FiltersMeanLabel
<1>1. SUFFICES ASSUME pc = "done", NEW f \in S.TypeEx \cap Filters, NEW a \in call.Results,
                      FilterSees(f, a)
               PROVE  a \in results <=> FilterKeeps(f, a, AsRead(a), Ex1(S, f), Ex2(S, f))
  BY Zenon DEF FiltersMeanLabel
<1> DEFINE n == S.Size
           m == call.MapMemAddy
           ram == call.New
           v == AsRead(a)
           x1 == Ex1(S, f)
           x2 == Ex2(S, f)
           off == Ignored(S, m, a, v)
<1>2. /\ OneOption(f) /\ f \in Filters
      /\ call.DumpSize = 8 /\ call.Results = Addresses(8, n) /\ ram \in [0 .. 7 -> Bytes]
      /\ m \in IF f \in AddressFilters THEN FilterAddys ELSE {0}
      /\ x1 \in Numbers(FilterBytes(f, n)) /\ x2 \in Numbers(FilterBytes(f, n))
  <2>1. ~PointShape
    <3>1. f # "SIGNED"
      BY DEF Filters, ValueFilters, AddressFilters, PartFilters, PartSize, IGNORE_VALUE, IGNORE_RANGE
    <3> QED
      BY <3>1 DEF PointShape
  <2>2. ~ConsecShape
    <3>1. f \notin ConsecFlags
      BY DEF ConsecFlags, Filters, ValueFilters, AddressFilters, PartFilters, PartSize,
             IGNORE_VALUE, IGNORE_RANGE
    <3> QED
      BY <3>1 DEF ConsecShape, OneOption
  <2>3. FilterShape
    BY <2>1, <2>2 DEF Searched, Shape
  <2>4. PICK g \in Filters :
          /\ OneOption(g)
          /\ call.DumpSize = 8 /\ call.Results = Addresses(8, S.Size)
          /\ call.New \in [0 .. 7 -> Bytes]
          /\ call.MapMemAddy \in IF g \in AddressFilters THEN FilterAddys ELSE {0}
          /\ Ex1(S, g) \in Numbers(FilterBytes(g, S.Size))
          /\ Ex2(S, g) \in Numbers(FilterBytes(g, S.Size))
    BY <2>3, Zenon DEF FilterShape
  <2>5. g = f
    BY <2>4 DEF OneOption
  <2> QED
    BY <2>4, <2>5, Zenon
<1>3. n \in {1, 2, 4, 8} /\ call.Access = "array"
  BY <1>2 DEF OneOption
<1>4. a \in Addresses(8, n) /\ a \in 0 .. 7 /\ a % n = 0
  BY <1>2
<1>5. a \in results <=> ~off
  <2>1. PICK junk : results = Found(junk).Results
    BY <1>1 DEF Searched
  <2> DEFINE nv == ValuesOf(ram)
             ov == IF call.Old = NoDump THEN [b \in DOMAIN nv |-> junk] ELSE ValuesOf(call.Old)
  <2>2. Found(junk) = CodeSearch(S, call.DumpSize, m, nv, ov, call.Results)
    BY DEF Found, S
  <2>3. nv[a] = v
    <3>1. a \in Addresses(call.DumpSize, call.S.Size)
      BY <1>2, <1>4 DEF S
    <3>2. nv[a] = GetSearchValues(call.Access, call.Ltr, ram, a, n)
      BY <3>1 DEF ValuesOf, S
    <3> QED
      BY <1>3, <3>2 DEF GetSearchValues, AsRead
  <2> HIDE DEF nv, ov
  <2>4. a \in CodeSearch(S, call.DumpSize, m, nv, ov, call.Results).Results <=> ~Ignored(S, m, a, nv[a])
    BY <1>2, FilterStays
  <2> QED
    BY <2>1, <2>2, <2>3, <2>4
<1>6. v = ArrayValue(ram, a, n) /\ v \in Int
  <2>1. v = ArrayValue(ram, a, n)
    BY DEF AsRead
  <2> HIDE DEF ram, n, v
  <2>2. ArrayValue(ram, a, n) \in 0 .. Span(n) - 1
    BY <1>2, <1>3, <1>4, TurnedValues
  <2>3. Span(n) \in Int
    BY <1>3, Widths
  <2> QED
    BY <2>1, <2>2, <2>3
<1>7. x1 \in Int /\ x2 \in Int
  <2>1. FilterBytes(f, n) \in {1, 2, 4, 8}
    <3>1. CASE f \in PartFilters
      <4>1. PICK p \in DOMAIN PartSize : f \in {IGNORE_VALUE(p), IGNORE_RANGE(p)}
        BY <3>1, Zenon DEF PartFilters
      <4>2. PartOf(f) = p
        BY <4>1, PartsOfFilters
      <4>3. PartSize[p] \in {1, 2, 4, 8}
        BY DEF PartSize
      <4> QED
        BY <3>1, <4>2, <4>3 DEF FilterBytes
    <3>2. CASE f \notin PartFilters
      BY <1>3, <3>2 DEF FilterBytes
    <3> QED
      BY <3>1, <3>2
  <2> HIDE DEF n
  <2> QED
    BY <1>2, <2>1, TypedNumbers
<1>8. /\ f = "IGNORE_0" => (off <=> v = 0)
      /\ f = "IGNORE_FF" => (off <=> v = Span(n) - 1)
      /\ f = "IGNORE_VALUE" => (off <=> v = x1)
      /\ f = "IGNORE_IN_RANGE" => (off <=> Within(v, x1, x2))
      /\ f = "IGNORE_NOT_RANGE" => (off <=> v <= x1 \/ v >= x2)
      /\ f = "INCLUDE_ADDRESS_RANGE" => (off <=> ~Within(BitOr(a, m), x1, x2))
      /\ f = "EXCLUDE_UPPER16" => (off <=> n = 2 /\ a % 4 = 0)
      /\ f = "EXCLUDE_LOWER16" => (off <=> n = 2 /\ a % 4 # 0)
      /\ \A p \in DOMAIN PartSize :
           /\ f = IGNORE_VALUE(p) => (off <=> x1 \in Parts(p, a, v, n))
           /\ f = IGNORE_RANGE(p) => (off <=> \E x \in Parts(p, a, v, n) : Within(x, x1, x2))
  BY <1>2, OnlyOneIgnores, Zenon
<1> DEFINE keeps == FilterKeeps(f, a, v, x1, x2)
<1> SUFFICES keeps <=> ~off
  BY <1>5
<1>9. f \in AddressFilters => m \in 0 .. Span(4) - 1 /\ m % 8 = 0
  BY <1>1, <1>2, SearchCheckAssumption DEF FilterSees
<1>10. CASE f \in {IGNORE_VALUE(p) : p \in DOMAIN PartSize} \cup {IGNORE_RANGE(p) : p \in DOMAIN PartSize}
  <2>1. PICK p \in DOMAIN PartSize : f \in {IGNORE_VALUE(p), IGNORE_RANGE(p)}
    BY <1>10
  <2>2. PartOf(f) = p
    BY <2>1, PartsOfFilters
  <2>3. f \in PartFilters
    BY <2>1 DEF PartFilters
  <2>4. n = 8 \/ p = "BYTE" \/ (p = "WORD" /\ n = 4 /\ a % 8 = 4)
    BY <1>1, <2>2, <2>3 DEF FilterSees
  <2>5. Parts(p, a, v, n) = PartsInMemory(p, a)
    BY <1>2, <1>3, <1>4, <2>1, <2>4, PartsFound
  <2>6. \A x \in PartsInMemory(p, a) : x \in Int
    <3>1. p \in {"BYTE", "SHORT", "WORD", "DWORD"}
      BY <2>1 DEF PartSize
    <3> HIDE DEF n, v
    <3> QED
      BY <1>3, <1>4, <1>6, <2>5, <3>1, PartNumbers
  <2>7. \A q \in DOMAIN PartSize :
          {IGNORE_VALUE(q), IGNORE_RANGE(q)} \cap
            {"IGNORE_0", "IGNORE_FF", "IGNORE_VALUE", "IGNORE_IN_RANGE", "IGNORE_NOT_RANGE",
             "INCLUDE_ADDRESS_RANGE", "EXCLUDE_UPPER16", "EXCLUDE_LOWER16"} = {}
    BY DEF PartSize, IGNORE_VALUE, IGNORE_RANGE
  <2>8. \A q, r \in DOMAIN PartSize : IGNORE_VALUE(q) # IGNORE_RANGE(r)
    BY DEF PartSize, IGNORE_VALUE, IGNORE_RANGE
  <2>9. f \notin {"IGNORE_0", "IGNORE_FF", "IGNORE_VALUE", "IGNORE_IN_RANGE", "IGNORE_NOT_RANGE",
                 "INCLUDE_ADDRESS_RANGE", "EXCLUDE_UPPER16", "EXCLUDE_LOWER16"}
    BY <2>1, <2>7
  <2> HIDE DEF n, m, ram, v, x1, x2, off
  <2>10. CASE f = IGNORE_VALUE(p)
    <3>1. keeps <=> x1 \notin PartsInMemory(p, a)
      <4>1. f \in {IGNORE_VALUE(q) : q \in DOMAIN PartSize} /\ f \notin {IGNORE_RANGE(q) : q \in DOMAIN PartSize}
        BY <2>1, <2>8, <2>10
      <4> QED
        BY <2>2, <2>9, <4>1 DEF FilterKeeps
    <3> QED
      BY <1>8, <2>1, <2>5, <2>10, <3>1
  <2>11. CASE f = IGNORE_RANGE(p)
    <3>1. keeps <=> \A x \in PartsInMemory(p, a) : x < x1 \/ x > x2
      <4>1. f \notin {IGNORE_VALUE(q) : q \in DOMAIN PartSize} /\ f \in {IGNORE_RANGE(q) : q \in DOMAIN PartSize}
        BY <2>1, <2>8, <2>11
      <4> QED
        BY <2>2, <2>9, <4>1 DEF FilterKeeps
    <3>2. off <=> \E x \in PartsInMemory(p, a) : Within(x, x1, x2)
      BY <1>8, <2>1, <2>5, <2>11
    <3>3. \A x \in PartsInMemory(p, a) : Within(x, x1, x2) <=> ~(x < x1 \/ x > x2)
      BY <1>7, <2>6 DEF Within
    <3> HIDE DEF keeps
    <3> QED
      BY <3>1, <3>2, <3>3
  <2> QED
    BY <2>1, <2>10, <2>11
<1>11. CASE f \notin {IGNORE_VALUE(p) : p \in DOMAIN PartSize} \cup {IGNORE_RANGE(p) : p \in DOMAIN PartSize}
  <2> HIDE DEF n, m, ram, v, x1, x2, off
  <2>1. CASE f = "IGNORE_0"
    BY <1>8, <1>11, <2>1 DEF FilterKeeps
  <2>2. CASE f = "IGNORE_FF"
    <3>1. keeps <=> \E b \in a .. a + n - 1 : ram[b] # Span(1) - 1
      BY <1>11, <2>2 DEF FilterKeeps, n, ram
    <3>2. v # Span(n) - 1 <=> \E b \in a .. a + n - 1 : ram[b] # Span(1) - 1
      BY <1>2, <1>3, <1>4, <1>6, BytesFull
    <3> QED
      BY <1>8, <2>2, <3>1, <3>2
  <2>3. CASE f = "IGNORE_VALUE"
    BY <1>8, <1>11, <2>3 DEF FilterKeeps
  <2>4. CASE f = "IGNORE_IN_RANGE"
    <3>1. keeps <=> v < x1 \/ v > x2
      BY <1>11, <2>4 DEF FilterKeeps
    <3>2. Within(v, x1, x2) <=> ~(v < x1 \/ v > x2)
      BY <1>6, <1>7 DEF Within
    <3> QED
      BY <1>8, <2>4, <3>1, <3>2
  <2>5. CASE f = "IGNORE_NOT_RANGE"
    <3>1. keeps <=> x1 < v /\ v < x2
      BY <1>11, <2>5 DEF FilterKeeps
    <3>2. (v <= x1 \/ v >= x2) <=> ~(x1 < v /\ v < x2)
      BY <1>6, <1>7
    <3> QED
      BY <1>8, <2>5, <3>1, <3>2
  <2>6. CASE f = "INCLUDE_ADDRESS_RANGE"
    <3>1. keeps <=> x1 <= m + a /\ m + a <= x2
      BY <1>11, <2>6 DEF FilterKeeps, m
    <3>2. BitOr(a, m) = m + a
      BY <1>4, <1>9, <2>6, AddressesAdd DEF AddressFilters
    <3> QED
      BY <1>8, <2>6, <3>1, <3>2 DEF Within
  <2>7. CASE f \in {"EXCLUDE_UPPER16", "EXCLUDE_LOWER16"}
    <3>1. m \in Nat /\ m % 8 = 0
      BY <1>9, <2>7, Widths DEF AddressFilters
    <3>2. n = 2 => ((m + a) % 4 = 2 <=> a % 4 # 0) /\ ((m + a) % 4 = 0 <=> a % 4 = 0)
      <4>1. SUFFICES ASSUME n = 2
                     PROVE  ((m + a) % 4 = 2 <=> a % 4 # 0) /\ ((m + a) % 4 = 0 <=> a % 4 = 0)
        OBVIOUS
      <4>2. a \in {0, 2, 4, 6}
        BY <1>4, <4>1
      <4>3. PICK q \in Nat : m = 8 * q
        <5>1. m = 8 * (m \div 8) /\ m \div 8 \in Nat
          BY <3>1
        <5> QED
          BY <5>1
      <4> QED
        BY <4>2, <4>3
    <3>3. CASE f = "EXCLUDE_UPPER16"
      <4>1. keeps <=> (n = 2 => (m + a) % 4 = 2)
        BY <1>11, <3>3 DEF FilterKeeps, m, n
      <4> QED
        BY <1>8, <3>2, <3>3, <4>1
    <3>4. CASE f = "EXCLUDE_LOWER16"
      <4>1. keeps <=> (n = 2 => (m + a) % 4 = 0)
        BY <1>11, <3>4 DEF FilterKeeps, m, n
      <4> QED
        BY <1>8, <3>2, <3>4, <4>1
    <3> QED
      BY <2>7, <3>3, <3>4
  <2>8. f \in {"IGNORE_0", "IGNORE_FF", "IGNORE_VALUE", "IGNORE_IN_RANGE", "IGNORE_NOT_RANGE",
               "INCLUDE_ADDRESS_RANGE", "EXCLUDE_UPPER16", "EXCLUDE_LOWER16"}
    BY <1>2, <1>11 DEF Filters, ValueFilters, AddressFilters, PartFilters
  <2> QED
    BY <2>1, <2>2, <2>3, <2>4, <2>5, <2>6, <2>7, <2>8
<1> QED
  BY <1>10, <1>11

\* Every filter ignores exactly the results its label in the search window names
\* (tab_search.c:118-157), judged on the bytes in memory, for every content of an
\* eight-byte dump, every typed number of the set and every width of a byte, for the
\* sizes and addresses of FilterSees.
THEOREM FiltersMeanLabelCorrect == Spec => []FiltersMeanLabel
  BY FilterLabels, SearchedInvariant, PTL
-----------------------------------------------------------------------------
(* Runs of consecutive results.                                            *)

\* Steps from a multiple of a size to the next.
LEMMA Aligned ==
  ASSUME NEW n \in {1, 2, 4, 8}, NEW a \in Int, NEW b \in Int, a % n = 0
  PROVE  /\ (a + n) % n = 0 /\ (a - n) % n = 0
         /\ b % n = 0 <=> (b - a) % n = 0
         /\ b % n = 0 /\ a < b => a + n <= b
         /\ (b - (a - n)) \div n = ((b - a) \div n) + 1
<1>1. CASE n = 1
  BY <1>1
<1>2. CASE n = 2
  BY <1>2
<1>3. CASE n = 4
  BY <1>3
<1>4. CASE n = 8
  BY <1>4
<1> QED
  BY <1>1, <1>2, <1>3, <1>4

\* How many results a piece of a dump has room for.
LEMMA Room ==
  ASSUME NEW n \in {1, 2, 4, 8}, NEW s \in Nat, NEW i \in Nat, s <= i, s % n = 0, i % n = 0
  PROVE  Cardinality({x \in s .. i - 1 : x % n = 0}) = (i - s) \div n
<1> DEFINE k == (i - s) \div n
           I == 1 .. k
           A == {x \in s .. i - 1 : x % n = 0}
           f == [j \in I |-> s + n * (j - 1)]
           g == [x \in A |-> ((x - s) \div n) + 1]
<1>1. k \in Nat /\ i = s + n * k
  <2>1. CASE n = 1
    BY <2>1
  <2>2. CASE n = 2
    BY <2>2
  <2>3. CASE n = 4
    BY <2>3
  <2>4. CASE n = 8
    BY <2>4
  <2> QED
    BY <2>1, <2>2, <2>3, <2>4
<1> HIDE DEF k
<1>2. \A j \in I : f[j] \in A
  <2> SUFFICES ASSUME NEW j \in I
               PROVE  s + n * (j - 1) \in A
    OBVIOUS
  <2>0. j \in 1 .. k
    OBVIOUS
  <2>1. CASE n = 1
    BY <1>1, <2>0, <2>1
  <2>2. CASE n = 2
    BY <1>1, <2>0, <2>2
  <2>3. CASE n = 4
    BY <1>1, <2>0, <2>3
  <2>4. CASE n = 8
    BY <1>1, <2>0, <2>4
  <2> QED
    BY <2>1, <2>2, <2>3, <2>4
<1>3. \A x \in A : \E j \in I : f[j] = x
  <2> SUFFICES ASSUME NEW x \in s .. i - 1, x % n = 0
               PROVE  \E j \in I : s + n * (j - 1) = x
    OBVIOUS
  <2> DEFINE j == ((x - s) \div n) + 1
  <2>1. j \in 1 .. k /\ s + n * (j - 1) = x
    <3>1. CASE n = 1
      BY <1>1, <3>1
    <3>2. CASE n = 2
      BY <1>1, <3>2
    <3>3. CASE n = 4
      BY <1>1, <3>3
    <3>4. CASE n = 8
      BY <1>1, <3>4
    <3> QED
      BY <3>1, <3>2, <3>3, <3>4
  <2> QED
    BY <2>1
<1>4. \A j, l \in I : f[j] = f[l] => j = l
  <2> SUFFICES ASSUME NEW j \in 1 .. k, NEW l \in 1 .. k, s + n * (j - 1) = s + n * (l - 1)
               PROVE  j = l
    OBVIOUS
  <2>1. CASE n = 1
    BY <1>1, <2>1
  <2>2. CASE n = 2
    BY <1>1, <2>2
  <2>3. CASE n = 4
    BY <1>1, <2>3
  <2>4. CASE n = 8
    BY <1>1, <2>4
  <2> QED
    BY <2>1, <2>2, <2>3, <2>4
<1>5. f \in [I -> A]
  BY <1>2
<1> HIDE DEF f, A
<1>6. ExistsBijection(I, A)
  <2>1. f \in Surjection(I, A)
    BY <1>3, <1>5, Zenon DEF Surjection
  <2>2. f \in Injection(I, A)
    BY <1>4, <1>5, Zenon DEF Injection, IsInjective
  <2> QED
    BY <2>1, <2>2, Zenon DEF ExistsBijection, Bijection
<1>7. IsFiniteSet(I) /\ Cardinality(I) = k
  <2>1. 1 \in Int /\ k \in Int
    BY <1>1
  <2>2. IsFiniteSet(1 .. k) /\ Cardinality(1 .. k) = IF 1 > k THEN 0 ELSE k - 1 + 1
    BY <2>1, FS_Interval
  <2> QED
    BY <1>1, <2>2
<1> HIDE DEF I
<1>8. Cardinality(A) = Cardinality(I)
  BY <1>6, <1>7, FS_Bijection
<1> QED
  BY <1>7, <1>8 DEF A, k

\* The calls with an option on consecutive results.
ConsecCall ==
  /\ S.Size \in {1, 2, 4, 8} /\ call.Access = "array"
  /\ call.DumpSize \in Nat /\ call.DumpSize % S.Size = 0
  /\ call.Results \subseteq Addresses(call.DumpSize, S.Size)

Matching == S.TypeEx \cap {"EXCLUDE_CONSEC_MATCH_VALUES", "INCLUDE_CONSEC_MATCH_VALUES"} # {}
NewValues == ValuesOf(call.New)
First(a) == a \in call.Results /\ ~Follows(a - S.Size, a, Matching)

\* The run FilterResultsEx sees from a on, up to the first address that breaks it.
LEMMA RunOf ==
  ASSUME ConsecCall, NEW a \in call.Results
  PROVE  LET i == RunEnd(S, call.DumpSize, NewValues, call.Results, a)
         IN  /\ i \in a + 1 .. call.DumpSize /\ i % S.Size = 0
             /\ \A c \in Addresses(call.DumpSize, S.Size) :
                  a <= c /\ c < i => c \in call.Results /\ (Matching => AsRead(c) = AsRead(a))
             /\ i \in call.Results => Matching
             /\ ~Follows(i - S.Size, i, Matching)
<1> DEFINE n == S.Size
           d == call.DumpSize
           R == call.Results
           Breaks(c) == c \notin R \/ (Matching /\ NewValues[c] # NewValues[a])
           stops == {c \in a + 1 .. d - 1 : (c - a) % n = 0 /\ Breaks(c)}
           i == RunEnd(S, d, NewValues, R, a)
<1>1. /\ n \in {1, 2, 4, 8} /\ d \in Nat /\ d % n = 0 /\ R \subseteq Addresses(d, n)
      /\ a \in 0 .. d - 1 /\ a \in Int /\ a % n = 0
  BY DEF ConsecCall
<1>2. \A c \in Addresses(d, n) : NewValues[c] = AsRead(c)
  BY DEF ConsecCall, NewValues, ValuesOf, GetSearchValues, AsRead, S
<1>3. i = IF stops = {} THEN d ELSE CHOOSE c \in stops : \A j \in stops : c <= j
  BY DEF RunEnd, Matching
<1>4. stops \subseteq Nat
  BY <1>1
<1>5. \A c : c \in stops <=> c \in a + 1 .. d - 1 /\ (c - a) % n = 0 /\ Breaks(c)
  OBVIOUS
<1> HIDE DEF stops, i, n, d, R, Breaks
<1>6. i \in a + 1 .. d /\ i % n = 0 /\ (i < d => Breaks(i)) /\ \A c \in stops : i <= c
  <2>1. CASE stops = {}
    BY <1>1, <1>3, <2>1
  <2>2. CASE stops # {}
    <3>1. PICK c \in stops : \A j \in stops : ~(<<j, c>> \in OpToRel(<, Nat))
      BY <1>4, <2>2, NatLessThanWellFounded, WFMin
    <3>2. \A j \in stops : c <= j
      <4> TAKE j \in stops
      <4>1. c \in Nat /\ j \in Nat /\ ~(j < c)
        BY <1>4, <3>1 DEF OpToRel
      <4> QED
        BY <4>1
    <3>3. i \in stops /\ \A j \in stops : i <= j
      BY <1>3, <2>2, <3>2
    <3>4. i \in a + 1 .. d - 1 /\ (i - a) % n = 0 /\ Breaks(i)
      BY <1>5, <3>3
    <3>5. i % n = 0 /\ i \in a + 1 .. d
      <4>1. i \in Int /\ i \in a + 1 .. d
        BY <1>1, <3>4
      <4> QED
        BY <1>1, <3>4, <4>1, Aligned
    <3> QED
      BY <3>3, <3>4, <3>5
  <2> QED
    BY <2>1, <2>2
<1>7. ASSUME NEW c \in Addresses(d, n), a <= c, c < i
      PROVE  c \in R /\ (Matching => AsRead(c) = AsRead(a))
  <2>1. CASE c = a
    BY <2>1 DEF R
  <2>2. CASE c # a
    <3>1. c \in a + 1 .. d - 1 /\ c \in Int /\ c % n = 0
      BY <1>1, <1>7, <2>2
    <3>2. (c - a) % n = 0
      BY <1>1, <3>1, Aligned
    <3>3. c \notin stops
      BY <1>1, <1>6, <1>7, <3>1
    <3>4. ~Breaks(c)
      BY <1>5, <3>1, <3>2, <3>3
    <3>5. a \in Addresses(d, n)
      BY <1>1 DEF R
    <3> QED
      BY <1>2, <3>4, <3>5 DEF Breaks
  <2> QED
    BY <2>1, <2>2
<1>8. i \in R => i < d /\ i \in Addresses(d, n)
  BY <1>1
<1>9. i \in R => Matching
  BY <1>6, <1>8 DEF Breaks
<1>10. ~Follows(i - n, i, Matching)
  <2>1. SUFFICES ASSUME Follows(i - n, i, Matching) PROVE FALSE
    OBVIOUS
  <2>2. i - n \in R /\ i \in R /\ (Matching => AsRead(i - n) = AsRead(i))
    BY <2>1 DEF Follows, R
  <2>3. Matching /\ NewValues[i] # NewValues[a]
    BY <1>6, <1>8, <2>2 DEF Breaks
  <2>4. i - n \in Addresses(d, n) /\ i \in Addresses(d, n) /\ a \in Addresses(d, n)
    BY <1>1, <1>8, <2>2 DEF R
  <2>5. a <= i - n /\ i - n < i
    <3>1. a + n <= i
      <4>1. i \in Int /\ a < i
        BY <1>1, <1>6
      <4> QED
        BY <1>1, <1>6, <4>1, Aligned
    <3>2. i \in Int
      BY <1>1, <1>6
    <3> QED
      BY <1>1, <3>1, <3>2
  <2>6. AsRead(i - n) = AsRead(a)
    BY <1>7, <2>3, <2>4, <2>5
  <2> QED
    BY <1>2, <2>2, <2>3, <2>4, <2>6
<1> QED
  BY <1>6, <1>7, <1>9, <1>10 DEF n, d, R, i
\* Every result of a maximal run has the length of the run.
LEMMA RunLengths ==
  ASSUME ConsecCall, NEW s \in call.Results, First(s), NEW i \in s + 1 .. call.DumpSize, i % S.Size = 0,
         \A c \in Addresses(call.DumpSize, S.Size) :
           s <= c /\ c + S.Size < i => Follows(c, c + S.Size, Matching),
         ~Follows(i - S.Size, i, Matching),
         NEW b \in call.Results, s <= b, b < i
  PROVE  RunLength(b, Matching) = (i - s) \div S.Size
<1> DEFINE n == S.Size
           d == call.DumpSize
           R == call.Results
           M == Matching
           Link(c) == Follows(c, c + n, M)
           Run == {x \in R : \A c \in Addresses(d, n) :
                     c + n < d /\ ((b <= c /\ c < x) \/ (x <= c /\ c < b)) => Link(c)}
           A == {x \in s .. i - 1 : x % n = 0}
<1>1. RunLength(b, M) = Cardinality(Run)
  BY DEF RunLength
<1>2. /\ n \in {1, 2, 4, 8} /\ d \in Nat /\ d % n = 0 /\ R \subseteq Addresses(d, n)
      /\ s \in Int /\ i \in Int /\ b \in Int /\ s % n = 0 /\ i % n = 0 /\ s \in 0 .. d - 1
      /\ s \in R /\ b \in R /\ s <= b /\ b < i /\ i \in s + 1 .. d
  BY DEF ConsecCall
<1>3. \A c \in Addresses(d, n) : s <= c /\ c + n < i => Link(c)
  OBVIOUS
<1>4. ~Follows(s - n, s, M) /\ ~Follows(i - n, i, M)
  BY DEF First
<1>5. \A c : Link(c) => c + n \in R
  BY DEF Follows
<1> HIDE DEF n, d, R, M, Link
<1>6. ASSUME NEW x \in A PROVE x \in Run
  <2>1. x \in Int /\ s <= x /\ x < i /\ x % n = 0 /\ x \in 0 .. d - 1
    BY <1>2
  <2>2. x \in R
    <3>1. CASE x = s
      BY <1>2, <3>1
    <3>2. CASE x # s
      <4>1. s + n <= x /\ (x - n) % n = 0
        <5>1. s < x
          BY <1>2, <2>1, <3>2
        <5>2. s + n <= x
          BY <1>2, <2>1, <5>1, Aligned
        <5>3. (x - n) % n = 0
          BY <1>2, <2>1, Aligned
        <5> QED
          BY <5>2, <5>3
      <4>2. x - n \in Addresses(d, n) /\ s <= x - n /\ (x - n) + n < i /\ (x - n) + n = x
        BY <1>2, <2>1, <4>1
      <4> QED
        BY <1>3, <1>5, <4>2
    <3> QED
      BY <3>1, <3>2
  <2>3. ASSUME NEW c \in Addresses(d, n), c + n < d, (b <= c /\ c < x) \/ (x <= c /\ c < b)
        PROVE  Link(c)
    <3>1. c \in Int /\ c % n = 0 /\ b % n = 0
      BY <1>2
    <3>2. s <= c
      BY <1>2, <2>1, <2>3, <3>1
    <3>3. c + n < i
      <4>1. CASE c < x
        <5>1. c + n <= x
          BY <2>1, <3>1, <4>1, Aligned, <1>2
        <5> QED
          BY <1>2, <2>1, <3>1, <5>1
      <4>2. CASE c < b
        <5>1. c + n <= b
          BY <1>2, <3>1, <4>2, Aligned
        <5> QED
          BY <1>2, <3>1, <5>1
      <4> QED
        BY <2>3, <4>1, <4>2
    <3> QED
      BY <1>3, <3>2, <3>3
  <2> QED
    BY <2>2, <2>3
<1>7. ASSUME NEW x \in Run PROVE x \in A
  <2>1. x \in R /\ x \in Addresses(d, n) /\ x \in Int /\ x % n = 0 /\ x \in 0 .. d - 1
    BY <1>2
  <2>2. \A c \in Addresses(d, n) :
          c + n < d /\ ((b <= c /\ c < x) \/ (x <= c /\ c < b)) => Link(c)
    BY <1>7
  <2>3. s <= x
    <3>1. SUFFICES ASSUME x < s PROVE FALSE
      BY <1>2, <2>1
    <3>2. x + n <= s /\ (s - n) % n = 0
      BY <1>2, <2>1, <3>1, Aligned
    <3>3. s - n \in Addresses(d, n) /\ (s - n) + n < d /\ x <= s - n /\ s - n < b /\ (s - n) + n = s
      BY <1>2, <2>1, <3>2
    <3>4. Link(s - n)
      BY <2>2, <3>3
    <3>5. Follows(s - n, s, M)
      BY <3>3, <3>4 DEF Link
    <3> QED
      BY <1>4, <3>5
  <2>4. x < i
    <3>1. SUFFICES ASSUME i <= x PROVE FALSE
      BY <1>2, <2>1
    <3>2. b + n <= i /\ (i - n) % n = 0
      <4>1. b % n = 0
        BY <1>2
      <4> QED
        BY <1>2, <4>1, Aligned
    <3>3. i - n \in Addresses(d, n) /\ (i - n) + n < d /\ b <= i - n /\ i - n < x /\ (i - n) + n = i
      BY <1>2, <2>1, <3>1, <3>2
    <3>4. Link(i - n)
      BY <2>2, <3>3
    <3>5. Follows(i - n, i, M)
      BY <3>3, <3>4 DEF Link
    <3> QED
      BY <1>4, <3>5
  <2> QED
    BY <2>1, <2>3, <2>4
<1> HIDE DEF Run, A
<1>8. Run = A
  BY <1>6, <1>7
<1>9. Cardinality(A) = (i - s) \div n
  <2>1. s \in Nat /\ i \in Nat /\ s <= i
    BY <1>2
  <2> QED
    BY <1>2, <2>1, Room DEF A
<1> QED
  BY <1>1, <1>8, <1>9 DEF n, M

-----------------------------------------------------------------------------
(* The scan of FilterResultsEx.                                            *)

\* The addresses the scan starts from: the beginning of a run of results, or, after
\* a run of equal values that was kept, its second result.
ScansFrom(a) ==
  /\ a % S.Size = 0
  /\ a \in call.Results => \/ First(a)
                           \/ Matching /\ First(a - S.Size) /\ Follows(a - S.Size, a, Matching)

\* A result that is cleared and one that is not, when C is what the scan clears: a run
\* is judged by its length, or, passed over its first result, by its length less one.
Judged(C, b) ==
  LET length == RunLength(b, Matching)
  IN  /\ b \in C => RunIsCleared(S, length) \/ (Matching /\ RunIsCleared(S, length - 1))
      /\ b \notin C => \/ ~RunIsCleared(S, length)
                       \/ Matching /\ (First(b) \/ ~RunIsCleared(S, length - 1))

\* The scan judges the results from a on and clears none before.
Scanned(C, a) == \A b \in call.Results : IF b < a THEN b \notin C ELSE Judged(C, b)

\* The run seen from where the scan starts is a maximal run, or one without its first.
LEMMA RunSeen ==
  ASSUME ConsecCall, NEW a \in call.Results, ScansFrom(a)
  PROVE  LET i == RunEnd(S, call.DumpSize, NewValues, call.Results, a)
             matches == (i - a) \div S.Size
         IN  \A b \in call.Results : a <= b /\ b < i =>
               \/ matches = RunLength(b, Matching)
               \/ Matching /\ matches = RunLength(b, Matching) - 1
<1> DEFINE n == S.Size
           d == call.DumpSize
           R == call.Results
           M == Matching
           i == RunEnd(S, d, NewValues, R, a)
           matches == (i - a) \div n
<1>1. /\ n \in {1, 2, 4, 8} /\ d \in Nat /\ d % n = 0 /\ R \subseteq Addresses(d, n)
      /\ a \in Int /\ a \in 0 .. d - 1 /\ a % n = 0 /\ a \in R
  BY DEF ConsecCall
<1>2. /\ i \in a + 1 .. d /\ i % n = 0
      /\ \A c \in Addresses(d, n) : a <= c /\ c < i => c \in R /\ (M => AsRead(c) = AsRead(a))
      /\ ~Follows(i - n, i, M)
  BY RunOf
<1> HIDE DEF i
<1>3. ASSUME NEW c \in Addresses(d, n), a <= c, c + n < i
      PROVE  Follows(c, c + n, M)
  <2>0. c \in Int /\ c % n = 0 /\ c \in 0 .. d - 1 /\ i \in Int
    BY <1>1, <1>2
  <2>1. (c + n) % n = 0
    BY <1>1, <2>0, Aligned
  <2>2. c + n \in Addresses(d, n) /\ a <= c + n /\ c < i
    BY <1>1, <1>2, <1>3, <2>0, <2>1
  <2>3. /\ c \in R /\ (M => AsRead(c) = AsRead(a))
        /\ c + n \in R /\ (M => AsRead(c + n) = AsRead(a))
    BY <1>2, <1>3, <2>2
  <2> QED
    BY <2>3 DEF Follows
<1>4. CASE First(a)
  <2> SUFFICES ASSUME NEW b \in R, a <= b, b < i
               PROVE  matches = RunLength(b, M)
    BY DEF i
  <2>1. RunLength(b, Matching) = (i - a) \div S.Size
    BY <1>2, <1>3, <1>4, RunLengths
  <2> QED
    BY <2>1
<1>5. CASE M /\ First(a - n) /\ Follows(a - n, a, M)
  <2> DEFINE s == a - n
  <2> SUFFICES ASSUME NEW b \in R, a <= b, b < i
               PROVE  matches = RunLength(b, M) - 1
    BY <1>5 DEF i
  <2>1. s \in R /\ First(s) /\ s + n = a
    <3>1. First(s)
      BY <1>5
    <3>2. s \in R
      BY <3>1 DEF First
    <3>3. s + n = a
      <4> HIDE DEF n
      <4> QED
        BY <1>1
    <3> QED
      BY <3>1, <3>2, <3>3
  <2>2. s \in Int /\ s % n = 0 /\ s < a /\ i \in s + 1 .. d
    <3> HIDE DEF n
    <3>1. (a - n) % n = 0
      BY <1>1, Aligned
    <3>2. a - n \in Int /\ a - n < a /\ i \in (a - n) + 1 .. d
      BY <1>1, <1>2
    <3> QED
      BY <3>1, <3>2
  <2>3. ASSUME NEW c \in Addresses(d, n), s <= c, c + n < i
        PROVE  Follows(c, c + n, M)
    <3>1. CASE c = s
      BY <1>5, <2>1, <3>1
    <3>2. CASE c # s
      <4>1. c \in Int /\ c % n = 0
        BY <1>1
      <4>2. s < c
        BY <2>2, <2>3, <3>2, <4>1
      <4>3. s + n <= c
        <5> HIDE DEF s, n
        <5> QED
          BY <1>1, <2>2, <4>1, <4>2, Aligned
      <4> QED
        BY <1>3, <2>1, <2>3, <4>3
    <3> QED
      BY <3>1, <3>2
  <2>4. s <= b
    BY <1>1, <2>2
  <2> HIDE DEF s
  <2>5. RunLength(b, Matching) = (i - s) \div S.Size
    BY <1>2, <2>1, <2>2, <2>3, <2>4, RunLengths
  <2>6. (i - s) \div n = matches + 1
    <3>1. i \in Int
      BY <1>1, <1>2
    <3>2. (i - (a - n)) \div n = ((i - a) \div n) + 1
      <4> HIDE DEF n
      <4> QED
        BY <1>1, <3>1, Aligned
    <3> QED
      BY <3>2 DEF s
  <2>7. matches \in Int
    <3>1. i \in Int
      BY <1>1, <1>2
    <3> QED
      BY <1>1, <3>1
  <2> HIDE DEF matches
  <2> QED
    BY <2>5, <2>6, <2>7
<1>6. First(a) \/ (M /\ First(a - n) /\ Follows(a - n, a, M))
  BY DEF ScansFrom
<1> QED
  BY <1>4, <1>5, <1>6
\* What FilterResultsEx clears from address a on, by induction from the end of the dump.
LEMMA Scan ==
  ASSUME ConsecCall
  PROVE  \A a \in 0 .. call.DumpSize + S.Size :
           ScansFrom(a) => Scanned(Clearing(S, call.DumpSize, NewValues, call.Results)[a], a)
<1> DEFINE n == S.Size
           d == call.DumpSize
           R == call.Results
           M == Matching
           C == Clearing(S, d, NewValues, R)
           Good(a) == ScansFrom(a) => Scanned(C[a], a)
           Wrong == {k \in 0 .. d + n : ~Good(d + n - k)}
<1>1. n \in {1, 2, 4, 8} /\ n \in Nat \ {0} /\ d \in Nat /\ d % n = 0 /\ R \subseteq Addresses(d, n)
  BY DEF ConsecCall
<1>2. \A a \in 0 .. d + n : C[a] = ClearsAt(S, d, NewValues, R, C, a)
  BY <1>1, ClearingDefined
<1>3. \A b : First(b) => b \in R
  BY DEF First
<1>4. \A b, c : Follows(b, c, M) => b \in R /\ c \in R
  BY DEF Follows
<1>5. \A b : b \in R /\ ~Follows(b - n, b, M) => First(b)
  BY DEF First
<1> SUFFICES \A a \in 0 .. d + n : Good(a)
  OBVIOUS
<1> HIDE DEF C, Good
<1>6. SUFFICES ASSUME Wrong # {} PROVE FALSE
  <2>1. ASSUME NEW a \in 0 .. d + n, Wrong = {}
        PROVE  Good(a)
    <3>1. d + n - a \in 0 .. d + n /\ d + n - (d + n - a) = a
      <4> HIDE DEF d, n
      <4> QED
        BY <1>1
    <3> QED
      BY <2>1, <3>1
  <2> QED
    BY <2>1
<1>7. Wrong \subseteq Nat
  BY <1>1
<1>8. PICK k \in Wrong : \A j \in Wrong : ~(<<j, k>> \in OpToRel(<, Nat))
  BY <1>6, <1>7, NatLessThanWellFounded, WFMin
<1> DEFINE a == d + n - k
<1>9. k \in 0 .. d + n /\ ~Good(a)
  BY <1>8
<1> HIDE DEF n, d, R, M
<1>10. a \in 0 .. d + n /\ a \in Int
  BY <1>1, <1>9
<1>11. ASSUME NEW b \in 0 .. d + n, a < b
       PROVE  Good(b)
  <2> DEFINE j == d + n - b
  <2>1. j \in 0 .. d + n /\ j < k /\ j \in Nat /\ k \in Nat /\ d + n - j = b
    BY <1>1, <1>9, <1>11
  <2>2. j \notin Wrong
    BY <1>8, <2>1 DEF OpToRel
  <2> HIDE DEF j
  <2> QED
    BY <2>1, <2>2
<1> HIDE DEF a, Wrong
<1>12. SUFFICES ASSUME ScansFrom(a) PROVE Scanned(C[a], a)
  BY <1>9 DEF Good
<1>13. a % n = 0
  BY <1>12 DEF ScansFrom, n
<1>14. \A b \in R : b \in Int /\ b % n = 0 /\ 0 <= b /\ b < d
  BY <1>1
<1>15. CASE a >= d
  <2>1. C[a] = {}
    BY <1>2, <1>10, <1>15 DEF ClearsAt
  <2>2. \A b \in R : b < a
    BY <1>1, <1>10, <1>14, <1>15
  <2> QED
    BY <2>1, <2>2 DEF Scanned, R
<1>16. CASE a < d /\ a \notin R
  <2> DEFINE b == a + n
  <2>1. b \in 0 .. d + n /\ a < b
    BY <1>1, <1>10, <1>16
  <2>2. C[a] = C[b]
    <3>1. C[a] = ClearsRun(S, R, C, a, RunEnd(S, d, NewValues, R, a))
      BY <1>1, <1>2, <1>10, <1>16 DEF ClearsAt
    <3> QED
      BY <1>16, <3>1 DEF ClearsRun, n
  <2>3. ScansFrom(b)
    <3>1. b % n = 0
      BY <1>1, <1>10, <1>13, Aligned
    <3>2. b - n = a
      BY <1>1, <1>10
    <3>3. b \in R => First(b)
      BY <1>4, <1>5, <1>16, <3>2
    <3> QED
      BY <3>1, <3>3 DEF ScansFrom, n, R
  <2>4. Scanned(C[b], b)
    BY <1>11, <2>1, <2>3 DEF Good
  <2>5. ASSUME NEW c \in R
        PROVE  c < a <=> c < b
    <3>1. c # a /\ c \in Int /\ c % n = 0
      BY <1>14, <1>16
    <3>2. a < c => b <= c
      BY <1>1, <1>10, <1>13, <3>1, Aligned
    <3> QED
      BY <1>1, <1>10, <3>1, <3>2
  <2> HIDE DEF b
  <2> QED
    BY <2>2, <2>4, <2>5 DEF Scanned, R
<1>17. CASE a \in R
  <2> DEFINE i == RunEnd(S, d, NewValues, R, a)
             matches == (i - a) \div n
  <2>1. /\ i \in a + 1 .. d /\ i % n = 0
        /\ \A c \in Addresses(d, n) : a <= c /\ c < i => c \in R /\ (M => AsRead(c) = AsRead(a))
        /\ i \in R => M
        /\ ~Follows(i - n, i, M)
    BY <1>17, RunOf DEF n, d, R, M
  <2>2. \A b \in R : a <= b /\ b < i =>
          matches = RunLength(b, M) \/ (M /\ matches = RunLength(b, M) - 1)
    BY <1>12, <1>17, RunSeen DEF n, d, R, M
  <2>3. C[a] = IF RunIsCleared(S, matches) THEN {b \in R : a <= b /\ b < i} \cup C[i] ELSE C[i + n]
    <3>1. a < d
      BY <1>14, <1>17
    <3>2. C[a] = ClearsRun(S, R, C, a, i)
      BY <1>1, <1>2, <1>10, <3>1 DEF ClearsAt
    <3> QED
      BY <1>17, <3>2 DEF ClearsRun, n
  <2>4. i \in Int /\ a < i /\ i \in 0 .. d + n /\ i + n \in 0 .. d + n /\ i < i + n /\ a < i + n
    BY <1>1, <1>10, <2>1
  <2>5. i \in R => First(i)
    BY <1>5, <2>1
  <2> HIDE DEF i, matches
  <2>6. CASE RunIsCleared(S, matches)
    <3>1. ScansFrom(i)
      BY <2>1, <2>5 DEF ScansFrom, n, R
    <3>2. Scanned(C[i], i)
      BY <1>11, <2>4, <3>1 DEF Good
    <3>3. C[a] = {b \in R : a <= b /\ b < i} \cup C[i]
      BY <2>3, <2>6
    <3> SUFFICES ASSUME NEW b \in R
                 PROVE  IF b < a THEN b \notin C[a] ELSE Judged(C[a], b)
      BY DEF Scanned, R
    <3>4. b \in Int /\ (IF b < i THEN b \notin C[i] ELSE Judged(C[i], b))
      BY <1>14, <3>2 DEF Scanned, R
    <3>5. CASE b < a
      BY <1>10, <2>4, <3>3, <3>4, <3>5
    <3>6. CASE a <= b /\ b < i
      <4>1. b \in C[a]
        BY <3>3, <3>6
      <4>2. RunIsCleared(S, RunLength(b, M)) \/ (M /\ RunIsCleared(S, RunLength(b, M) - 1))
        BY <2>2, <2>6, <3>6
      <4>3. Judged(C[a], b)
        BY <4>1, <4>2 DEF Judged, M
      <4> QED
        BY <1>10, <3>4, <3>6, <4>3
    <3>7. CASE i <= b
      <4>1. b \in C[a] <=> b \in C[i]
        BY <2>4, <3>3, <3>4, <3>7
      <4>2. Judged(C[i], b)
        BY <2>4, <3>4, <3>7
      <4>3. Judged(C[a], b)
        BY <4>1, <4>2 DEF Judged
      <4> QED
        BY <1>10, <2>4, <3>4, <3>7, <4>3
    <3> QED
      BY <1>10, <2>4, <3>4, <3>5, <3>6, <3>7
  <2>7. CASE ~RunIsCleared(S, matches)
    <3> DEFINE e == i + n
    <3>1. ScansFrom(e)
      <4>1. e % n = 0 /\ e - n = i
        <5>1. (i + n) % n = 0
          BY <1>1, <2>1, <2>4, Aligned
        <5>2. (i + n) - n = i
          BY <1>1, <2>4
        <5> QED
          BY <5>1, <5>2
      <4>2. e \in R => First(e) \/ (M /\ First(e - n) /\ Follows(e - n, e, M))
        <5>1. SUFFICES ASSUME e \in R, Follows(i, e, M)
                       PROVE  M /\ First(i)
          BY <1>5, <4>1
        <5>2. i \in R
          BY <1>4, <5>1
        <5> QED
          BY <2>1, <2>5, <5>2
      <4> QED
        BY <4>1, <4>2 DEF ScansFrom, n, R, M
    <3>2. Scanned(C[e], e)
      BY <1>11, <2>4, <3>1 DEF Good
    <3>3. C[a] = C[e]
      BY <2>3, <2>7
    <3> SUFFICES ASSUME NEW b \in R
                 PROVE  IF b < a THEN b \notin C[a] ELSE Judged(C[a], b)
      BY DEF Scanned, R
    <3>4. b \in Int /\ e \in Int /\ i < e /\ (IF b < e THEN b \notin C[e] ELSE Judged(C[e], b))
      BY <1>14, <2>4, <3>2 DEF Scanned, R
    <3>5. b % n = 0 /\ (i < b => e <= b)
      <4>1. b % n = 0
        BY <1>14
      <4> QED
        BY <1>1, <2>1, <2>4, <3>4, <4>1, Aligned
    <3> HIDE DEF e
    <3>6. CASE b < a
      BY <1>10, <2>4, <3>3, <3>4, <3>6
    <3>7. CASE a <= b /\ b < i
      <4>1. b \notin C[a]
        BY <2>4, <3>3, <3>4, <3>7
      <4>2. ~RunIsCleared(S, RunLength(b, M)) \/ (M /\ ~RunIsCleared(S, RunLength(b, M) - 1))
        BY <2>2, <2>7, <3>7
      <4>3. Judged(C[a], b)
        BY <4>1, <4>2 DEF Judged, M
      <4> QED
        BY <1>10, <3>4, <3>7, <4>3
    <3>8. CASE b = i
      <4>1. b \notin C[a] /\ First(b) /\ M
        BY <2>1, <2>4, <2>5, <3>3, <3>4, <3>8
      <4>2. Judged(C[a], b)
        BY <4>1 DEF Judged, M
      <4> QED
        BY <1>10, <2>4, <3>8, <4>2
    <3>9. CASE e <= b
      <4>1. Judged(C[a], b)
        BY <3>3, <3>4, <3>9
      <4> QED
        BY <1>10, <2>4, <3>4, <3>9, <4>1
    <3> QED
      BY <1>10, <2>4, <3>4, <3>5, <3>6, <3>7, <3>8, <3>9
  <2> QED
    BY <2>6, <2>7
<1> QED
  BY <1>10, <1>15, <1>16, <1>17, <1>1
\* An option on consecutive results hands all of them to FilterResultsEx.
LEMMA ConsecStays ==
  ASSUME NEW f \in ConsecFlags, OneOption(f), NEW d, NEW m, NEW nv, NEW ov, NEW R
  PROVE  CodeSearch(S, d, m, nv, ov, R).Results = R \ Clearing(S, d, nv, R)[0]
<1> DEFINE verdict == [b \in R |-> Verdict(S, m, b, nv[b], ov[b])]
           left == {b \in R : verdict[b] # "off"}
           count == Cardinality({b \in R : verdict[b] = "keep"})
           off(b) == TurnedOff(S, Operand(S, nv[b]), Operand(S, ov[b]),
                               Operand(S, S.Values[0]), Operand(S, S.Values[1]))
<1>1. S.TypeEx = {f} /\ S.TypeEx \cap ConsecFlags # {}
  BY DEF OneOption
<1>2. "OR_EQUAL" \notin S.TypeEx /\ "SIGNED" \notin S.TypeEx
  BY <1>1 DEF ConsecFlags
<1>3. CodeSearch(S, d, m, nv, ov, R) = FilterResultsEx(S, d, nv, left, count)
  BY <1>1 DEF CodeSearch
<1>4. ASSUME NEW b \in R
      PROVE  Verdict(S, m, b, nv[b], ov[b]) # "off"
  <2>1. ~off(b)
    <3>1. S.Type = "BITS_ALL" /\ Operand(S, S.Values[0]) = 0
      BY <1>2 DEF OneOption, Operand
    <3>2. off(b) <=> ~(Bits(0) \subseteq Bits(Operand(S, nv[b])))
      BY <3>1 DEF TurnedOff
    <3> QED
      BY <3>2, NoBits
  <2>2. ~Ignored(S, m, b, nv[b])
    <3>1. \A g \in S.TypeEx : g \in ConsecFlags
      BY <1>1
    <3>2. \A part \in {"BYTE", "SHORT", "WORD", "DWORD"} :
            IGNORE_VALUE(part) \notin ConsecFlags /\ IGNORE_RANGE(part) \notin ConsecFlags
      BY DEF IGNORE_VALUE, IGNORE_RANGE, ConsecFlags
    <3>3. {"IGNORE_0", "IGNORE_FF", "IGNORE_VALUE", "IGNORE_IN_RANGE", "IGNORE_NOT_RANGE",
           "INCLUDE_ADDRESS_RANGE", "EXCLUDE_UPPER16", "EXCLUDE_LOWER16"} \cap ConsecFlags = {}
      BY DEF ConsecFlags
    <3>4. {"IGNORE_0", "IGNORE_FF", "IGNORE_VALUE", "IGNORE_IN_RANGE", "IGNORE_NOT_RANGE",
           "INCLUDE_ADDRESS_RANGE", "EXCLUDE_UPPER16", "EXCLUDE_LOWER16"} \cap S.TypeEx = {}
      BY <3>1, <3>3
    <3>5. \A part \in {"BYTE", "SHORT", "WORD", "DWORD"} :
            IGNORE_VALUE(part) \notin S.TypeEx /\ IGNORE_RANGE(part) \notin S.TypeEx
      BY <3>1, <3>2
    <3> QED
      BY <3>4, <3>5 DEF Ignored
  <2> HIDE DEF off
  <2>3. Verdict(S, m, b, nv[b], ov[b]) = "keep"
    BY <1>2, <2>1, <2>2, Zenon DEF Verdict, off
  <2> QED
    BY <2>3
<1>5. left = R
  BY <1>4
<1> HIDE DEF left, count
<1>6. FilterResultsEx(S, d, nv, left, count).Results = left \ Clearing(S, d, nv, left)[0]
  <2>1. FilterResultsEx(S, d, nv, left, count) =
          [Results |-> left \ Clearing(S, d, nv, left)[0],
           ResCount |-> ConsecCount(S, count, Clearing(S, d, nv, left)[0])]
    BY FilterClears
  <2> QED
    BY <2>1
<1> QED
  BY <1>3, <1>5, <1>6

\* The options on consecutive results judge every result by its maximal run:
\* ConsecRuns, for every dump and every width of a byte.
LEMMA ConsecLabels ==
  ASSUME Searched
  PROVE  ConsecRuns
<1>1. SUFFICES ASSUME pc = "done", NEW f \in S.TypeEx \cap ConsecFlags, NEW a \in call.Results
               PROVE  LET n == Ex1(S, f)
                          same == f \in {"EXCLUDE_CONSEC_MATCH_VALUES", "INCLUDE_CONSEC_MATCH_VALUES"}
                          length == RunLength(a, same)
                          first == ~Follows(a - S.Size, a, same)
                      IN  CASE f = "EXCLUDE_CONSEC" -> (a \in results <=> length < n)
                            [] f = "INCLUDE_CONSEC" -> (a \in results <=> length > n)
                            [] f = "EXCLUDE_CONSEC_MATCH_VALUES" ->
                                 (length < n => a \in results) /\ (length > n => first \/ a \notin results)
                            [] f = "INCLUDE_CONSEC_MATCH_VALUES" ->
                                 (length > n + 1 => a \in results) /\ (length <= n => first \/ a \notin results)
  BY Zenon DEF ConsecRuns
<1> DEFINE n == Ex1(S, f)
           same == f \in {"EXCLUDE_CONSEC_MATCH_VALUES", "INCLUDE_CONSEC_MATCH_VALUES"}
           length == RunLength(a, same)
           first == ~Follows(a - S.Size, a, same)
           C == Clearing(S, call.DumpSize, NewValues, call.Results)[0]
<1>2. OneOption(f) /\ ConsecCall /\ n \in Nat
  <2>1. ~PointShape
    BY DEF PointShape, ConsecFlags
  <2>2. ~FilterShape
    <3>1. f \notin Filters
      BY DEF ConsecFlags, Filters, ValueFilters, AddressFilters, PartFilters, PartSize,
             IGNORE_VALUE, IGNORE_RANGE
    <3> QED
      BY <3>1 DEF FilterShape, OneOption
  <2>3. ConsecShape
    BY <2>1, <2>2 DEF Searched, Shape
  <2>4. PICK g \in ConsecFlags :
          /\ OneOption(g)
          /\ call.DumpSize \in 0 .. CountMod - 1 /\ call.DumpSize % S.Size = 0
          /\ call.Results \subseteq Addresses(call.DumpSize, S.Size)
          /\ Ex1(S, g) \in 0 .. MaxConsec
    BY <2>3, Zenon DEF ConsecShape
  <2>5. g = f
    BY <2>4 DEF OneOption
  <2>6. call.DumpSize \in Nat
    BY <2>4, SearchLibAssumption
  <2>7. S.Size \in {1, 2, 4, 8} /\ call.Access = "array"
    BY <2>4 DEF OneOption
  <2>8. ConsecCall
    BY <2>4, <2>6, <2>7 DEF ConsecCall
  <2>9. Ex1(S, f) \in Nat
    BY <2>4, <2>5, SearchCheckAssumption
  <2> QED
    BY <2>4, <2>5, <2>8, <2>9
<1>3. S.TypeEx = {f}
  BY <1>2 DEF OneOption
<1>4. a \in results <=> a \notin C
  <2>1. PICK junk : results = Found(junk).Results
    BY <1>1 DEF Searched
  <2> DEFINE ov == IF call.Old = NoDump THEN [b \in DOMAIN NewValues |-> junk] ELSE ValuesOf(call.Old)
  <2>2. Found(junk) = CodeSearch(S, call.DumpSize, call.MapMemAddy, NewValues, ov, call.Results)
    BY DEF Found, S, NewValues
  <2> HIDE DEF ov
  <2>3. CodeSearch(S, call.DumpSize, call.MapMemAddy, NewValues, ov, call.Results).Results
          = call.Results \ C
    BY <1>2, ConsecStays
  <2> QED
    BY <2>1, <2>2, <2>3
<1>5. Matching <=> same
  BY <1>3 DEF Matching
<1>6. Judged(C, a)
  <2>1. 0 \in 0 .. call.DumpSize + S.Size /\ 0 % S.Size = 0
    BY <1>2 DEF ConsecCall
  <2>2. ScansFrom(0)
    <3>1. 0 - S.Size \notin call.Results
      BY <1>2 DEF ConsecCall
    <3>2. 0 \in call.Results => First(0)
      BY <3>1 DEF First, Follows
    <3> QED
      BY <2>1, <3>2 DEF ScansFrom
  <2> HIDE DEF C
  <2>3. Scanned(C, 0)
    BY <1>2, <2>1, <2>2, Scan DEF C
  <2>4. a \in Int /\ a >= 0
    BY <1>2 DEF ConsecCall
  <2> QED
    BY <2>3, <2>4 DEF Scanned
<1>7. Matching = same
  BY <1>5 DEF Matching
<1> HIDE DEF C
<1>8. /\ a \in C => RunIsCleared(S, length) \/ (same /\ RunIsCleared(S, length - 1))
      /\ a \notin C => ~RunIsCleared(S, length) \/ (same /\ (first \/ ~RunIsCleared(S, length - 1)))
  BY <1>6, <1>7 DEF Judged, First
<1>9. length \in Int
  <2> DEFINE Run == {b \in call.Results :
                       \A c \in Addresses(call.DumpSize, S.Size) :
                         c + S.Size < call.DumpSize /\ ((a <= c /\ c < b) \/ (b <= c /\ c < a))
                           => Follows(c, c + S.Size, same)}
  <2>1. call.DumpSize - 1 \in Int /\ 0 \in Int /\ Run \subseteq 0 .. call.DumpSize - 1
    BY <1>2 DEF ConsecCall
  <2>2. length = Cardinality(Run)
    BY DEF RunLength
  <2> HIDE DEF Run
  <2>3. IsFiniteSet(0 .. call.DumpSize - 1)
    BY <2>1, FS_Interval
  <2>4. Cardinality(Run) \in Nat
    BY <2>1, <2>3, FS_Subset, FS_CardinalityType
  <2> QED
    BY <2>2, <2>4
<1>10. \A g \in ConsecFlags : Ex1(S, g) = n
  BY DEF Ex1, Slot
<1> HIDE DEF n, length, first
<1>11. \A k \in Int :
         RunIsCleared(S, k) <=> \/ f \in {"EXCLUDE_CONSEC", "EXCLUDE_CONSEC_MATCH_VALUES"} /\ k >= n
                                \/ f \in {"INCLUDE_CONSEC", "INCLUDE_CONSEC_MATCH_VALUES"} /\ k <= n
  BY <1>3, <1>10 DEF RunIsCleared, ConsecFlags
<1>12. length - 1 \in Int
  BY <1>9
<1>13. CASE f = "EXCLUDE_CONSEC"
  <2>1. ~same /\ (RunIsCleared(S, length) <=> length >= n)
    BY <1>9, <1>11, <1>13
  <2>2. a \in results <=> length < n
    BY <1>2, <1>4, <1>8, <1>9, <2>1
  <2> QED
    BY <1>13, <2>2 DEF length, n
<1>14. CASE f = "INCLUDE_CONSEC"
  <2>1. ~same /\ (RunIsCleared(S, length) <=> length <= n)
    BY <1>9, <1>11, <1>14
  <2>2. a \in results <=> length > n
    BY <1>2, <1>4, <1>8, <1>9, <2>1
  <2> QED
    BY <1>14, <2>2 DEF length, n
<1>15. CASE f = "EXCLUDE_CONSEC_MATCH_VALUES"
  <2>1. (RunIsCleared(S, length) <=> length >= n) /\ (RunIsCleared(S, length - 1) <=> length - 1 >= n)
    BY <1>9, <1>11, <1>12, <1>15
  <2>2. (length < n => a \in results) /\ (length > n => first \/ a \notin results)
    BY <1>2, <1>4, <1>8, <1>9, <2>1
  <2> QED
    BY <1>15, <2>2 DEF length, n, first
<1>16. CASE f = "INCLUDE_CONSEC_MATCH_VALUES"
  <2>1. (RunIsCleared(S, length) <=> length <= n) /\ (RunIsCleared(S, length - 1) <=> length - 1 <= n)
    BY <1>9, <1>11, <1>12, <1>16
  <2>2. (length > n + 1 => a \in results) /\ (length <= n => first \/ a \notin results)
    BY <1>2, <1>4, <1>8, <1>9, <2>1
  <2> QED
    BY <1>16, <2>2 DEF length, n, first
<1> QED
  BY <1>13, <1>14, <1>15, <1>16 DEF ConsecFlags

\* The options on consecutive results judge every result by the maximal run it
\* belongs to (FilterResultsEx), up to the first result of a run of equal values
\* after a kept one, for every dump of whole values and every number typed.
THEOREM ConsecRunsCorrect == Spec => []ConsecRuns
  BY ConsecLabels, SearchedInvariant, PTL
=============================================================================
