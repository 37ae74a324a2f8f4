-------------------------- MODULE ActiveCheats_proofs --------------------------
(***************************************************************************)
(* The properties of ActiveCheats, for any packet and array size, any list *)
(* and any number of operations, lost links and restarts.                  *)
(***************************************************************************)
EXTENDS ActiveCheats, SequenceTheorems, FiniteSetTheorems, WellFoundedInduction, TLAPS

\* What the steps of an update rely on.  The GUI thread alone disconnects, so
\* that the link, once lost, stays lost until the update has failed.
Steps ==
  /\ pc \in {"clear", "once"} => sent = 0
  /\ pc = "clear again" => Collected(list) = <<>>
  /\ pc = "clear all" => list = <<>>
  /\ pc = "add" => /\ connected /\ ~dumping
                   /\ codes = Collected(list)
                   /\ link => ps2 = SubSeq(codes, 1, sent)
  /\ pc = "once" /\ clean => ps2 = Collected(list)

IInv == TypeOK /\ EditHitsItsRow /\ OneRowPerAddress /\ UpdateDelivers /\ NoMixture /\ Steps

-----------------------------------------------------------------------------
(* Selections.                                                             *)

Upto(I, i) == {j \in I : j <= i}

\* The elements of I up to i: one more at every member.
LEMMA UptoStep ==
  ASSUME NEW n \in Nat, NEW I \in SUBSET (1 .. n), NEW i \in Nat
  PROVE  /\ Cardinality(Upto(I, i)) \in Nat
         /\ i + 1 \in I => Cardinality(Upto(I, i + 1)) = Cardinality(Upto(I, i)) + 1
         /\ i + 1 \notin I => Upto(I, i + 1) = Upto(I, i)
<1>0. \A j \in I : j \in Nat /\ (j <= i + 1 <=> j <= i \/ j = i + 1) /\ ~(i + 1 <= i)
  OBVIOUS
<1>1. IsFiniteSet(Upto(I, i))
  <2>1. Upto(I, i) \in SUBSET (1 .. n)
    BY DEF Upto
  <2>2. IsFiniteSet(1 .. n)
    BY FS_Interval
  <2> QED
    BY <2>1, <2>2, FS_Subset, Zenon
<1>2. i + 1 \notin Upto(I, i)
  BY DEF Upto
<1>3. i + 1 \in I => Upto(I, i + 1) = Upto(I, i) \cup {i + 1}
  BY <1>0, Zenon DEF Upto
<1>4. i + 1 \notin I => Upto(I, i + 1) = Upto(I, i)
  BY <1>0, Zenon DEF Upto
<1> QED
  BY <1>1, <1>2, <1>3, <1>4, FS_CardinalityType, FS_AddElement

\* A set of indices has a k-th element, for each k up to its size.
LEMMA NthExists ==
  ASSUME NEW n \in Nat, NEW I \in SUBSET (1 .. n), NEW k \in 1 .. Cardinality(I)
  PROVE  Nth(I, k) \in I /\ Cardinality(Upto(I, Nth(I, k))) = k
<1> DEFINE T == {i \in Nat : Cardinality(Upto(I, i)) >= k}
<1>0. IsFiniteSet(I) /\ Cardinality(I) \in Nat
  <2>1. IsFiniteSet(1 .. n) /\ I \in SUBSET (1 .. n)
    BY FS_Interval
  <2>2. IsFiniteSet(I)
    BY <2>1, FS_Subset
  <2> QED
    BY <2>2, FS_CardinalityType
<1>1. T # {}
  <2>0. \A j \in I : j <= n
    OBVIOUS
  <2>1. Upto(I, n) = I
    BY <2>0, Zenon DEF Upto
  <2> QED
    BY <1>0, <2>1
<1>2. PICK i \in T : \A j \in T : i <= j
  <2>1. PICK i \in T : \A j \in T : ~(<<j, i>> \in OpToRel(<, Nat))
    BY <1>1, NatLessThanWellFounded, WFMin
  <2>2. \A j \in T : ~(j < i)
    BY <2>1 DEF OpToRel
  <2> QED
    BY <2>2
<1>3. i # 0
  <2>0. \A j \in I : ~(j <= 0)
    OBVIOUS
  <2>1. Upto(I, 0) = {}
    BY <2>0, Zenon DEF Upto
  <2>2. Cardinality(Upto(I, 0)) = 0
    BY <2>1, FS_EmptySet
  <2> QED
    BY <1>2, <2>2
<1>4. i - 1 \in Nat /\ i - 1 \notin T
  BY <1>2, <1>3
<1>5. Cardinality(Upto(I, i - 1)) \in Nat /\ Cardinality(Upto(I, i - 1)) < k
  <2>1. Cardinality(Upto(I, i - 1)) \in Nat
    BY <1>4, UptoStep, Zenon
  <2>2. ~(Cardinality(Upto(I, i - 1)) >= k)
    BY <1>4
  <2> QED
    BY <2>1, <2>2
<1>6. i \in I /\ Cardinality(Upto(I, i)) = k
  <2>1. (i - 1) + 1 = i
    BY <1>2
  <2>2. Cardinality(Upto(I, i)) >= k
    BY <1>2
  <2> DEFINE j == i - 1
  <2>a. j \in Nat /\ j + 1 = i
    BY <1>4, <2>1
  <2>b. /\ j + 1 \in I => Cardinality(Upto(I, j + 1)) = Cardinality(Upto(I, j)) + 1
        /\ j + 1 \notin I => Upto(I, j + 1) = Upto(I, j)
    <3> HIDE DEF j
    <3> QED
      BY <2>a, UptoStep, Zenon
  <2>3. i \in I
    <3>1. CASE i \notin I
      <4>1. Upto(I, i) = Upto(I, i - 1)
        BY <2>a, <2>b, <3>1
      <4> QED
        BY <1>5, <2>2, <4>1
    <3> QED
      BY <3>1
  <2>4. Cardinality(Upto(I, i)) = Cardinality(Upto(I, i - 1)) + 1
    BY <2>a, <2>b, <2>3
  <2> QED
    BY <1>5, <2>2, <2>3, <2>4
<1> QED
  BY <1>6 DEF Nth, Upto

\* A selection is as long as the set of indices, and takes each of them once.
LEMMA SelectType ==
  ASSUME NEW S, NEW s \in Seq(S), NEW I \in SUBSET DOMAIN s
  PROVE  /\ Select(s, I) \in Seq(S)
         /\ Len(Select(s, I)) = Cardinality(I)
         /\ Cardinality(I) \in Nat /\ Cardinality(I) <= Len(s)
         /\ \A k \in 1 .. Cardinality(I) :
              Select(s, I)[k] = s[Nth(I, k)] /\ Nth(I, k) \in I
         /\ \A k, m \in 1 .. Cardinality(I) : Nth(I, k) = Nth(I, m) => k = m
<1>1. Len(s) \in Nat /\ I \in SUBSET (1 .. Len(s)) /\ s \in [1 .. Len(s) -> S]
  BY LenProperties
<1>2. Cardinality(I) \in Nat /\ Cardinality(I) <= Len(s)
  <2> DEFINE n == Len(s)
  <2>a. n \in Nat
    BY <1>1
  <2>1. IsFiniteSet(1 .. n) /\ Cardinality(1 .. n) = n
    <3> HIDE DEF n
    <3>1. IsFiniteSet(1 .. n) /\ Cardinality(1 .. n) = IF 1 > n THEN 0 ELSE n - 1 + 1
      BY <2>a, FS_Interval
    <3> QED
      BY <2>a, <3>1
  <2>2. IsFiniteSet(I) /\ Cardinality(I) <= Cardinality(1 .. Len(s))
    BY <1>1, <2>1, FS_Subset
  <2> QED
    BY <2>1, <2>2, FS_CardinalityType
<1>3. \A k \in 1 .. Cardinality(I) : Nth(I, k) \in I /\ Cardinality(Upto(I, Nth(I, k))) = k
  BY <1>1, NthExists
<1>4. Select(s, I) \in [1 .. Cardinality(I) -> S]
  BY <1>1, <1>3 DEF Select
<1> QED
  BY <1>2, <1>3, <1>4 DEF Select

\* What an update collects is a list of codes.
LEMMA CollectedType ==
  ASSUME NEW l \in Seq(Rows)
  PROVE  Collected(l) \in Seq(Codes)
<1> DEFINE on == OnRows(l)
           m == MinOf(Len(on), MaxPatches)
<1>1. on \in Seq(Rows)
  BY SelectType DEF OnRows
<1>2. m \in Nat /\ m <= Len(on) /\ on \in [1 .. Len(on) -> Rows]
  BY <1>1, LenProperties, CheatsAssumption DEF MinOf
<1> HIDE DEF on, m
<1>3. \A k \in 1 .. m : Code(on[k]) \in Codes
  BY <1>2 DEF Code, Rows, Codes
<1>4. [k \in 1 .. m |-> Code(on[k])] \in [1 .. m -> Codes]
  BY <1>3
<1> QED
  BY <1>2, <1>4 DEF Collected, on, m

\* An empty list has nothing to send.
LEMMA CollectedEmpty == Collected(<<>>) = <<>>
<1>1. OnRows(<<>>) = <<>>
  <2>1. <<>> \in Seq(Rows) /\ {i \in DOMAIN <<>> : <<>>[i].checked} = {}
    OBVIOUS
  <2>2. Select(<<>>, {}) \in Seq(Rows) /\ Len(Select(<<>>, {})) = Cardinality({})
    BY <2>1, SelectType
  <2>3. Cardinality({}) = 0
    BY FS_EmptySet
  <2> QED
    BY <2>1, <2>2, <2>3, EmptySeq DEF OnRows
<1>2. MinOf(0, MaxPatches) = 0
  BY CheatsAssumption DEF MinOf
<1> QED
  BY <1>1, <1>2 DEF Collected

-----------------------------------------------------------------------------
(* The list and the edit box.                                              *)

Distinct(l) == \A i, j \in DOMAIN l : l[i].address = l[j].address => i = j

\* A row is replaced by one of its address, or added at the end with a new one.
LEMMA ResultRows ==
  ASSUME NEW l \in Seq(Rows), NEW e \in Entries
  PROVE  /\ Result2ActiveList(l, e) \in Seq(Rows)
         /\ Distinct(l) => Distinct(Result2ActiveList(l, e))
<1> DEFINE I == SameAddress(l, e.address)
           new == Row(e, TRUE)
<1>1. Len(l) \in Nat /\ DOMAIN l = 1 .. Len(l) /\ \A i \in 1 .. Len(l) : l[i] \in Rows
  BY LenProperties
<1>2. new \in Rows /\ new.address = e.address
  BY CheatsAssumption DEF Row, Rows
<1> HIDE DEF new
<1>3. CASE I = {}
  <2>1. Result2ActiveList(l, e) = Append(l, new)
    BY <1>3 DEF Result2ActiveList, new
  <2>2. Append(l, new) \in Seq(Rows) /\ Len(Append(l, new)) = Len(l) + 1
        /\ \A i \in 1 .. Len(l) + 1 : Append(l, new)[i] = IF i = Len(l) + 1 THEN new ELSE l[i]
    BY <1>1, <1>2, AppendProperties
  <2>3. DOMAIN Append(l, new) = 1 .. Len(l) + 1
    BY <2>2, LenProperties
  <2>4. \A i \in 1 .. Len(l) : l[i].address # new.address
    BY <1>1, <1>2, <1>3 DEF SameAddress
  <2>5. Distinct(l) => Distinct(Append(l, new))
    BY <1>1, <2>2, <2>3, <2>4 DEF Distinct
  <2> QED
    BY <2>1, <2>2, <2>5
<1>4. CASE I # {}
  <2> DEFINE k == Nth(I, 1)
  <2>1. k \in I
    <3>1. I \in SUBSET (1 .. Len(l)) /\ IsFiniteSet(1 .. Len(l))
      BY <1>1, FS_Interval DEF SameAddress
    <3>2. IsFiniteSet(I)
      BY <3>1, FS_Subset, Zenon
    <3>3. Cardinality(I) \in Nat /\ Cardinality(I) # 0
      BY <1>4, <3>2, FS_CardinalityType, FS_EmptySet
    <3>4. 1 \in 1 .. Cardinality(I)
      BY <3>3
    <3> HIDE DEF I
    <3> QED
      BY <1>1, <3>1, <3>4, NthExists
  <2>2. k \in 1 .. Len(l) /\ l[k].address = new.address
    BY <1>1, <1>2, <2>1 DEF SameAddress
  <2>3. Result2ActiveList(l, e) = [l EXCEPT ![k] = new]
    BY <1>4 DEF Result2ActiveList, new
  <2> HIDE DEF k, I
  <2>4. [l EXCEPT ![k] = new] \in Seq(Rows) /\ DOMAIN [l EXCEPT ![k] = new] = 1 .. Len(l)
    BY <1>1, <1>2, <2>2, ExceptSeq
  <2>5. \A i \in 1 .. Len(l) : [l EXCEPT ![k] = new][i].address = l[i].address
    BY <1>1, <2>2
  <2>6. Distinct(l) => Distinct([l EXCEPT ![k] = new])
    BY <1>1, <2>4, <2>5 DEF Distinct
  <2> QED
    BY <2>3, <2>4, <2>6
<1> QED
  BY <1>3, <1>4

\* What Delete leaves is part of the list.
LEMMA RemainingRows ==
  ASSUME NEW l \in Seq(Rows), NEW sel \in SUBSET DOMAIN l
  PROVE  /\ Remaining(l, sel) \in Seq(Rows) /\ Len(Remaining(l, sel)) <= Len(l)
         /\ Distinct(l) => Distinct(Remaining(l, sel))
<1> DEFINE I == DOMAIN l \ (sel \cap LookedAt(l, sel))
           rest == Select(l, I)
<1>1. I \in SUBSET DOMAIN l
  OBVIOUS
<1> HIDE DEF I
<1>2. /\ rest \in Seq(Rows) /\ Len(rest) = Cardinality(I) /\ Cardinality(I) <= Len(l)
      /\ Cardinality(I) \in Nat
      /\ \A k \in 1 .. Cardinality(I) : rest[k] = l[Nth(I, k)] /\ Nth(I, k) \in I
      /\ \A k, m \in 1 .. Cardinality(I) : Nth(I, k) = Nth(I, m) => k = m
  BY <1>1, SelectType
<1> HIDE DEF rest
<1>3. DOMAIN rest = 1 .. Cardinality(I)
  BY <1>2, LenProperties
<1>4. Distinct(l) => Distinct(rest)
  BY <1>1, <1>2, <1>3 DEF Distinct
<1> QED
  BY <1>2, <1>4 DEF Remaining, I, rest

\* A row changed in place.
LEMMA ChangedRow ==
  ASSUME NEW l \in Seq(Rows), NEW i \in DOMAIN l, NEW row \in Rows
  PROVE  /\ [l EXCEPT ![i] = row] \in Seq(Rows)
         /\ Len([l EXCEPT ![i] = row]) = Len(l)
         /\ row.address = l[i].address /\ Distinct(l) => Distinct([l EXCEPT ![i] = row])
<1>1. Len(l) \in Nat /\ DOMAIN l = 1 .. Len(l)
  BY LenProperties
<1>2. /\ [l EXCEPT ![i] = row] \in Seq(Rows)
      /\ Len([l EXCEPT ![i] = row]) = Len(l)
      /\ DOMAIN [l EXCEPT ![i] = row] = DOMAIN l
  BY <1>1, ExceptSeq
<1>3. row.address = l[i].address =>
        \A j \in DOMAIN l : [l EXCEPT ![i] = row][j].address = l[j].address
  BY <1>1
<1> QED
  BY <1>2, <1>3 DEF Distinct

ListOK ==
  /\ list \in Seq(Rows) /\ Len(list) <= MaxRows
  /\ edit \in [on : BOOLEAN, item : Nat, sub : {0, 1}, row : Rows]
  /\ EditHitsItsRow
  /\ OneRowPerAddress

\* A closed edit box is well typed.
LEMMA NoEditType ==
  NoEdit \in [on : BOOLEAN, item : Nat, sub : {0, 1}, row : Rows] /\ ~NoEdit.on
BY DEF NoEdit, NoRow, Rows

\* A list that changes closes the edit box.
LEMMA ListChanged ==
  ASSUME ListOK, edit' = NoEdit, list' \in Seq(Rows), Len(list') <= MaxRows,
         retyped' = FALSE => retyped = FALSE /\ (Distinct(list) => Distinct(list')),
         retyped' \in BOOLEAN
  PROVE  ListOK'
<1>1. EditHitsItsRow'
  BY NoEditType DEF EditHitsItsRow
<1>2. OneRowPerAddress'
  <2>1. CASE retyped'
    BY <2>1 DEF OneRowPerAddress
  <2>2. CASE ~retyped'
    <3>1. Distinct(list')
      BY <2>2 DEF ListOK, OneRowPerAddress, Distinct
    <3> QED
      BY <3>1 DEF OneRowPerAddress, Distinct
  <2> QED
    BY <2>1, <2>2
<1> QED
  BY <1>1, <1>2, NoEditType DEF ListOK

\* Every step keeps the rows and the edit box right.
LEMMA ListStep ==
  ASSUME TypeOK, ListOK, [Next]_vars
  PROVE  ListOK'
<1>0. /\ retyped \in BOOLEAN /\ list \in Seq(Rows)
      /\ DOMAIN list = 1 .. Len(list) /\ Len(list) \in Nat
      /\ \A i \in 1 .. Len(list) : list[i] \in Rows
  BY LenProperties DEF TypeOK
<1>1. ASSUME NEW e \in Entries, AddResult(e) \/ Activate(e) PROVE ListOK'
  <2>1. /\ list' = Result2ActiveList(list, e) /\ Len(list') <= MaxRows
        /\ edit' = NoEdit /\ retyped' = retyped
    BY <1>1 DEF AddResult, Activate
  <2>2. list' \in Seq(Rows) /\ (Distinct(list) => Distinct(list'))
    BY <1>0, <2>1, ResultRows
  <2> QED
    BY <1>0, <2>1, <2>2, ListChanged
<1>2. CASE UNCHANGED <<list, retyped>> /\ edit' \in {edit, NoEdit}
  BY <1>2, NoEditType DEF ListOK, EditHitsItsRow, OneRowPerAddress
<1>3. ASSUME NEW sel \in SUBSET DOMAIN list, Delete(sel) PROVE ListOK'
  <2>1. list' = Remaining(list, sel) /\ edit' = NoEdit /\ retyped' = retyped
    BY <1>3 DEF Delete
  <2>2. list' \in Seq(Rows) /\ Len(list') <= Len(list) /\ (Distinct(list) => Distinct(list'))
    BY <1>0, <2>1, RemainingRows
  <2>3. Len(list') <= MaxRows
    BY <1>0, <2>2, LenProperties, CheatsAssumption DEF ListOK
  <2> QED
    BY <1>0, <2>1, <2>2, <2>3, ListChanged
<1>4. ASSUME NEW on \in BOOLEAN, AllOnOff(on) PROVE ListOK'
  <2>1. /\ list' = [i \in DOMAIN list |-> [list[i] EXCEPT !.checked = on]]
        /\ edit' = NoEdit /\ retyped' = retyped
    BY <1>4 DEF AllOnOff
  <2>2. \A i \in 1 .. Len(list) : /\ [list[i] EXCEPT !.checked = on] \in Rows
                                  /\ [list[i] EXCEPT !.checked = on].address = list[i].address
    BY <1>0 DEF Rows
  <2>3. list' \in [1 .. Len(list) -> Rows]
    BY <1>0, <2>1, <2>2
  <2>4. list' \in Seq(Rows) /\ Len(list') = Len(list)
    BY <1>0, <2>3
  <2>a. \A i \in 1 .. Len(list) : list'[i].address = list[i].address
    BY <1>0, <2>1, <2>2
  <2>b. DOMAIN list' = 1 .. Len(list)
    BY <2>3
  <2>5. Distinct(list) => Distinct(list')
    BY <1>0, <2>a, <2>b, Zenon DEF Distinct
  <2> QED
    BY <1>0, <2>1, <2>4, <2>5, ListChanged DEF ListOK
<1>5. CASE ClearAll
  <2>1. list' = <<>> /\ edit' = NoEdit /\ retyped' = retyped
    BY <1>5 DEF ClearAll
  <2>2. list' \in Seq(Rows) /\ Len(list') <= MaxRows /\ Distinct(list')
    BY <2>1, CheatsAssumption DEF Distinct
  <2> QED
    BY <1>0, <2>1, <2>2, ListChanged
<1>6. ASSUME NEW i \in DOMAIN list, Toggle(i) PROVE ListOK'
  <2> DEFINE row == [list[i] EXCEPT !.checked = ~@]
  <2>1. list' = [list EXCEPT ![i] = row] /\ edit' = NoEdit /\ retyped' = retyped
    BY <1>6 DEF Toggle
  <2>2. row \in Rows /\ row.address = list[i].address
    BY <1>0 DEF Rows
  <2> HIDE DEF row
  <2>3. list' \in Seq(Rows) /\ Len(list') = Len(list) /\ (Distinct(list) => Distinct(list'))
    BY <1>0, <2>1, <2>2, ChangedRow
  <2> QED
    BY <1>0, <2>1, <2>3, ListChanged DEF ListOK
<1>7. ASSUME NEW i \in DOMAIN list, NEW sub \in {0, 1}, BeginEdit(i, sub) PROVE ListOK'
  <2>1. /\ edit' = [on |-> TRUE, item |-> i, sub |-> sub, row |-> list[i]]
        /\ UNCHANGED <<list, retyped>>
    BY <1>7 DEF BeginEdit, hist
  <2>2. i \in Nat /\ list[i] \in Rows
    BY <1>0, LenProperties
  <2> QED
    BY <2>1, <2>2 DEF ListOK, EditHitsItsRow, OneRowPerAddress
<1>8. ASSUME NEW t \in Texts, EndEdit(t) PROVE ListOK'
  <2> DEFINE i == edit.item
             row == IF edit.sub = 0 THEN [list[i] EXCEPT !.address = t]
                                    ELSE [list[i] EXCEPT !.value = t]
  <2>1. i \in DOMAIN list /\ list[i] \in Rows /\ t \in Nat
    BY <1>0, <1>8, LenProperties, CheatsAssumption DEF EndEdit, ListOK, EditHitsItsRow
  <2>2. list' = [list EXCEPT ![i] = row]
    BY <1>8 DEF EndEdit
  <2>3. edit' = NoEdit /\ retyped' = (retyped \/ edit.sub = 0)
    BY <1>8 DEF EndEdit
  <2>4. row \in Rows /\ (edit.sub # 0 => row.address = list[i].address)
    BY <2>1 DEF Rows
  <2> HIDE DEF i, row
  <2>5. /\ list' \in Seq(Rows) /\ Len(list') = Len(list)
        /\ edit.sub # 0 /\ Distinct(list) => Distinct(list')
    BY <1>0, <2>1, <2>2, <2>4, ChangedRow
  <2>6. retyped' \in BOOLEAN /\ (retyped' = FALSE => retyped = FALSE /\ edit.sub # 0)
    BY <1>0, <2>3
  <2> QED
    BY <1>0, <2>3, <2>5, <2>6, ListChanged DEF ListOK
<1>9. ASSUME NEW e \in Entries, WriteOnce(e) PROVE ListOK'
  BY <1>2, <1>9 DEF WriteOnce
<1>10. CASE Release \/ CancelEdit \/ StartDump
  BY <1>2, <1>10 DEF Release, CancelEdit, StartDump, hist
<1>11. CASE ClearFirst \/ ClearLast \/ AddBatch \/ AddOnce
  BY <1>2, <1>11 DEF ClearFirst, ClearLast, AddBatch, AddOnce
<1>12. CASE LoseLink \/ Reboot \/ Connect \/ EndDump \/ UNCHANGED vars
  BY <1>2, <1>12 DEF LoseLink, Reboot, Connect, EndDump, hist, vars
<1> QED
  BY <1>1, <1>3, <1>4, <1>5, <1>6, <1>7, <1>8, <1>9, <1>10, <1>11, <1>12 DEF Next

-----------------------------------------------------------------------------
(* Codes, packets and flags.                                               *)

CodesOK ==
  /\ pc \in {"idle", "once", "clear", "clear again", "clear all", "add"}
  /\ codes \in Seq(Codes) /\ sent \in 0..Len(codes)
  /\ ps2 \in Seq(Codes) /\ base \in Seq(Codes)

FlagsOK == {connected, link, dumping, clean, retyped} \subseteq BOOLEAN
BoundsOK == ops \in 0..MaxOps /\ faults \in 0..MaxFaults

\* A packet goes on where the last one stopped.
LEMMA PacketAdds ==
  ASSUME CodesOK
  PROVE  /\ Packet(sent) \in Seq(Codes)
         /\ MinOf(sent + Batch, Len(codes)) \in 0 .. Len(codes)
         /\ SubSeq(codes, 1, sent) \o Packet(sent)
              = SubSeq(codes, 1, MinOf(sent + Batch, Len(codes)))
<1> DEFINE next == MinOf(sent + Batch, Len(codes))
<1>1. codes \in Seq(Codes) /\ Len(codes) \in Nat /\ sent \in 0 .. Len(codes)
  BY LenProperties DEF CodesOK
<1>2. next \in sent .. Len(codes) /\ next \in 0 .. Len(codes)
  BY <1>1, CheatsAssumption DEF MinOf
<1>3. 1 \in 1 .. Len(codes) + 1 /\ sent \in 1 - 1 .. Len(codes)
  BY <1>1
<1> HIDE DEF next
<1>4. SubSeq(codes, 1, sent) \o SubSeq(codes, sent + 1, next) = SubSeq(codes, 1, next)
  BY <1>1, <1>2, <1>3, ConcatAdjacentSubSeq
<1>5. SubSeq(codes, sent + 1, next) \in Seq(Codes)
  <2>1. \A i \in sent + 1 .. next : codes[i] \in Codes
    BY <1>1, <1>2, LenProperties
  <2>2. sent + 1 \in Int /\ next \in Int
    BY <1>1, <1>2
  <2> QED
    BY <2>1, <2>2, SubSeqProperties
<1> QED
  BY <1>2, <1>4, <1>5 DEF Packet, next

\* Every step keeps the codes well typed.
LEMMA CodesStep ==
  ASSUME TypeOK, Steps, [Next]_vars
  PROVE  CodesOK'
<1>a. <<>> \in Seq(Codes) /\ Len(<<>>) = 0
  BY EmptySeq
<1>0. /\ CodesOK /\ list \in Seq(Rows)
      /\ <<>> \in Seq(Codes) /\ 0 \in 0 .. Len(<<>>)
  <2>1. 0 \in 0 .. Len(<<>>)
    BY <1>a
  <2> QED
    BY <1>a, <2>1 DEF TypeOK, CodesOK
<1>1. ASSUME NEW e \in Entries, WriteOnce(e) PROVE CodesOK'
  <2>1. Code(e) \in Codes
    BY CheatsAssumption DEF Code, Codes
  <2> HIDE DEF Code
  <2>2. <<Code(e)>> \in Seq(Codes) /\ 0 \in 0 .. Len(<<Code(e)>>)
    BY <2>1
  <2> QED
    BY <1>0, <1>1, <2>2 DEF CodesOK, WriteOnce
<1>2. CASE pc' = "clear" /\ codes' = <<>> /\ sent' = 0 /\ base' = ps2 /\ ps2' = ps2
  BY <1>0, <1>2 DEF CodesOK
<1>3. ASSUME NEW e \in Entries, AddResult(e) \/ Activate(e) PROVE CodesOK'
  BY <1>0, <1>2, <1>3 DEF AddResult, Activate, Update, CodesOK
<1>4. ASSUME NEW sel \in SUBSET DOMAIN list, Delete(sel) PROVE CodesOK'
  BY <1>2, <1>4 DEF Delete, Update
<1>5. ASSUME NEW on \in BOOLEAN, AllOnOff(on) PROVE CodesOK'
  BY <1>2, <1>5 DEF AllOnOff, Update
<1>6. ASSUME NEW t \in Texts, EndEdit(t) PROVE CodesOK'
  BY <1>2, <1>6 DEF EndEdit, Update
<1>7. CASE Release
  BY <1>2, <1>7 DEF Release, Update
<1>8. CASE ClearAll
  BY <1>0, <1>8 DEF ClearAll, CodesOK
<1>9. CASE UNCHANGED <<pc, codes, sent, ps2, base>>
  BY <1>0, <1>9 DEF CodesOK
<1>10. ASSUME NEW i \in DOMAIN list, Toggle(i) \/ \E sub \in {0, 1} : BeginEdit(i, sub)
       PROVE  CodesOK'
  BY <1>9, <1>10 DEF Toggle, BeginEdit, hist
<1>11. CASE CancelEdit \/ LoseLink \/ Connect \/ StartDump \/ EndDump \/ UNCHANGED vars
  BY <1>9, <1>11 DEF CancelEdit, LoseLink, Connect, StartDump, EndDump, hist, vars
<1>12. CASE Reboot
  BY <1>0, <1>12 DEF Reboot, CodesOK
<1>13. CASE ClearFirst
  <2>1. Collected(list) \in Seq(Codes) /\ Len(Collected(list)) \in Nat
    BY <1>0, CollectedType, LenProperties
  <2>2. /\ ps2' \in {<<>>, ps2} /\ UNCHANGED <<sent, base>>
        /\ \/ codes' = Collected(list) /\ pc = "clear"
           \/ codes' = codes
        /\ pc' \in {"add", "clear again", "idle"}
    BY <1>13 DEF ClearFirst, AfterFailure, Idle
  <2>3. CASE codes' = codes
    BY <1>0, <2>2, <2>3 DEF CodesOK
  <2>4. CASE codes' = Collected(list)
    <3>1. sent = 0
      BY <1>13 DEF ClearFirst, Steps
    <3>2. 0 \in 0 .. Len(Collected(list))
      BY <2>1
    <3> QED
      BY <1>0, <2>1, <2>2, <2>4, <3>1, <3>2 DEF CodesOK
  <2> QED
    BY <2>2, <2>3, <2>4
<1>14. CASE ClearLast
  BY <1>0, <1>14 DEF ClearLast, AfterFailure, Idle, CodesOK
<1>15. CASE AddBatch
  <2>1. /\ ps2' \in {ps2, ps2 \o Packet(sent)} /\ UNCHANGED <<codes, base>>
        /\ sent' \in {sent, MinOf(sent + Batch, Len(codes))}
        /\ pc' \in {pc, "idle"}
    BY <1>15 DEF AddBatch, AfterFailure, Idle
  <2>2. ps2 \o Packet(sent) \in Seq(Codes)
    BY <1>0, PacketAdds, ConcatProperties DEF CodesOK
  <2> QED
    BY <1>0, <2>1, <2>2, PacketAdds DEF CodesOK
<1>16. CASE AddOnce
  <2>1. ps2 \o codes \in Seq(Codes)
    BY <1>0, ConcatProperties DEF CodesOK
  <2>2. /\ ps2' \in {ps2, ps2 \o codes} /\ base' \in {base, ps2'}
        /\ codes' \in {codes, <<>>} /\ sent' = sent /\ pc' \in {"clear", "idle"}
    BY <1>16 DEF AddOnce, AfterFailure, Idle
  <2>3. sent = 0
    BY <1>16 DEF AddOnce, Steps
  <2> QED
    BY <1>0, <1>a, <2>1, <2>2, <2>3 DEF CodesOK
<1> QED
  BY <1>1, <1>3, <1>4, <1>5, <1>6, <1>7, <1>8, <1>10, <1>11, <1>12, <1>13, <1>14, <1>15, <1>16
  DEF Next

\* The operations and the faults stay within their bounds.
LEMMA BoundsStep ==
  ASSUME TypeOK, [Next]_vars
  PROVE  BoundsOK'
<1>0. BoundsOK /\ MaxOps \in Nat /\ MaxFaults \in Nat
  BY CheatsAssumption DEF TypeOK, BoundsOK
<1> DEFINE Counts == /\ ops' = ops \/ (ops < MaxOps /\ ops' = ops + 1)
                     /\ faults' = faults \/ (faults < MaxFaults /\ faults' = faults + 1)
<1>1. CASE Counts
  BY <1>0, <1>1 DEF BoundsOK
<1>2. ASSUME NEW e \in Entries, AddResult(e) \/ Activate(e) \/ WriteOnce(e) PROVE Counts
  BY <1>2 DEF AddResult, Activate, WriteOnce, User
<1>3. ASSUME NEW sel \in SUBSET DOMAIN list, Delete(sel) PROVE Counts
  BY <1>3 DEF Delete, User
<1>4. ASSUME NEW on \in BOOLEAN, AllOnOff(on) PROVE Counts
  BY <1>4 DEF AllOnOff, User
<1>5. ASSUME NEW t \in Texts, EndEdit(t) PROVE Counts
  BY <1>5 DEF EndEdit, User
<1>6. ASSUME NEW i \in DOMAIN list, Toggle(i) \/ \E sub \in {0, 1} : BeginEdit(i, sub)
      PROVE  Counts
  BY <1>6 DEF Toggle, BeginEdit, User
<1>7. ASSUME ClearAll \/ Release \/ CancelEdit \/ StartDump PROVE Counts
  BY <1>7 DEF ClearAll, Release, CancelEdit, StartDump, User
<1>8. ASSUME LoseLink \/ Reboot \/ Connect \/ EndDump \/ UNCHANGED vars PROVE Counts
  BY <1>8 DEF LoseLink, Reboot, Connect, EndDump, vars
<1>9. ASSUME ClearFirst \/ ClearLast \/ AddBatch \/ AddOnce PROVE Counts
  BY <1>9 DEF ClearFirst, ClearLast, AddBatch, AddOnce, Succeeds, Fails, Unheard
<1> HIDE DEF Counts
<1> QED
  BY <1>1, <1>2, <1>3, <1>4, <1>5, <1>6, <1>7, <1>8, <1>9 DEF Next

\* The flags are Booleans.
LEMMA FlagsStep ==
  ASSUME TypeOK, [Next]_vars
  PROVE  FlagsOK'
<1>0. FlagsOK
  BY DEF TypeOK, FlagsOK
<1>1. ASSUME connected' \in {connected, link, TRUE, FALSE}, link' \in {link, TRUE, FALSE},
             dumping' \in {dumping, TRUE, FALSE}, clean' \in {clean, TRUE, FALSE},
             retyped' \in {retyped, retyped \/ edit.sub = 0}
      PROVE  FlagsOK'
  BY <1>0, <1>1, Zenon DEF FlagsOK
<1>2. ASSUME NEW e \in Entries, AddResult(e) \/ Activate(e) \/ WriteOnce(e) PROVE FlagsOK'
  BY <1>1, <1>2, Zenon DEF AddResult, Activate, WriteOnce, wire
<1>3. ASSUME NEW sel \in SUBSET DOMAIN list, Delete(sel) PROVE FlagsOK'
  BY <1>1, <1>3, Zenon DEF Delete, wire
<1>4. ASSUME NEW on \in BOOLEAN, AllOnOff(on) PROVE FlagsOK'
  BY <1>1, <1>4, Zenon DEF AllOnOff, wire
<1>5. ASSUME NEW t \in Texts, EndEdit(t) PROVE FlagsOK'
  BY <1>1, <1>5, Zenon DEF EndEdit, wire
<1>6. ASSUME NEW i \in DOMAIN list, Toggle(i) \/ \E sub \in {0, 1} : BeginEdit(i, sub)
      PROVE  FlagsOK'
  BY <1>1, <1>6, Zenon DEF Toggle, BeginEdit, wire, hist
<1>7. CASE ClearAll \/ Release \/ CancelEdit
  BY <1>1, <1>7, Zenon DEF ClearAll, Release, CancelEdit, wire, hist
<1>8. CASE StartDump
  BY <1>1, <1>8, Zenon DEF StartDump, hist
<1>9. CASE LoseLink \/ Reboot \/ Connect \/ EndDump
  BY <1>1, <1>9, Zenon DEF LoseLink, Reboot, Connect, EndDump, hist
<1>10. CASE ClearFirst \/ ClearLast \/ AddBatch \/ AddOnce
  <2>1. /\ Succeeds \/ Fails \/ Unheard \/ UNCHANGED <<wire, faults>>
        /\ clean' \in {clean, TRUE, FALSE} /\ UNCHANGED retyped
    BY <1>10 DEF ClearFirst, ClearLast, AddBatch, AddOnce, Idle
  <2>2. /\ connected' \in {connected, FALSE} /\ link' \in {link, FALSE}
        /\ dumping' \in {dumping, FALSE}
    BY <2>1 DEF Succeeds, Fails, Unheard, wire
  <2> QED
    BY <1>1, <2>1, <2>2, Zenon
<1>11. CASE UNCHANGED vars
  BY <1>1, <1>11, Zenon DEF vars, wire, hist
<1> QED
  BY <1>2, <1>3, <1>4, <1>5, <1>6, <1>7, <1>8, <1>9, <1>10, <1>11 DEF Next

-----------------------------------------------------------------------------
(* What the PS2 holds.                                                     *)

Synced == UpdateDelivers /\ NoMixture /\ Steps

\* An update begins; what ran before it still runs.
LEMMA Begins ==
  ASSUME pc' = "clear", sent' = 0, base' = ps2'
  PROVE  Synced'
BY DEF Synced, UpdateDelivers, NoMixture, Steps

\* Nothing an update looks at changes.
LEMMA Around ==
  ASSUME Synced, UNCHANGED <<list, pc, codes, sent, ps2, base, clean>>,
         pc = "add" => connected' /\ ~dumping' /\ (link' => link)
  PROVE  Synced'
BY DEF Synced, UpdateDelivers, NoMixture, Steps

\* Every step keeps what the PS2 holds right.
LEMMA SyncStep ==
  ASSUME TypeOK, Synced, [Next]_vars
  PROVE  Synced'
<1>0. CodesOK /\ list \in Seq(Rows) /\ Collected(list) \in Seq(Codes)
  BY CollectedType DEF TypeOK, CodesOK
<1>e. \A c \in Seq(Codes) : Len(c) \in Nat /\ SubSeq(c, 1, 0) = <<>> /\ 0 \in 0 .. Len(c)
  BY LenProperties, SubSeqEmpty
<1>1. ASSUME NEW e \in Entries, AddResult(e) PROVE Synced'
  BY <1>1 DEF AddResult, User, Synced, UpdateDelivers, NoMixture, Steps
<1>2. ASSUME NEW e \in Entries, Activate(e) PROVE Synced'
  BY <1>2, Begins DEF Activate, Update
<1>3. ASSUME NEW e \in Entries, WriteOnce(e) PROVE Synced'
  BY <1>3 DEF WriteOnce, User, Synced, UpdateDelivers, NoMixture, Steps
<1>4. ASSUME NEW sel \in SUBSET DOMAIN list, Delete(sel) PROVE Synced'
  BY <1>4, Begins DEF Delete, Update
<1>5. ASSUME NEW on \in BOOLEAN, AllOnOff(on) PROVE Synced'
  BY <1>5, Begins DEF AllOnOff, Update
<1>6. ASSUME NEW t \in Texts, EndEdit(t) PROVE Synced'
  BY <1>6, Begins DEF EndEdit, Update
<1>7. CASE Release
  BY <1>7, Begins DEF Release, Update
<1>8. CASE ClearAll
  BY <1>8 DEF ClearAll, Synced, UpdateDelivers, NoMixture, Steps
<1>9. ASSUME NEW i \in DOMAIN list, Toggle(i) PROVE Synced'
  BY <1>9 DEF Toggle, User, Synced, UpdateDelivers, NoMixture, Steps
<1>10. ASSUME NEW i \in DOMAIN list, NEW sub \in {0, 1}, BeginEdit(i, sub) PROVE Synced'
  BY <1>10, Around DEF BeginEdit, User, hist
<1>11. CASE CancelEdit \/ StartDump
  BY <1>11, Around DEF CancelEdit, StartDump, User, hist
<1>12. CASE LoseLink \/ UNCHANGED vars
  <2>1. UNCHANGED <<list, pc, codes, sent, ps2, base, clean, connected, dumping>>
    BY <1>12 DEF LoseLink, vars, wire, hist
  <2>2. link' => link
    BY <1>12 DEF LoseLink, vars, wire
  <2>3. pc = "add" => connected /\ ~dumping
    BY DEF Synced, Steps
  <2> QED
    BY <2>1, <2>2, <2>3, Around
<1>13. CASE Connect \/ EndDump
  BY <1>13, Around DEF Connect, EndDump, hist, Synced, Steps
<1>14. CASE Reboot
  <2>1. /\ pc' = pc /\ codes' = codes /\ sent' = sent /\ list' = list /\ ~link' /\ ps2' = <<>>
        /\ ~clean' /\ UNCHANGED <<connected, dumping>>
    BY <1>14 DEF Reboot
  <2>2. NoMixture'
    BY <1>0, <1>e, <2>1 DEF NoMixture, CodesOK
  <2> QED
    BY <2>1, <2>2 DEF Synced, UpdateDelivers, Steps
<1>15. CASE ClearFirst
  <2>1. CASE Succeeds /\ ps2' = <<>> /\ codes' = Collected(list)
             /\ pc' = IF Collected(list) = <<>> THEN "clear again" ELSE "add"
    <3>1. UNCHANGED <<list, sent>> /\ sent = 0 /\ connected' /\ ~dumping'
      BY <1>15, <2>1 DEF ClearFirst, Succeeds, wire, Synced, Steps
    <3>2. NoMixture' /\ ps2' = SubSeq(codes', 1, 0)
      BY <1>0, <1>e, <2>1 DEF NoMixture
    <3> QED
      BY <2>1, <3>1, <3>2 DEF Synced, UpdateDelivers, Steps
  <2>2. CASE (Fails \/ Unheard) /\ AfterFailure(<<>>) /\ Idle(FALSE) /\ codes' = codes
    <3>1. ps2' \in {<<>>, ps2} /\ base' = base
      BY <1>15, <2>2 DEF ClearFirst, AfterFailure
    <3>2. NoMixture'
      BY <1>0, <1>e, <2>2, <3>1 DEF NoMixture, Synced, CodesOK
    <3> QED
      BY <2>2, <3>2 DEF Synced, UpdateDelivers, Steps, Idle
  <2> QED
    BY <1>15, <2>1, <2>2 DEF ClearFirst
<1>16. CASE ClearLast
  <2>1. /\ ps2' \in {<<>>, ps2} /\ pc' = "idle" /\ UNCHANGED <<list, codes, base>>
        /\ clean' => ps2' = <<>>
    BY <1>16 DEF ClearLast, AfterFailure, Idle
  <2>2. NoMixture'
    BY <1>0, <1>e, <2>1 DEF NoMixture, Synced, CodesOK
  <2>3. Collected(list) = <<>>
    BY <1>16, CollectedEmpty DEF ClearLast, Synced, Steps
  <2> QED
    BY <2>1, <2>2, <2>3 DEF Synced, UpdateDelivers, Steps
<1>17. CASE AddBatch
  <2> DEFINE next == MinOf(sent + Batch, Len(codes))
  <2>0. /\ pc = "add" /\ UNCHANGED <<list, codes, base>> /\ codes = Collected(list)
        /\ link => ps2 = SubSeq(codes, 1, sent)
    BY <1>17 DEF AddBatch, Synced, Steps
  <2>1. next \in 0 .. Len(codes) /\ SubSeq(codes, 1, sent) \o Packet(sent) = SubSeq(codes, 1, next)
    BY <1>0, PacketAdds
  <2>2. CASE Succeeds /\ ps2' = ps2 \o Packet(sent) /\ sent' = next
             /\ IF sent' = Len(codes) THEN Idle(TRUE) ELSE UNCHANGED <<pc, clean>>
    <3> HIDE DEF next
    <3>1. connected' /\ ~dumping' /\ ps2' = SubSeq(codes, 1, next)
      BY <2>0, <2>1, <2>2 DEF Succeeds, wire
    <3>2. NoMixture'
      BY <2>0, <2>1, <3>1 DEF NoMixture
    <3>3. SubSeq(codes, 1, Len(codes)) = codes
      BY <1>0, SubSeqFull DEF CodesOK
    <3> QED
      BY <2>0, <2>2, <3>1, <3>2, <3>3 DEF Synced, UpdateDelivers, Steps, Idle
  <2>3. CASE Idle(FALSE) /\ ps2' \in {ps2, IF link THEN ps2 \o Packet(sent) ELSE ps2}
    <3> HIDE DEF next
    <3>1. NoMixture'
      BY <2>0, <2>1, <2>3 DEF NoMixture, Synced
    <3> QED
      BY <2>3, <3>1 DEF Synced, UpdateDelivers, Steps, Idle
  <2> QED
    BY <1>17, <2>2, <2>3 DEF AddBatch, AfterFailure
<1>18. CASE AddOnce
  <2>1. CASE pc' = "idle" /\ UNCHANGED <<codes, ps2, base, clean, list>>
    BY <1>18, <2>1 DEF AddOnce, Synced, UpdateDelivers, NoMixture, Steps
  <2>2. CASE pc' = "clear" /\ base' = ps2' /\ sent' = sent
    BY <1>18, <2>2, Begins DEF AddOnce, Synced, Steps
  <2>3. CASE base' = ps2' /\ Idle(FALSE)
    BY <2>3 DEF Synced, UpdateDelivers, NoMixture, Steps, Idle
  <2> QED
    BY <1>18, <2>1, <2>2, <2>3 DEF AddOnce
<1> QED
  BY <1>1, <1>2, <1>3, <1>4, <1>5, <1>6, <1>7, <1>8, <1>9, <1>10, <1>11, <1>12, <1>13, <1>14,
     <1>15, <1>16, <1>17, <1>18 DEF Next

-----------------------------------------------------------------------------
\* The inductive invariant holds at first.
LEMMA InitInv == ASSUME Init PROVE IInv
<1>1. TypeOK
  <2>1. <<>> \in Seq(Rows) /\ <<>> \in Seq(Codes) /\ Len(<<>>) = 0
    BY EmptySeq
  <2>2. 0 \in 0 .. Len(<<>>)
    BY <2>1
  <2>3. 0 \in 0 .. MaxOps /\ 0 \in 0 .. MaxFaults /\ 0 <= MaxRows
    BY CheatsAssumption
  <2>4. {connected, link, dumping, clean, retyped} \subseteq BOOLEAN
    BY DEF Init
  <2>5. /\ list = <<>> /\ edit = NoEdit /\ pc = "idle" /\ codes = <<>> /\ sent = 0
        /\ ps2 = <<>> /\ base = <<>> /\ ops = 0 /\ faults = 0
    BY DEF Init
  <2> QED
    BY <2>1, <2>2, <2>3, <2>4, <2>5, NoEditType DEF TypeOK
<1>2. OneRowPerAddress /\ EditHitsItsRow
  BY NoEditType DEF Init, OneRowPerAddress, EditHitsItsRow
<1> QED
  BY <1>1, <1>2, CollectedEmpty DEF Init, IInv, UpdateDelivers, NoMixture, Steps

\* Every step keeps the inductive invariant.
LEMMA NextInv == ASSUME IInv, [Next]_vars PROVE IInv'
<1>1. TypeOK /\ ListOK /\ Synced /\ Steps
  BY DEF IInv, TypeOK, ListOK, Synced
<1>2. ListOK' /\ CodesOK' /\ FlagsOK' /\ BoundsOK' /\ Synced'
  BY <1>1, ListStep, CodesStep, FlagsStep, BoundsStep, SyncStep
<1> QED
  BY <1>2 DEF IInv, TypeOK, ListOK, CodesOK, FlagsOK, BoundsOK, Synced

\* The inductive invariant, from which the properties follow.
THEOREM Invariant == Spec => []IInv
<1> QED
  BY InitInv, NextInv, PTL DEF Spec

\* The list, the edit box, the codes and what the PS2 holds are well typed.
THEOREM TypeCorrect == Spec => []TypeOK
<1>1. IInv => TypeOK
  BY DEF IInv
<1> QED
  BY <1>1, Invariant, PTL

\* After an update without an error the PS2 runs the rows that are on, and
\* nothing else, whatever failed before it (UpdateActiveCheats, ActivateCheats).
THEOREM UpdateDeliversCorrect == Spec => []UpdateDelivers
<1>1. IInv => UpdateDelivers
  BY DEF IInv
<1> QED
  BY <1>1, Invariant, PTL

\* An update that stops anywhere leaves the old codes or the first of the new.
THEOREM NoMixtureCorrect == Spec => []NoMixture
<1>1. IInv => NoMixture
  BY DEF IInv
<1> QED
  BY <1>1, Invariant, PTL

\* The edit box keeps to its row (LSV_ACTIVE_BEGINEDIT, LSV_ACTIVE_ENDEDIT).
THEOREM EditHitsItsRowCorrect == Spec => []EditHitsItsRow
<1>1. IInv => EditHitsItsRow
  BY DEF IInv
<1> QED
  BY <1>1, Invariant, PTL

\* Only editing an address makes two rows of one address (Result2ActiveList).
THEOREM OneRowPerAddressCorrect == Spec => []OneRowPerAddress
<1>1. IInv => OneRowPerAddress
  BY DEF IInv
<1> QED
  BY <1>1, Invariant, PTL
=============================================================================
