---------------------------- MODULE ActiveCheats ----------------------------
(***************************************************************************)
(* The active cheats list of ps2cc (ps2cc/tab_results.c), the commands it  *)
(* is sent to the PS2 with (ActivateCheats and DeActivateCheats of         *)
(* ps2cc/lib_ntpb.c) and the patch table of the PS2, which is not in the   *)
(* repository: a CLEAR empties it, an ADD appends to it.                   *)
(*                                                                         *)
(* The GUI thread does everything here, and waits inside each command; the *)
(* link, the PS2 and a running dump change around it between two commands. *)
(* A row is on when its check box is; the PS2 runs what it was last sent.  *)
(***************************************************************************)
EXTENDS Naturals, Sequences, FiniteSets

CONSTANTS
  Entries,        \* what results and the test boxes hold: address, value, size
  Texts,          \* the numbers typed into the edit box
  Batch,          \* codes in one ADDMEMPATCHES packet (6)
  MaxPatches,     \* codes an update collects (256)
  MaxRows,        \* bound: rows of the list
  MaxOps,         \* bound: what the user does
  MaxFaults       \* bound: lost links and PS2 restarts

ASSUME CheatsAssumption ==
  /\ Entries \subseteq [address : Nat, value : Nat, size : {1, 2, 4}]
  /\ Texts \subseteq Nat
  /\ Batch \in Nat \ {0} /\ MaxPatches \in Nat
  /\ MaxRows \in Nat /\ MaxOps \in Nat /\ MaxFaults \in Nat

VARIABLES
  list,           \* the rows of ACTIVE_CODES_LSV
  edit,           \* lvEdit[LV_ACTIVE_CHEATS], and the row it began on
  pc,             \* the command the GUI thread is in
  codes, sent,    \* actcodes, numcodes_sent
  connected,      \* ClientConnected
  link,           \* the connection under main_socket works
  dumping,        \* a dump thread holds remote_cmd
  ps2,            \* the patches the PS2 applies
  base,           \* history: what ps2 held before the update
  clean,          \* history: the last update succeeded, and nothing happened since
  retyped,        \* history: an address was edited
  ops, faults     \* the bounds

wire == <<connected, link, dumping>>
hist == <<base, clean, retyped>>
vars == <<list, edit, pc, codes, sent, wire, ps2, hist, ops, faults>>

-----------------------------------------------------------------------------
(* Rows and codes.                                                         *)

MinOf(a, b) == IF a <= b THEN a ELSE b
Row_Bug(e, on) == [address |-> e.address, value |-> e.value, size |-> e.size \div 2, checked |-> on]
Row(e, on) == [address |-> e.address, value |-> e.value, size |-> e.size, checked |-> on]
Aligned(x) == x.address % x.size = 0

\* address | (size / 2) << 28: both can be read back below 0x10000000.
Code(r) == [address |-> r.address, value |-> r.value, size |-> r.size]

\* The elements of s at the indices I, in order.
Nth(I, k) == CHOOSE i \in I : Cardinality({j \in I : j <= i}) = k
Select(s, I) == [k \in 1..Cardinality(I) |-> s[Nth(I, k)]]

\* actcodes: the rows that are on, from the top, as many as it has room for.
OnRows(l) == Select(l, {i \in DOMAIN l : l[i].checked})
Collected(l) == LET on == OnRows(l)
                IN [k \in 1..MinOf(Len(on), MaxPatches) |-> Code(on[k])]

\* Result2ActiveList, checked: the first row of that address, else a new one.
SameAddress(l, a) == {i \in DOMAIN l : l[i].address = a}
Result2ActiveList_Bug(l, e) == Append(l, Row(e, TRUE))
Result2ActiveList(l, e) ==
    IF SameAddress(l, e.address) = {} THEN Append(l, Row(e, TRUE))
    ELSE [l EXCEPT ![Nth(SameAddress(l, e.address), 1)] = Row(e, TRUE)]

\* The loop of Delete goes on to the next index after a deletion, which moved
\* the rows below up: the row under a deleted one is not looked at.
LookedAt(l, sel) ==
    LET at[i \in 0..Len(l)] == i > 0 /\ ~(at[i - 1] /\ i - 1 \in sel)
    IN {i \in DOMAIN l : at[i]}
Remaining(l, sel) == Select(l, DOMAIN l \ (sel \cap LookedAt(l, sel)))

-----------------------------------------------------------------------------
(* The edit box.  It closes when it loses the focus: to a click on another *)
(* control, to the list, or to a message box.                              *)

NoRow == [address |-> 0, value |-> 0, size |-> 1, checked |-> FALSE]
NoEdit == [on |-> FALSE, item |-> 0, sub |-> 0, row |-> NoRow]

\* EM_SETLIMITTEXT leaves room for the digits of the row's size, in the
\* address column too.
Fits(n, size) == n < CASE size = 1 -> 256 [] size = 2 -> 65536 [] OTHER -> n + 1
Shown(r, sub) == IF sub = 0 THEN r.address ELSE r.value

-----------------------------------------------------------------------------
Init ==
    /\ list = <<>> /\ edit = NoEdit /\ pc = "idle" /\ codes = <<>> /\ sent = 0
    /\ connected = TRUE /\ link = TRUE /\ dumping = FALSE
    /\ ps2 = <<>> /\ base = <<>> /\ clean = TRUE /\ retyped = FALSE
    /\ ops = 0 /\ faults = 0

User == pc = "idle" /\ ops < MaxOps /\ ops' = ops + 1

\* UpdateActiveCheats begins.
Update == pc' = "clear" /\ codes' = <<>> /\ sent' = 0 /\ base' = ps2

-----------------------------------------------------------------------------
(* What the user does.                                                     *)

\* A double click on results, or Enter: the row is on, and nothing is sent.  With
\* several results selected it is this once for each.
AddResult(e) ==
    /\ User
    /\ Len(Result2ActiveList(list, e)) <= MaxRows
    /\ list' = Result2ActiveList(list, e)
    /\ edit' = NoEdit /\ clean' = FALSE
    /\ UNCHANGED <<pc, codes, sent, wire, ps2, base, retyped, faults>>

Activate(e) ==
    /\ User
    /\ Aligned(e)
    /\ Len(Result2ActiveList(list, e)) <= MaxRows
    /\ list' = Result2ActiveList(list, e)
    /\ Update
    /\ edit' = NoEdit
    /\ UNCHANGED <<wire, ps2, clean, retyped, faults>>

WriteOnce(e) ==
    /\ User
    /\ Aligned(e)
    /\ pc' = "once" /\ codes' = <<Code(e)>> /\ sent' = 0 /\ base' = ps2
    /\ edit' = NoEdit
    /\ UNCHANGED <<list, wire, ps2, clean, retyped, faults>>

Delete_Bug(sel) ==
    /\ User
    /\ list' = Remaining(list, sel)
    /\ Update
    /\ UNCHANGED <<edit, wire, ps2, clean, retyped, faults>>
Delete(sel) ==
    /\ User
    /\ list' = Remaining(list, sel)
    /\ Update
    /\ edit' = NoEdit
    /\ UNCHANGED <<wire, ps2, clean, retyped, faults>>

AllOnOff(on) ==
    /\ User
    /\ list' = [i \in DOMAIN list |-> [list[i] EXCEPT !.checked = on]]
    /\ Update
    /\ edit' = NoEdit
    /\ UNCHANGED <<wire, ps2, clean, retyped, faults>>

ClearAll ==
    /\ User
    /\ list' = <<>>
    /\ pc' = "clear all" /\ codes' = <<>> /\ sent' = 0 /\ base' = ps2
    /\ edit' = NoEdit
    /\ UNCHANGED <<wire, ps2, clean, retyped, faults>>

\* A check box changes when the button or Space goes down ...
Toggle(i) ==
    /\ User
    /\ list' = [list EXCEPT ![i].checked = ~@]
    /\ edit' = NoEdit /\ clean' = FALSE
    /\ UNCHANGED <<pc, codes, sent, wire, ps2, base, retyped, faults>>

\* ... and the list is sent when it comes up over the list.
Release ==
    /\ User
    /\ Update
    /\ UNCHANGED <<list, edit, wire, ps2, clean, retyped, faults>>

BeginEdit(i, sub) ==
    /\ User
    /\ edit' = [on |-> TRUE, item |-> i, sub |-> sub, row |-> list[i]]
    /\ UNCHANGED <<list, pc, codes, sent, wire, ps2, hist, faults>>

\* Enter: whatever was typed goes to the row, its alignment is not looked at.
\* What is not a number becomes 0.
EndEdit(n) ==
    /\ User
    /\ edit.on
    /\ \/ n \in {0, Shown(list[edit.item], edit.sub)}
       \/ Fits(n, list[edit.item].size)
    /\ list' = IF edit.sub = 0 THEN [list EXCEPT ![edit.item].address = n]
                               ELSE [list EXCEPT ![edit.item].value = n]
    /\ retyped' = (retyped \/ edit.sub = 0)
    /\ edit' = NoEdit
    /\ Update
    /\ UNCHANGED <<wire, ps2, clean, faults>>

\* Escape, the scroll bar, a click elsewhere.
CancelEdit ==
    /\ User
    /\ edit.on
    /\ edit' = NoEdit
    /\ UNCHANGED <<list, pc, codes, sent, wire, ps2, hist, faults>>

-----------------------------------------------------------------------------
(* One command: SendReceiveThread, called as a function.                   *)

Idle(c) == pc' = "idle" /\ clean' = c

\* The PS2 did it and the reply arrived.
Succeeds == connected /\ ~dumping /\ link /\ UNCHANGED <<wire, faults>>

\* Its error path closes the socket, under a dump as well, and starts a client
\* thread; the message boxes take the focus from the edit box.
Fails ==
    /\ ~(connected /\ ~dumping /\ link)
    /\ connected' = FALSE /\ dumping' = FALSE
    /\ UNCHANGED <<link, faults>>

\* The PS2 did it, and the link went down before the reply was read.
Unheard ==
    /\ connected /\ ~dumping /\ link /\ faults < MaxFaults
    /\ connected' = FALSE /\ link' = FALSE /\ faults' = faults + 1
    /\ UNCHANGED dumping

\* What the PS2 holds after a command that failed, and would have made it new.
AfterFailure(new) == ps2' = IF link /\ ~link' THEN new ELSE ps2

\* ActivateCheats looks at ClientConnected and remote_cmd itself, and only
\* says so.
Refused == ~connected \/ dumping

-----------------------------------------------------------------------------
(* UpdateActiveCheats, Write Once and Clear ALL.                           *)

ClearFirst_Bug ==
    /\ pc = "clear"
    /\ \/ /\ Succeeds
          /\ ps2' = <<>>
       \/ /\ Fails \/ Unheard
          /\ AfterFailure(<<>>)
    /\ codes' = Collected(list)
    /\ pc' = IF Collected(list) = <<>> THEN "clear again" ELSE "add"
    /\ UNCHANGED <<list, edit, sent, base, clean, retyped, ops>>
ClearFirst ==
    /\ pc = "clear"
    /\ \/ /\ Succeeds
          /\ ps2' = <<>>
          /\ codes' = Collected(list)
          /\ pc' = IF Collected(list) = <<>> THEN "clear again" ELSE "add"
          /\ UNCHANGED <<edit, clean>>
       \/ /\ Fails \/ Unheard
          /\ AfterFailure(<<>>)
          /\ Idle(FALSE)
          /\ edit' = NoEdit
          /\ UNCHANGED codes
    /\ UNCHANGED <<list, sent, base, retyped, ops>>

\* No row is on, or Clear ALL, which ignores the result.
ClearLast ==
    /\ pc \in {"clear again", "clear all"}
    /\ \/ /\ Succeeds
          /\ ps2' = <<>>
          /\ Idle(TRUE)
          /\ UNCHANGED edit
       \/ /\ Fails \/ Unheard
          /\ AfterFailure(<<>>)
          /\ Idle(FALSE)
          /\ edit' = NoEdit
    /\ UNCHANGED <<list, codes, sent, base, retyped, ops>>

Packet_Bug(from) == SubSeq(codes, 1, MinOf(Batch, Len(codes) - from))
Packet(from) == SubSeq(codes, from + 1, MinOf(from + Batch, Len(codes)))

AddBatch ==
    /\ pc = "add"
    /\ \/ /\ Refused
          /\ Idle(FALSE)
          /\ edit' = NoEdit
          /\ UNCHANGED <<sent, wire, faults, ps2>>
       \/ /\ ~Refused
          /\ Succeeds
          /\ ps2' = ps2 \o Packet(sent)
          /\ sent' = MinOf(sent + Batch, Len(codes))
          /\ IF sent' = Len(codes) THEN Idle(TRUE) ELSE UNCHANGED <<pc, clean>>
          /\ UNCHANGED edit
       \/ /\ ~Refused
          /\ Fails \/ Unheard
          /\ AfterFailure(ps2 \o Packet(sent))
          /\ Idle(FALSE)
          /\ edit' = NoEdit
          /\ UNCHANGED sent
    /\ UNCHANGED <<list, codes, base, retyped, ops>>

\* The code of Write Once is added to what runs, and the update that follows
\* clears it again.
AddOnce ==
    /\ pc = "once"
    /\ \/ /\ Refused
          /\ pc' = "idle"
          /\ UNCHANGED <<wire, faults, codes, ps2, base, clean>>
       \/ /\ ~Refused
          /\ Succeeds
          /\ ps2' = ps2 \o codes
          /\ pc' = "clear" /\ codes' = <<>> /\ base' = ps2'
          /\ UNCHANGED clean
       \/ /\ ~Refused
          /\ Fails \/ Unheard
          /\ AfterFailure(ps2 \o codes)
          /\ base' = ps2'
          /\ Idle(FALSE)
          /\ UNCHANGED codes
    /\ UNCHANGED <<list, edit, sent, retyped, ops>>

-----------------------------------------------------------------------------
(* Around the GUI thread.                                                  *)

LoseLink ==
    /\ link /\ faults < MaxFaults
    /\ link' = FALSE /\ faults' = faults + 1
    /\ UNCHANGED <<list, edit, pc, codes, sent, connected, dumping, ps2, hist, ops>>

Reboot ==
    /\ faults < MaxFaults
    /\ link' = FALSE /\ ps2' = <<>> /\ clean' = FALSE /\ faults' = faults + 1
    /\ UNCHANGED <<list, edit, pc, codes, sent, connected, dumping, base, retyped, ops>>

\* The client thread connects again.  Nothing is sent to the PS2.
Connect ==
    /\ ~connected
    /\ connected' = TRUE /\ link' = TRUE
    /\ UNCHANGED <<list, edit, pc, codes, sent, dumping, ps2, hist, ops, faults>>

StartDump ==
    /\ User
    /\ connected /\ ~dumping
    /\ dumping' = TRUE /\ edit' = NoEdit
    /\ UNCHANGED <<list, pc, codes, sent, connected, link, ps2, hist, faults>>

\* The dump is complete, or fails and disconnects as any command.
EndDump ==
    /\ dumping
    /\ dumping' = FALSE /\ connected' = link
    /\ UNCHANGED <<list, edit, pc, codes, sent, link, ps2, hist, ops, faults>>

-----------------------------------------------------------------------------
Next ==
    \/ \E e \in Entries : AddResult(e) \/ Activate(e) \/ WriteOnce(e)
    \/ \E sel \in SUBSET DOMAIN list : Delete(sel)
    \/ \E on \in BOOLEAN : AllOnOff(on)
    \/ ClearAll \/ Release \/ CancelEdit
    \/ \E i \in DOMAIN list : Toggle(i) \/ \E sub \in {0, 1} : BeginEdit(i, sub)
    \/ \E n \in Texts : EndEdit(n)
    \/ ClearFirst \/ ClearLast \/ AddBatch \/ AddOnce
    \/ LoseLink \/ Reboot \/ Connect \/ StartDump \/ EndDump

Spec == Init /\ [][Next]_vars

-----------------------------------------------------------------------------
(* Properties.                                                             *)

Rows == [address : Nat, value : Nat, size : {1, 2, 4}, checked : BOOLEAN]
Codes == [address : Nat, value : Nat, size : {1, 2, 4}]

\* The rows, the codes under way and those on the PS2 are well formed.
TypeOK ==
    /\ list \in Seq(Rows) /\ Len(list) <= MaxRows
    /\ edit \in [on : BOOLEAN, item : Nat, sub : {0, 1}, row : Rows]
    /\ pc \in {"idle", "once", "clear", "clear again", "clear all", "add"}
    /\ codes \in Seq(Codes) /\ sent \in 0..Len(codes)
    /\ {connected, link, dumping, clean, retyped} \subseteq BOOLEAN
    /\ ps2 \in Seq(Codes) /\ base \in Seq(Codes)
    /\ ops \in 0..MaxOps /\ faults \in 0..MaxFaults

\* When the last update said that cheats are updated, and neither the list nor
\* the PS2 changed since, the PS2 runs the rows that are on, from the top, up to
\* MaxPatches of them, and nothing else: no code of Write Once, none of an
\* earlier list, none twice (UpdateActiveCheats, ActivateCheats).
UpdateDelivers == pc = "idle" /\ clean => ps2 = Collected(list)

\* Wherever an update stops, the PS2 runs what it ran before it or the first
\* codes of the new list, never some of both.
NoMixture == ps2 = base \/ \E n \in 0..Len(codes) : ps2 = SubSeq(codes, 1, n)

\* The edit box stands for the row it was opened on until it closes: no button,
\* key or failed command moves another row under it (iItem).
EditHitsItsRow == edit.on => edit.item \in DOMAIN list /\ list[edit.item] = edit.row

\* Unless an address was edited, no two rows patch one address
\* (Result2ActiveList).
OneRowPerAddress ==
    ~retyped => \A i, j \in DOMAIN list : list[i].address = list[j].address => i = j
=============================================================================
