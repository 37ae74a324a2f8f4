------------------------------- MODULE MemDump -------------------------------
(***************************************************************************)
(* What the in-game dumper of IGmassdumper promises the player who pressed *)
(* a dump combination: the file it writes is always the beginning of the   *)
(* memory region, in order and without a hole, it only grows, and the dump *)
(* is reported as done only when the file is the whole region.  How the    *)
(* bytes get to the USB stick is the business of UsbDump.tla.              *)
(***************************************************************************)
EXTENDS Naturals, Sequences

CONSTANTS
  Names,   \* the names a dump file can have
  Size     \* Size[n]: the length of the region dumped under the name n, at least 1

VARIABLES
  made,     \* the names that exist on the stick
  files,    \* the contents of every file: the region offsets it holds
  running,  \* {n} while n is being dumped, {} between two dumps
  result    \* what the last dump returned: the region's length, or 0

vars == <<made, files, running, result>>

\* The first m bytes of a region.
Beginning(m) == [i \in 1 .. m |-> i - 1]

Init ==
  /\ made = {}
  /\ files = [n \in Names |-> <<>>]
  /\ running = {}
  /\ result = 0

Begin(n) ==
  /\ running = {}
  /\ n \notin made
  /\ running' = {n}
  /\ UNCHANGED <<made, files, result>>

Create(n) ==
  /\ running = {n}
  /\ n \notin made
  /\ made' = made \cup {n}
  /\ UNCHANGED <<files, running, result>>

Extend(n) ==
  /\ running = {n}
  /\ n \in made
  /\ \E m \in Len(files[n]) .. Size[n] :
       files' = [files EXCEPT ![n] = Beginning(m)]
  /\ UNCHANGED <<made, running, result>>

Finish(n) ==
  /\ running = {n}
  /\ n \in made
  /\ files[n] = Beginning(Size[n])
  /\ running' = {}
  /\ result' = Size[n]
  /\ UNCHANGED <<made, files>>

GiveUp(n) ==
  /\ running = {n}
  /\ running' = {}
  /\ result' = 0
  /\ UNCHANGED <<made, files>>

Next ==
  \E n \in Names : Begin(n) \/ Create(n) \/ Extend(n) \/ Finish(n) \/ GiveUp(n)

Spec == Init /\ [][Next]_vars
=============================================================================
