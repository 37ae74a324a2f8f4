------------------------------- MODULE UsbDump -------------------------------
(***************************************************************************)
(* IGmassdumper: a memory dump from inside a game to a USB stick.          *)
(*                                                                         *)
(* On the EE, sendDump (core/core.c) runs inside the game's own pad read:  *)
(* it copies the region a buffer at a time, sends the buffer a packet at a *)
(* time through the RPC client of core/rpc.c, and waits for each call.  On *)
(* the IOP, the thread of irx/usbserv/usbserv.c serves the calls with      *)
(* open, write and close on the "mass:" device.  The device, SIF RPC and   *)
(* the stick are external: a write may be short or fail, an open may fail, *)
(* a call may find no free packet (CallMayFail).                           *)
(*                                                                         *)
(* A byte is named by its offset in the region, so that a file's contents  *)
(* tell which bytes it holds and in which order.                           *)
(***************************************************************************)
EXTENDS Integers, Sequences, FiniteSets

CONSTANTS
  Kinds,       \* the four combinations: EE, IOP, kernel, scratch pad
  RegionSize,  \* RegionSize[k]: dump_end - dump_start of that combination
  BUF,         \* sizeof(membuffer), 65536 in the code
  PKT,         \* what one write call carries, 16376 in the code
  MaxIndex,    \* bound: dumps of one kind in a session
  Fds,         \* the file descriptors of the IOP's file manager
  CallMayFail  \* whether SifCallRpc may fail on the EE side

ASSUME UsbDumpAssumption ==
  /\ Kinds # {}
  /\ RegionSize \in [Kinds -> Nat \ {0}]
  /\ BUF \in Nat \ {0}
  /\ PKT \in Nat \ {0}
  /\ MaxIndex \in Nat
  /\ Fds \subseteq Nat
  /\ CallMayFail \in BOOLEAN

VARIABLES
  pc,          \* the step of sendDump the hooked pad read is at; "game" outside
  cur,         \* the dump file's name: <<kind, index>>
  index,       \* eedump_index, iopdump_index, ...
  fd, r,       \* sendDump's locals: they hold what the stack held
  dpos, dumpSize, rpos, sndSize,
  membuffer,
  result,      \* what sendDump returned last
  inited,      \* RPCclient_Inited
  bound,       \* rpcclient.server: the address of the server it was bound to
  currentCmd,
  call,        \* the RPC request in flight, or the last one
  usbserv,     \* where the IOP's usbserv has its server structure, 0 without one
  made, files, \* the stick
  handles      \* the IOP's open files: handles[f] is the set {name} or {}

loop == <<dpos, dumpSize, rpos, sndSize, membuffer>>
rpc == <<inited, bound, currentCmd, call>>
stick == <<made, files, handles>>
vars == <<pc, cur, index, fd, r, loop, result, rpc, usbserv, stick>>

Names == Kinds \X (0 .. MaxIndex)
NameSize == [n \in Names |-> RegionSize[n[1]]]
Steps == {"game", "create", "createSync", "copy", "send", "sendSync", "close", "closeSync"}
Cmds == {"none", "open", "write", "close"}

Region(from, len) == [i \in 1 .. len |-> from + i - 1]
Smaller(a, b) == IF a < b THEN a ELSE b
Total == RegionSize[cur[1]]

-----------------------------------------------------------------------------
(* core/rpc.c: the client.  The three calls differ in their parameters.    *)

\* No request is in flight.
Idle == [fno |-> "none", name |-> CHOOSE n \in Names : TRUE, fd |-> -1,
         data |-> <<>>, ret |-> -1, st |-> "done"]

\* A request reaches the server when rpcclient points to the one that runs.
Request(fno, data) ==
  [fno |-> fno, name |-> cur, fd |-> fd, data |-> data, ret |-> -1,
   st |-> IF bound = usbserv THEN "sent" ELSE "lost"]

\* rpcUSBcreate, rpcUSBwrite, rpcUSBclose.  They return an error nobody looks
\* at when the client is not initialised or SifCallRpc fails, and then leave
\* currentCmd as it is.
IssueCall(fno, data) ==
  \/ /\ inited
     /\ call' = Request(fno, data)
     /\ currentCmd' = fno
  \/ /\ ~inited \/ CallMayFail
     /\ UNCHANGED <<call, currentCmd>>

\* rpcUSBSync(0, NULL, &x): with no command registered it returns at once and
\* x keeps its old value, otherwise it waits for SifCheckStatRpc to say no.
SyncDone_Bug == currentCmd # "none" /\ call.st = "done"
SyncDone == currentCmd = "none" \/ call.st = "done"
Collected == currentCmd' = "none" /\ call' = Idle
SyncValue(old) == IF currentCmd = "none" THEN old ELSE call.ret

-----------------------------------------------------------------------------
(* core/core.c: padReadHook_job and sendDump, in the game's pad read.      *)

\* What an uninitialised int of sendDump may hold.
Garbage == Fds \cup {-1, PKT}

StartDump_Bug(k) ==
  /\ pc = "game"
  /\ index[k] <= MaxIndex
  /\ pc' = "create"
  /\ cur' = <<k, 0>>
  /\ fd' \in Garbage
  /\ r' \in Garbage
  /\ UNCHANGED <<index, loop, result, rpc, usbserv, stick>>

\* padReadHook_job has seen the whole combination of kind k newly pressed.
StartDump(k) ==
  /\ pc = "game"
  /\ index[k] <= MaxIndex
  /\ pc' = "create"
  /\ cur' = <<k, index[k]>>
  /\ fd' \in Garbage
  /\ r' \in Garbage
  /\ UNCHANGED <<index, loop, result, rpc, usbserv, stick>>

\* padReadHook_job counts the dump whatever sendDump returned.  The locals go
\* with the call, and membuffer is filled again before it is next read.
LocalsGo ==
  /\ fd' = -1 /\ r' = -1
  /\ dpos' = 0 /\ dumpSize' = 0 /\ rpos' = 0 /\ sndSize' = 0
  /\ membuffer' = <<>>

Return_Bug(value) ==
  /\ pc' = "game"
  /\ result' = IF value = 0 THEN -1 ELSE value
  /\ index' = [index EXCEPT ![cur[1]] = @ + 1]
  /\ LocalsGo

Return(value) ==
  /\ pc' = "game"
  /\ result' = value
  /\ index' = [index EXCEPT ![cur[1]] = @ + 1]
  /\ LocalsGo

SendCreate ==
  /\ pc = "create"
  /\ IssueCall("open", <<>>)
  /\ pc' = "createSync"
  /\ UNCHANGED <<cur, index, fd, r, loop, result, inited, bound, usbserv, stick>>

SyncCreate ==
  /\ pc = "createSync"
  /\ SyncDone
  /\ Collected
  /\ \/ /\ SyncValue(fd) < 0
        /\ Return(0)
     \/ /\ SyncValue(fd) >= 0
        /\ fd' = SyncValue(fd)
        /\ pc' = "copy"
        /\ dpos' = 0
        /\ dumpSize' = Smaller(Total, BUF)
        /\ UNCHANGED <<r, rpos, sndSize, membuffer, index, result>>
  /\ UNCHANGED <<cur, inited, bound, usbserv, stick>>

\* The outer loop: dump_mem fills membuffer with interrupts off.
CopyChunk ==
  /\ pc = "copy"
  /\ dpos < Total
  /\ membuffer' = Region(dpos, dumpSize)
  /\ sndSize' = Smaller(dumpSize, PKT)
  /\ rpos' = 0
  /\ pc' = "send"
  /\ UNCHANGED <<cur, index, fd, r, dpos, dumpSize, result, rpc, usbserv, stick>>

AllCopied_Bug ==
  /\ pc = "copy"
  /\ dpos >= Total
  /\ Return(Total)
  /\ UNCHANGED <<cur, rpc, usbserv, stick>>

AllCopied ==
  /\ pc = "copy"
  /\ dpos >= Total
  /\ pc' = "close"
  /\ UNCHANGED <<cur, index, fd, r, loop, result, rpc, usbserv, stick>>

SendPacket ==
  /\ pc = "send"
  /\ IssueCall("write", SubSeq(membuffer, rpos + 1, rpos + sndSize))
  /\ pc' = "sendSync"
  /\ UNCHANGED <<cur, index, fd, r, loop, result, inited, bound, usbserv, stick>>

Taken_Bug == SyncValue(r) >= 0
Taken == SyncValue(r) = sndSize

\* A write that did not take the whole packet ends the dump; nothing is closed.
SyncPacket ==
  /\ pc = "sendSync"
  /\ SyncDone
  /\ Collected
  /\ \/ /\ ~Taken
        /\ Return(0)
     \/ /\ Taken
        /\ r' = SyncValue(r)
        /\ rpos' = rpos + sndSize
        /\ sndSize' = Smaller(dumpSize - rpos', sndSize)
        /\ \/ /\ rpos' < dumpSize
              /\ pc' = "send"
              /\ UNCHANGED <<dpos, dumpSize>>
           \/ /\ rpos' >= dumpSize
              /\ pc' = "copy"
              /\ dpos' = dpos + dumpSize
              /\ dumpSize' = Smaller(Total - dpos', dumpSize)
        /\ UNCHANGED <<fd, membuffer, index, result>>
  /\ UNCHANGED <<cur, inited, bound, usbserv, stick>>

SendClose ==
  /\ pc = "close"
  /\ IssueCall("close", <<>>)
  /\ pc' = "closeSync"
  /\ UNCHANGED <<cur, index, fd, r, loop, result, inited, bound, usbserv, stick>>

SyncClose ==
  /\ pc = "closeSync"
  /\ SyncDone
  /\ Collected
  /\ Return(Total)
  /\ UNCHANGED <<cur, inited, bound, usbserv, stick>>

-----------------------------------------------------------------------------
(* irx/usbserv/usbserv.c: the one thread of the RPC queue.                 *)

unserved == <<pc, cur, index, fd, r, loop, result, inited, bound, currentCmd, usbserv>>

Serving(fno) == call.st = "sent" /\ call.fno = fno
Served(ret) == call' = [call EXCEPT !.st = "served", !.ret = ret]

Truncated_Bug(name) == files
Truncated(name) == [files EXCEPT ![name] = <<>>]

ServeOpen_Bug ==
  /\ Serving("open")
  /\ \E f \in Fds :
       /\ handles[f] = {}
       /\ \A g \in Fds : handles[g] = {} => f <= g
       /\ handles' = [handles EXCEPT ![f] = {call.name}]
       /\ made' = made \cup {call.name}
       /\ files' = Truncated(call.name)
       /\ Served(f)
  /\ UNCHANGED unserved

\* _rpcUSBopen: O_CREAT | O_TRUNC.
ServeOpen ==
  /\ Serving("open")
  /\ \/ \E f \in Fds :
          /\ handles[f] = {}
          /\ \A g \in Fds : handles[g] = {} => f <= g
          /\ handles' = [handles EXCEPT ![f] = {call.name}]
          /\ made' = made \cup {call.name}
          /\ files' = Truncated(call.name)
          /\ Served(f)
     \/ /\ Served(-1)
        /\ UNCHANGED stick
  /\ UNCHANGED unserved

\* _rpcUSBwrite: the stick takes the first n bytes of the packet.
ServeWrite ==
  /\ Serving("write")
  /\ \/ /\ call.fd \in Fds
        /\ \E name \in handles[call.fd], n \in 0 .. Len(call.data), failed \in BOOLEAN :
             /\ files' = [files EXCEPT ![name] = @ \o SubSeq(call.data, 1, n)]
             /\ Served(IF failed THEN -1 ELSE n)
     \/ /\ call.fd \notin Fds \/ handles[call.fd] = {}
        /\ Served(-1)
        /\ UNCHANGED files
  /\ UNCHANGED <<made, handles, unserved>>

\* _rpcUSBclose: the file manager frees the descriptor whatever the device's own
\* close answers.
ServeClose ==
  /\ Serving("close")
  /\ \/ /\ call.fd \in Fds /\ handles[call.fd] # {}
        /\ handles' = [handles EXCEPT ![call.fd] = {}]
        /\ \E failed \in BOOLEAN : Served(IF failed THEN -1 ELSE 0)
     \/ /\ call.fd \notin Fds \/ handles[call.fd] = {}
        /\ Served(-1)
        /\ UNCHANGED handles
  /\ UNCHANGED <<made, files, unserved>>

\* cb_rpc_S_0A10's result reaches Rpc_Buffer and the client's packet is freed.
Reply ==
  /\ call.st = "served"
  /\ call' = [call EXCEPT !.st = "done"]
  /\ UNCHANGED <<unserved, stick>>

-----------------------------------------------------------------------------
Dump ==
  \/ SendCreate \/ SyncCreate
  \/ CopyChunk \/ AllCopied
  \/ SendPacket \/ SyncPacket
  \/ SendClose \/ SyncClose

Server == ServeOpen \/ ServeWrite \/ ServeClose \/ Reply

\* The player stops: every kind has been dumped MaxIndex + 1 times.
Stopped ==
  /\ pc = "game"
  /\ \A k \in Kinds : index[k] > MaxIndex
  /\ UNCHANGED vars

EmptyStick == made = {} /\ files = [n \in Names |-> <<>>]

\* No dump runs and none has run since the console was switched on.
Ready ==
  /\ pc = "game"
  /\ cur = Idle.name
  /\ index = [k \in Kinds |-> 0]
  /\ fd = -1 /\ r = -1
  /\ dpos = 0 /\ dumpSize = 0 /\ rpos = 0 /\ sndSize = 0
  /\ membuffer = <<>>
  /\ result = 0
  /\ currentCmd = "none"
  /\ call = Idle
  /\ handles = [f \in Fds |-> {}]

\* The link is up: a reset has loaded usbserv and bound the client to it.
Init == Ready /\ EmptyStick /\ inited = TRUE /\ bound = 1 /\ usbserv = 1

Next == (\E k \in Kinds : StartDump(k)) \/ Dump \/ Server \/ Stopped

\* sendDump is straight-line code that spins while it waits, and the IOP's RPC
\* thread is woken by each request.
Fairness == WF_vars(Dump) /\ WF_vars(Server)

Spec == Init /\ [][Next]_vars /\ Fairness

-----------------------------------------------------------------------------
(* Properties.                                                             *)

\* Every variable of the dump, of the RPC client, of usbserv and of the stick
\* has its type.
TypeOK ==
  /\ pc \in Steps
  /\ cur \in Names
  /\ index \in [Kinds -> 0 .. MaxIndex + 1]
  /\ fd \in Int /\ r \in Int
  /\ dpos \in Nat /\ dumpSize \in Nat /\ rpos \in Nat /\ sndSize \in Nat
  /\ membuffer \in Seq(Nat)
  /\ result \in Nat
  /\ inited \in BOOLEAN
  /\ bound \in Nat /\ usbserv \in Nat
  /\ currentCmd \in Cmds
  /\ call.fno \in Cmds /\ call.name \in Names /\ call.fd \in Int
  /\ call.data \in Seq(Nat) /\ call.ret \in Int
  /\ call.st \in {"sent", "served", "lost", "done"}
  /\ made \subseteq Names
  /\ files \in [Names -> Seq(Nat)]
  /\ handles \in [Fds -> {{}} \cup {{n} : n \in Names}]

\* The double loop of sendDump, the RPC client and the server thread together
\* keep the promise of MemDump: whatever write or open answers, the file is a
\* beginning of the region and a dump that returns its length wrote all of it.
Abs == INSTANCE MemDump WITH
  Names <- Names, Size <- NameSize,
  running <- IF pc = "game" THEN {} ELSE {cur}
ImplementsMemDump == Abs!Spec

\* The file of a dump that has returned is never touched again: neither the
\* next dump's packets nor a late call of its own reach it.
FinishedFrozen ==
  [][\A n \in Names : n[2] < index[n[1]] => files'[n] = files[n]]_vars

\* A dump that returns its length has closed its file: only the dumps that
\* gave up in the middle hold a descriptor of the IOP.
DoneIsClosed ==
  pc = "game" /\ result # 0 => \A f \in Fds : handles[f] # {cur}

\* The game's pad read, which sendDump runs in, always returns.
DumpEnds == pc # "game" ~> pc = "game"
=============================================================================
