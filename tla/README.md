# Verification of the Artemis PS2 archive

TLA+ models of the programs of the Artemis PS2 archive, checked with TLC and, where a result should
hold for every value of the parameters, proved with TLAPS. The archive holds a dozen programs; most of
its own logic that is concurrent, stateful or numeric is in `ps2cc` (the PC side: a GUI that dumps
the RAM of a running PS2 and searches it for codes) and in `IGmassdumper` (the PS2 side: a dump to
USB from inside a running game). Paths below are relative to `src/`.

1. [Inventory](#inventory)
2. [Plan](#plan)
3. [Modules and what they model](#modules-and-what-they-model)
4. [Runs, bounds and what they show](#runs-bounds-and-what-they-show)
5. [Fairness](#fairness)
6. [Proofs](#proofs)
7. [Only model-checked, and not modelled](#only-model-checked-and-not-modelled)

## Inventory

### ps2cc: NTPB client (`ps2cc/lib_ntpb.c`, `ps2cc.c`)
State, all of it global and without a lock: `pktbuffer`, `remote_cmd` (the command under way, which is
the only "busy" flag), `haltState`, `ClientConnected`, `main_socket`, `udp_socket`, the thread id of the
client thread, and a `static NTPB_IO` inside `DumpRAM`.
Operations: `SendReceiveThread` (request, acknowledgement, receive loop, reply), called as a function by
the GUI thread (`SysHalt`, `ReadMem`, cheats) and started as a thread by `DumpRAM`; `ClientReconnect`,
`ntpbShutdown`, `clientThread` (connects, publishes the socket, waits for netlog datagrams).
Interactions: window messages between the threads (`UpdateStatusBar`, `UpdateProgressBar` and the
`SEARCH_CONTINUE` notification), the TCP link, message boxes in the middle of error paths.
Hard: three kinds of thread on shared globals; the error path tears the connection down under whoever
else uses it; `TerminateThread`; `recv()` with its three outcomes; a GUI disabled by one thread and
enabled by another. Correct when: commands do not work on the buffer together; the client is not left
busy; a dump that is reported is whole; `haltState` is true; the tab comes back; the link comes back.

### ps2cc: search library (`ps2cc/lib_search.c`, `lib_misc.c`)
Pure functions of two RAM images, a bitmap of results and the options of a search. State: the bitmap and
`ResCount`. Operations: `CodeSearch` (23 search types), `CodeSearchEx` (filters), `FilterResultsEx` (runs
of consecutive results), `GetSearchValues` (from an array or a file). Hard: widths. Values of 1 to 8
bytes are compared in u64, some comparisons are signed, sums wrap, values read through a file are ints.
Correct when each option keeps what its label in the window says, and `ResCount` counts the bitmap.

### ps2cc: search session (`ps2cc/tab_search.c`, `tab_results.c`, `lib_fileio.c`)
State: the entries of the Compare To box, `dump<k>.raw` and `search<k>.bin` for each, the globals `Search`
and `RamInfo` between the start of a dump and its end, `ResultsList`. Operations: `DO_SEARCH_CMD`,
`SEARCH_CONTINUE_VCMD`, `EX_FILTER_CMD`, `MNU_CS_UNDO`, `MNU_LOAD_SEARCH`, showing the results, `VK_DELETE`.
Hard: an operation in two halves with a dump in between, and menu commands that remain enabled in that gap;
an entry that is added before its search may fail; sizes that come from the window in one place and from a
file's header in another. Correct when entries that are not the newest stay as they were (Undo relies on
it), results only shrink along the history, and the counts agree with the bitmaps.

### ps2cc: active cheats (`ps2cc/tab_results.c:88-211, 255-409, 595-645`, `lib_ntpb.c:505-553`)
State: the rows of the list view with their check boxes, the edit box (`lvEdit`, which knows its row by
index), `actcodes`, and what the PS2 was last sent. Operations: Activate, Write Once, Delete, All On, All
Off, Clear All, the check boxes, the edit of an address or a value, a double click on results;
`UpdateActiveCheats` deactivates everything and then sends the codes in packets of six. Hard: a packet that
fails in the middle; `DumpRAM` between two of them; a list that changes without being sent; a row that moves
under the edit box. Correct when the PS2 runs what the list shows after an update, and never a mixture of
two lists.

### ps2cc: memory editor, settings, helpers
`tab_memedit.c` adds only the `ReadMem` command; the rest is Win32 plumbing.

### IGmassdumper: the dump (`core/core.c:932-1038`, `core/rpc.c`, `irx/usbserv/usbserv.c`)
Runs inside the pad read of a game. State: the locals of `sendDump` (two of them are read uninitialised when
a call was not made), the RPC client's `currentCmd` and `RPCclient_Inited`, usbserv's buffers, the files of
the stick, the IOP's descriptors. Operations: `sendDump`, `rpcUSBcreate`, `rpcUSBwrite`, `rpcUSBclose`,
`rpcUSBSync`, and usbserv's RPC thread. Hard: two processors and one pending call; a short write; a call that
was refused and is waited for. Correct when a file is a beginning of its region and a dump that reports its
length wrote all of it.

### IGmassdumper: resets and the pad hook (`core/core.c:542-866, 1006-1150`, `core/iopcontrol.c`)
State: the countdown `set_reg_hook`, the two hooked system calls, the game's pad read, `old_pad`. Operations:
`HookSifSetDma` with `HookIopReset`, `HookSifSetReg` with `PostReset_Hook`, `padReadHook_job`. Hard: the core
does a reset of its own in the middle of the game's and has to swallow exactly that many of the
game's calls; the client stays bound to a server that later resets kill.

### Disassembler (`Disassembler/disassembler.c`, `main.c`)
One global packet that each of the 270 functions of the opcode tables fills in part, and a loop that follows
the packet's target and keeps a history. Correct when RIGHT follows a target that the jump on the
screen, or one that the line allows for, has set, and LEFT comes back.

### dump2mass, uCL-LiveDebug v4, CL-LiveDebug v3, Cora_Dumper, the rest
`dump2mass` writes regions of memory in chunks to USB and compares a signed result with an unsigned size
(`main.c:261`: a `write` that returns -1 counts as complete). uCL-LiveDebug v4 is a launcher and an in-game engine
written in CodeDesigner assembly (`.cds`) and exported to C as arrays of machine code. Cora_Dumper hooks system
calls; hooking twice makes the hook its own original (`Original Source/main.c:327`). artemis_gui, AGUI and
Artemis_Fonts draw; irxtool and lsmod are one-shot tools; libconfig and ps2_packer are third-party. `PROJECT.json`
lists every component with what is modelled of it, and every hazard at its line.

## Plan

Done, in this order:
1. `NtpbClient`: the threads and the link, then its proofs: who may work (`NtpbClient_proofs`), and what the
   two ends of the line know of each other (`NtpbLine_proofs`).
2. `SearchLib`, `SearchCheck`: the search algorithms against their labels, then the proofs of all of it for
   every width of a byte (`SearchCheck_proofs`).
3. `SearchSession`: the history of searches, then its proofs (`SearchSession_proofs`).
4. `MemDump`, what an in-game dump promises, and `UsbDump`, which implements it; the refinement proved
   (`UsbDump_proofs`).
5. `InGame`: the resets and the pad hook, composed with `UsbDump`, and its proofs (`InGame_proofs`).
6. `Disassembler` and its proofs (`Disassembler_proofs`).
7. `ActiveCheats` and its proofs (`ActiveCheats_proofs`).

Open:
- An abstract link, "a command is answered once or fails", that `NtpbClient` implements for a patient user and
  that `ActiveCheats` and `SearchSession`, which state it in actions of their own, share.
- `dump2mass`'s loop with machine integers, as a second implementation of `MemDump`; Cora_Dumper's and the
  LiveDebug engine's system call hooks.

## Modules and what they model

| Module | Models | State and actions |
|---|---|---|
| `NtpbClient` | `lib_ntpb.c`, the handlers of `ps2cc.c` and `tab_search.c` that call it | `pc[t]` is the statement thread `t` is at: `SendReceive(t)` is `SendReceiveThread`, `ClientReconnect` and `ntpbShutdown` step by step, `User*` what the user starts, `GuiStep` the rest of the GUI handlers, `ClientStep(c)` the client threads, `PS2Step` and `LinkFault` the other end |
| `NtpbClient_proofs` | | theorems about its threads |
| `NtpbLine_proofs` | | theorems about the line between its two ends |
| `SearchLib` | `lib_search.c` and parts of `lib_misc.c` | operators with the names of the functions |
| `SearchCheck` | one call of `CodeSearch` | `Search`, from every input the sets allow |
| `SearchCheck_proofs` | | theorems about it and lemmas about `SearchLib` |
| `SearchSession` | `tab_search.c:372-708`, `tab_results.c:345-484`, `lib_fileio.c` | one action per command: `DoSearch`, `Continue`, `DumpFailed`, `ExFilter`, `Undo`, `LoadSearch`, `LoadSearchFails`, `ShowResults`, `ShowSearch`, `Delete` |
| `SearchSession_proofs` | | theorems about it |
| `MemDump` | the promise of a dump | `Begin`, `Create`, `Extend`, `Finish`, `GiveUp` on the files of the stick |
| `UsbDump` | `sendDump`, `rpc.c`, `usbserv.c` | `pc` is the statement of `sendDump`; each call is `Send*`, `Serve*`, `Reply`, `Sync*` |
| `UsbDump_proofs` | | theorems about it, and that it implements `MemDump` |
| `InGame` | `HookIopReset`, `PostReset_Hook`, `padReadHook_job`, `iopcontrol.c` | extends `UsbDump`; `hpc` is the step of `HookIopReset`, `setRegs` the game's calls that remain |
| `InGame_proofs` | | theorems about it |
| `Disassembler` | `disassembler.c` by what each function writes, the loop of `main.c` | `execOp` and `Up`, `Down`, `Right`, `Left` |
| `Disassembler_proofs` | | theorems about it |
| `ActiveCheats` | `tab_results.c:88-211, 255-409, 595-645`, `ActivateCheats`, `DeActivateCheats` | one action per button, key or click; `pc` is the command of `UpdateActiveCheats` the GUI thread is in |
| `ActiveCheats_proofs` | | theorems about it |
| `MC*` | | the constants' values for TLC |

### NtpbClient
A step is one access to shared state, one blocking call or one message box; everything between two of those
is one step, since no other thread can tell. A `SendMessage` of another thread waits until the GUI thread
pumps messages (`Pumps`); in a message box it does, in a blocking `recv()` it does not. `main_socket` is a
handle and handles are reused only when no thread can name them any more. The channels are queues of whole
packets; the fragment loop of `recv()` is folded into one receive. `recv()` returns a packet, an error
("reset") or 0 ("gone", peer closed), as the link is. 0 is an error where the acknowledgement is read and not
in the reply loop (`lib_ntpb.c:209`): when the PS2 closes the connection after its acknowledgement, the loop
goes round for ever, `remote_cmd` stays taken, and nothing replaces the connection; that is why
`ResetLinkReplaced` speaks of a reset only. The same formula with "gone" is false.
`SEARCH_CONTINUE` ignores the result of the halt it sends: with "PS2 Waits" a failed halt is followed by the dump
of a running PS2 (`tab_search.c:499`; `HaltBelief` still holds, `haltState` is then 0), and a search whose
`DumpRAM` is refused leaves a PS2 that was halted for it halted (501). What the PS2 does is not in the repository: it is
modelled from what the client waits for, and marked external. Of a message box the two answers that differ
are modelled (`MayAbort`). Winsock may fail to start (`WinsockFails`, `ClientInitFails`): the program then runs
without a client thread. The two safety runs of passing properties have it; `ntpb_live` and `ntpb_abort`, which ask
for a reconnection, take a Winsock that starts. With nothing left but the message loop the program rests (`Ended`).

One thing is left out: `SEARCH_CONTINUE` that arrives in a message box and sends the RESUME of "PS2 Waits" from
there (`tab_search.c:596`), a command of the GUI thread inside another handler of the GUI thread. The model has
one call of that thread at a time, and `HandleContinue` does not fire in that case. It takes a user who does not wait,
together with "PS2 Waits": a patient user is in no message box while a dump thread lives, and `ntpb_overlap`, which has
the other user, has `PS2Wait = FALSE`. So no run and no theorem about a patient user loses a behaviour by it;
`NeverStuckBusyCorrect` and `TypeCorrect` do not speak of it.

`Patient` says that the user starts nothing while a dump runs. The program does not enforce it: its menu
stays enabled. Most guarantees hold only then, and the runs say which.

### SearchLib and SearchCheck
A byte has `UnitBits` bits. The relations between the widths (a byte, a value of `Size` bytes, a u64 of
eight bytes) are what the code's mistakes are about, and all of them are there with one bit to a byte, so
that every value of every width can be enumerated; an expression of u64 is taken modulo `Reg`, the power of
two with the exponent 8 * UnitBits. Powers of two are the recursive function `Pow2`, which can be reasoned
about for any `UnitBits`. `SearchCheckAssumption` says of the inputs what the program ensures: addresses fit u32
and a dump holds whole values.
`TypeEx` is a set of flags instead of a mask. A dump of a single value stands for one address of a larger
dump, since no search type but the consecutive filters looks at two. Uninitialised old values are
arbitrary, and so is the order of two `getc()` in one expression (`ltr`). Progress bars are left out.
The properties compare the code with the labels of the window (`Label`, `BitLabel`, `FilterKeeps`), written
independently over the integers. Where the code departs from its labels the property is limited, and the
limit is an operator of its own that says exactly when: `Comparable` (sums that leave the half of the
number line a value is on, the low end of In-Range, bit counts of negative numbers), `ReadsTrue` (values
through a file) and `FilterSees` (16-bit and 32-bit part filters on smaller values, address filters of
a dump that starts at an odd place). Those limits are findings in themselves. The plainest: the At
Least and At Most types by difference subtract the typed value in u64 whatever the search size
(`lib_search.c:90`), so that a difference below zero becomes nearly 2^64 and passes At Least.

### SearchSession
`files[k]` is `search<k>.bin`: a header and a bitmap of results. Which results a search finds and which of those the
consecutive option keeps is left open (any subsets); the count is the code's. `CodeSearch` counts what it finds, and
`FilterResultsEx` then takes one off for each *byte* of what it clears (`lib_search.c:427-431`), so that a 16-bit search
with ten results of which two are cleared says six (`Recount`). `miscounted` is a history variable: the entries
counted that way, and those that I Forgot took such a count for. `CountNeverLow` and `ForgotKeepsCount` leave these out
and no others; for them the count is too low, by what `CountHonest` of `SearchCheck` and its hazard describe.
A bitmap has one bit per value and its bytes are left out, as is the rounding to bytes. Reading past the end of a
short bitmap gives arbitrary bits (`Readings`).

`dumps[k]` is the size of `dump<k>.raw`; it has its final size from the start of the dump, and one that fails
leaves it so: what had arrived is in a file that no entry names, or under an entry that was there before. The dump itself
is NtpbClient's: here it arrives (`Continue`) or fails (`DumpFailed`). A filter has no dump of its own: it copies the
compared entry's to its own number, with the header, and then loads the copy (`ExFilter`, `tab_search.c:479, 562`); a file
that was there under that number is gone by then. What the user could have chosen in the
window before a command (size, area, type, entry to compare with) is chosen by the command. The search types
are three here: INIT, FORGOT and COMPARE for all the others, which the history cannot tell apart. `Search` is `Idle`
when no search waits: DO_SEARCH sets all of it again.

The results list has a row for each of the first `ResCount` results of the newest entry, at its address (a result's
place times its size, plus `MapMemAddy`), and if the header counts more than the bitmap has, rows of memory nobody
wrote (`junk`). Delete clears the bits that the rows' addresses name in the *newest* file, whatever entry the list
was made from; a row of unwritten memory may name any bit. Undo leaves the list on the screen, and `Lasting` says
when that is harmless: the entries share size and start, their bitmaps are whole, and the list has no such row.

Not in the model: File Mode and what it checks, file access instead of arrays, an unreadable disk, the page of
results that is shown (the list is one page), a junk row that names an address before the area or past the bitmap,
where Delete writes into memory that is not the bitmap's, and "no entry selected" (Compare To after an Undo under a
pending search), which only makes the next search refuse.

`torn` is a history variable: it becomes true when Undo or Load Search, which come from the menu, replace
what a waiting search or the results list on the screen works on (a Load Search that fails frees it just the same,
`LoadSearchFails`), and when a search fails to compare
(areas of different size, an older dump that a failed new search has emptied) and its entry, which is
already in the box, finds the file of an undone or older search under its number (`Leftover`). What follows
then is not what HistoryShrinks and CountNeverLow promise: a search that continues with a freed `RamInfo`
leaves an entry without a file, or with that of an undone search; Delete clears the bits of another
entry. `OldEntriesFrozen` and `TypeOK` speak of every history, torn ones included, and are proved for them.

### MemDump and UsbDump
A byte is named by its offset in the region, so that the contents of a file say which bytes it holds and in
which order. `MemDump` promises that a file is a beginning of its region, that it only grows, and that a
dump is reported done only when the file is whole. `UsbDump` is the code: the outer loop that fills a
buffer with interrupts off, the inner one that sends it a packet at a time, the three calls with their
`rpcUSBSync`, and usbserv's thread on the other processor. The stick is external: open may fail, write may be
short or fail, at any call. `fd` and `r` start with what the stack held (`Garbage`) and keep their value when
no command was registered (`SyncValue`); SIF's failure to send (`CallMayFail`) is there and is assumed away by
the runs and by the proof: with it a packet is dropped in silence and the file has a hole (`rpc.c:82`).
A close may fail (`usbserv.c:188`); the IOP's file manager frees the descriptor all the same, and `sendDump` ignores the
result (`core.c:999-1002`). What such a close may lose of the file's last bytes is the stick's affair and left out.
`padReadHook_job` counts a dump whether it succeeded or not.

### InGame
Extends `UsbDump` with what can happen between two polls of the pad. The game is external: it plays, resets the IOP
with one packet and four `SifSetReg` calls, or loads another executable (with its own pad library, `lib`). Hooked,
the reset packet goes to `HookIopReset`: one reset without arguments, then, by the argument, the patched image and
the USB modules, or the plain reset. Every `SifIopReset` kills the modules on the IOP (`RebootIop`): usbserv's
server, its place in IOP memory and the open descriptors. `rpcUSBInit` binds only once in the core's life, to the
address it then finds; a later usbserv may lie elsewhere. If `SifBindRpc` fails it returns without a bound client
(`rpc.c:45`), which its caller ignores (`core.c:840`), and the next reset tries again (`BindFails`, which no
fairness asks for). An unbound client registers no call, and `r` keeps one value: a region that takes packets of
two sizes then comes back as 0 (`core.c:984-991`), as both regions of the program do, while one of a single size of
packet may come back as whole with nothing written; `DoneIsWhole` says it of a bound client for that reason. If
`memdisk` or UDNL cannot be loaded (`core.c:785-786`) there is no IOP to synchronise with and the game stands still
(`SendImage`); a player can then only switch off. With the wrong style of pad read, the hook reads arbitrary
buttons (`PadData`); a library that is found and whose calls are not (`core.c:1148`) leaves the pad read as it is
(`PatchPadRead`). The game has one thread: `ResetPacket` needs it to be playing, so that resets come between dumps
and none in the middle of one, and what `FilesHonest` says of resets is said of those. A power cut comes at any
step. `IopSync` is taken to see its flag only after the reset it waits for. The search for the library's code in
memory and the layout of the IOPRP image are one choice each.

### Disassembler
The 270 functions are grouped by which fields of `oppPacket` they write, and when they return before that ($zero as
the destination, a control register the FPU does not have). A field keeps the address of the instruction that wrote
it, which is all that the properties need of a line; `history` starts as a block for one address of which nothing
is set. The text of a line, the emulated registers with `u32Result`, and what `break` overwrites in the literal its
predecessor's name points to (`disassembler.c:2206`) are left out; `COP1_W` calls a null pointer and ends the run
(`lost`). Of the three copies of the program the one in `Disassembler/` is modelled. Seen on the way, and not a
property: some names are wrong (BNE prints "beq" at `disassembler.c:909`, MOVN "movz", LDL "ld", CVT_W "sqrt.s",
MTLO "mthi"), and a branch's target is taken from the branch instead of its delay slot.

### ActiveCheats
Each row has an address, a value, a size and a check box; a code is the same without the box, since
`address | (size / 2) << 28` can be read back below 0x10000000. The GUI thread is at one command (`pc`), each
command is one step that succeeds, fails before the PS2 has it, or is done by the PS2 and not heard of
(`Unheard`); what is inside it is in `NtpbClient`. Between two commands the link may go, the PS2 restart, the
client thread connect again, a dump end. The patch table of the PS2 is not in the repository: a CLEAR empties
it and an ADD appends to it, which is what the client's use of them implies. `LookedAt` is the loop of Delete:
after a deletion it goes on to the next index, so that of two selected neighbours one stays
(`tab_results.c:128`). `Fits` is the length limit of the edit box, which is that of the row's size for the
address as well (174): an 8-bit row's address takes two digits. `sprintf("%08I64X", u32)` of a row reads four
bytes more than it is given; the build is taken to find 0 there.
Seen on the way: alignment is looked at by Activate and Write Once only (102, 116), so that a misaligned code
can reach the PS2 from an edited address or from results; results added by a double click or Enter are shown
switched on and are not sent (263, 326), nor is anything sent after a reconnect; Clear All ignores whether the
PS2 heard it (153); an update under a dump tears the dump's connection down, in `DeActivateCheats`, while the
same in `ActivateCheats` is refused with a message.

## Runs, bounds and what they show

| Run | Shows |
|---|---|
| `ntpb_patient` | exclusion, whole dumps, true `haltState`, one client thread, no locked tab, for two operations in a row and one fault of the link at any point |
| `ntpb_overlap` | an impatient user, two dump threads on one buffer, and Abort, which makes a second client thread: still never left busy |
| `ntpb_live` | a search gives its tab back, a lost connection is replaced, also one that was reset under a command |
| `ntpb_abort` | violated: Abort ends automatic reconnection |
| `search_algo` | types, filters, counts and consecutive runs against the labels |
| `session_history` | old entries frozen, results shrink, counts never too low |
| `session_forgot` | violated: I Forgot with an older Compare To has a wrong count |
| `usb_dump` | `UsbDump` implements `MemDump`, finished files are left alone and closed, every dump returns |
| `ingame_resets` | the countdown swallows the right calls, files stay honest over resets and power cuts, a dump hangs only when its server is gone, a reset ends |
| `ingame_reload` | violated: a reset without an IOPRP image hooks the pad read and loads no server |
| `disasm` | RIGHT follows what was set, LEFT undoes RIGHT |
| `cheats` | after an update the PS2 runs the list, a failed one leaves no mixture, the edit box keeps to its row |

Bounds.
- NtpbClient: two operations are the least for which a command meets what an earlier one left; `MaxFaults = 1`
  faults at any step, since the error path after a fault replaces the whole connection. `NBlocks = 2` makes
  the first and the last packet differ; in `ntpb_overlap` (two dump threads) and in the liveness runs one
  packet is enough, since what they are about is who works and not what arrives. Two client threads are
  followed in `ntpb_overlap`, which is one more than the program means to have: `SpawnHasSlot` stops at a
  third, and `LoneAfterAbort` follows no dump while two live (the theorem `NeverStuckBusyCorrect` needs neither).
  Seven socket handles are more than a run can use up; a run that did would stop the client thread and show
  in `ntpb_live`. Symmetry: dump threads among themselves and client threads among themselves are
  interchangeable in the safety runs; the liveness runs use none.
- SearchCheck: sizes 1, 2 and 4 with one bit to a byte give values of up to 4 bits and all of both dumps;
  typed numbers are the two ends, both sides of the sign and small ones (`Numbers`). The filters see an
  eight-byte dump at every size; consecutive filters every subset of five 8-bit or three 16-bit results,
  with every pattern of two values.
- SearchSession: three entries are needed for the three numbers of a search (compared entry, newest
  entry, target) to differ; 16-bit and 32-bit searches of an area of four bytes, for bitmaps that are too short or too
  long for the next search's size; the saved searches are a shorter one of other addresses, whose dump cannot be compared with the rest,
  and one that has lost its bitmap.
  `CountMod` is small: no count gets near 2^32 by other ways. The constraint `Untorn` follows a history
  until it is torn: the tearing step is checked, what comes after it is not explored. `FewLeftovers` keeps
  at most one file of an undone or older search beyond the end of the history: one is what the next
  search can meet, a second waits until the first is overwritten. The proofs need neither.
- UsbDump: a region of five bytes with buffers of three and packets of two has a last buffer and last packets
  that are short, a region of two fits in one packet; each kind is dumped twice, so that a name's index and
  a descriptor left open by a dump that gave up both matter. Two descriptors are fewer than four such dumps can leave open, so that
  an open may also find none.
- InGame: one kind of dump of two packets, two combination buttons (UP stands for the two that all combinations
  share), two resets, one power cut, all pad libraries, both builds (`unhookAfter`); two addresses for usbserv
  are enough for a client that is bound to the wrong one.
- Disassembler: three instructions, one of all the functions between two that treat the packet differently;
  three cells of history are what the allocator's smallest block holds next to the one asked for. The
  functions that write the same fields are one case each, and the proofs take any memory.
- ActiveCheats: packets of two, room for three codes and lists of up to four rows give a short last packet, a
  full one and a row that is left out; five operations reach a second update after a failed one with a list
  changed in between; one fault at any point.

The passing runs of NtpbClient and UsbDump check deadlock: the model never stops before the program does
(`Ended`, `Stopped` stutter), and so does the run of Disassembler, whose loop polls for ever. A single search
call and an idle user may stop, and a game may hang: those runs do not check it, or check it as a property.

## Fairness

`FairSpec` (NtpbClient) asks for weak fairness of every thread's next step, of each client thread and of the
PS2 as long as the link is up: the operating system schedules every thread and TCP delivers or
reports an error. It asks for strong fairness of an answer to the question of `ntpbShutdown` other than
Retry, since nobody clicks Retry for ever; a message box is dismissed in the end (part of its thread's step).
It asks nothing of the user's operations, of faults and of netlog datagrams: none of them ever has to
happen, which is what makes `ntpb_abort` a real counterexample (the client thread waits for a datagram).

`Spec` of UsbDump asks for weak fairness of `sendDump` and of usbserv's thread: the first is straight-line code
that spins while it waits, the second is woken by each request. `GameSpec` adds the same for the hooks, for the
IOP's boot and for a game in the middle of its own reset; it asks nothing of the player, of the next
reset, of another executable or of the power switch. The other modules state safety only.

## Proofs

`NtpbClient_proofs`, for any number of threads, blocks, faults and operations, from `ConstantsAssumption`
only:

- `TypeCorrect`: `Spec => []TypeOK`. One lemma per group of actions; `Frame` states that each conjunct of
  `TypeOK` depends on its own group of variables, so that an action that leaves a group alone needs one
  citation; `GotoType`, `TransmitType`, `ReceiveType` do the shared helpers.
- `OneCommandCorrect`: `Spec => []OneCommand`. `OneCommand` is not inductive: it says nothing of a dump
  thread that is about to notify, whose message starts a command of the GUI thread while it lives. `Excl`
  adds that at most one dump thread exists at all, and that none does while the GUI thread is in
  lib_ntpb.c, on its way back from it or on its way into DumpRAM. The exclusion comes from the user's patience
  and from `HandleContinue`, which waits for the thread's last step, and from no lock.
- `NeverStuckBusyCorrect`: `Spec => []NeverStuckBusy`, patient or not. The inductive form `BusyHasHolder` says
  that whenever `remote_cmd` is not NONE some thread is at one of the statements from which it will be
  freed (`Holding`); a second thread that frees it under the first is what makes it hold even then.
- `LockedTabHasWakerCorrect`: with a patient user, from `Waker`: the thread that will unlock the tab exists
  from the moment the handler is about to lock it.

Each inductive invariant of `NtpbClient_proofs` was model-checked before it was proved.

`NtpbLine_proofs` goes on from there, for any number of threads, sockets, blocks, faults and operations, with or
without pipelining on the PS2's side, and for a user who starts nothing during a dump and does not answer Abort
(`Careful`; Abort leaves a second client thread, as `ntpb_abort` shows):

- `OneClientThreadCorrect`: from `OneClient`, which adds that none lives when the next one is about to start.
- `DumpCompleteCorrect`: a dump reported as done has all its blocks in order. Five invariants, each on top of the last:
  `Sockets` (while `main_socket` is open it is the connection the PS2 serves, and an unpublished connection carries
  nothing), `Own` (what a thread knows of its command, its packet and its file), `Line` (for each statement of
  `SendReceiveThread`, which packets are in either channel and what the PS2 is doing; no command is under way when
  the thread is elsewhere), `Whole` (a dump thread that has succeeded has the whole file). `Line` holds only while the
  connection lives: a lost one may leave anything, and the error path puts a new one in its place.
- `HaltBeliefCorrect`: when the client believes the PS2 is halted, it is, and no RESUME is under way (`Belief`).
  Without "reboot" among the faults: a PS2 that restarts is running, and the client learns of it with its next command.

`SearchSession_proofs`, for any number of entries, sizes, areas and saved searches, from `SessionAssumption` and
`ArchiveAssumption` (sizes and counts are u32; a saved search is a header and a bitmap that has no bits past
its end; no relation between the two is assumed):

- `OldEntriesFrozenCorrect`: `Spec => OldEntriesFrozen`, torn or not. The inductive invariant `Placed` needs one
  idea, `TargetAhead`: a search that waits aims past the end of the history. Undo moves the target to the old
  end plus one before it shortens the history, Load Search shortens it to one entry, and a search that
  compares had at least one entry when it started; so the target is never an entry that is left.
- `TypeCorrect`: `Spec => []TypeOK`, from `Typed`. `Readings`, `Saved` and `Lists` have a lemma each; counts stay
  within u32 because a bitmap has no more bits than the dump has bytes (`ValuesFit`), and because Delete
  takes its difference modulo `CountMod`.
- `HistoryShrinksCorrect`: `Spec => []HistoryShrinks`. `HistoryShrinks` compares every pair of entries and not only
  neighbours, which makes it inductive without an induction over the entries; `Loaded` adds that an untorn
  search that waits has the newest bitmap and writes the next entry, `NarrowShrinks` that the garbage a short
  bitmap reads as is not written back.
- `CountNeverLowCorrect`: `Spec => []CountNeverLow`, if the searches saved elsewhere count at least their results
  (`HonestArchive`; a file of any other origin may count what it likes), and of all entries but those counted by
  bytes. `Counted` adds to it what the rows of the list can name (`Listing`: with a whole bitmap only results,
  `Shows`; with any bitmap no more other rows than the count has to spare, `Covers`) and that I Forgot, with the count of one
  entry and the bitmap of another, can only count too many (`OldLoaded`, by `HistoryShrinks`). `RecountExact` is the
  arithmetic of a search that clears nothing or has 8-bit values.

`UsbDump_proofs`, for any kinds, region sizes, buffer, packet and number of descriptors, from `UsbDumpAssumption`
and, but for `TypeCorrect`, `Reliable` (SIF does not fail to send, `CallMayFail = FALSE`):

- `ImplementsMemDumpCorrect`: `Reliable => (Spec => ImplementsMemDump)`. The invariant `IInv` ties the three places a
  byte can be in: `LoopOK`, what `dpos`, `dumpSize`, `rpos` and `sndSize` say of the region; `CallOK`, that the call
  in flight is that of the step; `FileOK`, that the file under way ends where the loop stands, or one
  packet, part of it or none of it further. Each action then maps to one of `MemDump`, or to none
  (`AbsServeWrite` is the central one: a packet extends a beginning to a beginning).
- `DoneIsClosedCorrect`, `FinishedFrozenCorrect` follow from the same invariant; `HandlesOK` says
  that no two descriptors are open on one file.
- `TypeCorrect` needs no `Reliable`: its invariant `Typed` says nothing of the loop's progress, and holds also when
  packets are dropped, the server is bound elsewhere or the locals start as garbage; `InGame_proofs` uses it again.

`InGame_proofs`, for any number of resets and power cycles, every layout of the IOP's memory, every library and
combination of buttons:

- `SwallowsTheResetsCorrect`, `GameTypeCorrect`: from `Hooks`. The countdown is 0 or equals the game's calls that
  remain; `HookIopReset` works before the first of them and no dump runs meanwhile.
- `FilesHonestCorrect`, `DoneIsWholeCorrect` (with `Reliable`): from `Honest`. The invariant of `UsbDump_proofs` holds no
  longer, since a reset takes the server, the descriptors and the pending call away. What is left is split by what
  the client is bound to: `Waits` says that a registered command is that of the step and is lost exactly when the
  server is another than the bound one, `Written` what the step knows of its file while the server it is bound to
  lives, `Beginnings` that every file is a beginning of its region, whoever wrote it and whatever became of it.

`Disassembler_proofs`, for any memory, any number of addresses and any depth of history, from
`DisassemblerAssumption`: all four properties. `Honest` says of each group of functions what it leaves in the
packet, `Remembers` that `trail` is what `history` holds above its first cell.

`ActiveCheats_proofs`, for any packet size, array, list, entries, texts, faults and operations, from
`CheatsAssumption`: all five properties, from `IInv`. `Steps` is its strengthening. Its point is what holds in the
middle of an update: connected, no dump, and the PS2 has the first `sent` codes as long as the link is up.
The client thread cannot reconnect there, since only the GUI thread itself marks the connection as lost; so
a link that went down between two packets stays down until the update has noticed. Selections of rows
(`Select`, `Nth`) have lemmas of their own: the k-th element of a set of indices exists (`NthExists`, by the least
number), and a selection takes each index once (`SelectType`).

`SearchCheck_proofs`, for every width of a byte, every dump and every typed number of the sets, from
`SearchLibAssumption` and `SearchCheckAssumption`: all five properties. `Searched` says that the call has one of the
shapes of `Init` and that the results are what `CodeSearch` returns for it; the rest is about `SearchLib`:

- Recursion first. A recursive function is a CHOOSE of a function that obeys its equation, so each (`Pow2`,
  `LittleEndian`, `BitOr`, `FilterResultsEx`) has a lemma that one exists and that it obeys it (`Powers`, `LittleEndianStep`,
  `OrOfBits`, `ClearingDefined`). Induction is by the least counterexample (`WFMin` on the naturals), which needs no theorem with
  an operator as its parameter.
- `TypesMeanLabelCorrect`: `Represented` says that a number near zero and its remainder modulo `Reg` compare alike on
  one side of zero, `Operands` that sign extension makes that remainder; the labels about numbers follow (`NumberLabels`).
  For those about bits, `OperandBits` says which bits sign extension adds (`BitLabels`).
- `FiltersMeanLabelCorrect`: a value is its low bytes plus its high ones, that much higher (`Split`), so that division and
  remainder cut out the bytes that are in memory there (`Part`, `Cut`), with the words of a doubleword exchanged (`Turned`);
  a value has all its bits set when all its bytes do (`AllOnes`); an offset below 8 and a multiple of 8 share no bit, and
  `|` of them is their sum (`AddressesAdd`).
- `ConsecRunsCorrect`: `RunOf` says what the inner loop sees, `RunLengths` that every result of a maximal run has its length,
  `RunSeen` that the scan sees a maximal run or, after a kept run of other values, one without its first result.
  `Scan` is the induction from the end of the dump.
- `TypeCorrect` and `CountHonestCorrect` need only that the recursion clears nothing but results.

The invariants of `SearchSession`, `UsbDump`, `Disassembler` and `ActiveCheats`, too, were model-checked before they were
proved; every property named here is an invariant or a property of a run.

## Only model-checked, and not modelled

Liveness (`SearchEnds`, `AutoReconnect`, `ResetLinkReplaced`, `DumpEnds`, `OnlyLostServerHangs`, `ResetEnds`) stays with
TLC: TLAPS proves nothing from fairness or about ENABLED. Every other property of a passing run is proved. The
three theorems of `NtpbLine_proofs` have hypotheses, and `ntpb_patient`, the run of these three properties, meets them:
the user does not answer Abort and starts nothing during a dump (`Careful`), and for `HaltBelief` the PS2 does not
restart. They are not for convenience: an answered Abort leaves a second client thread behind (`ntpb_abort`), commands
started during a dump share its connection (`ntpb_overlap`), and a PS2 that restarted runs while the client still
believes it halted.

Not modelled: what `PROJECT.json` lists as `not_modelled`, with its reason. In short:
- `LDEngine.c`, `LDHook.c`, `LDExcept.c`, `LDFont.c` of uCL-LiveDebug v4 and `LDv3Engine.c` of its predecessor, a
  third of the archive's lines of C, are arrays of machine code and of glyphs. The engines' sources are CodeDesigner
  assembly over registers and hard-wired addresses, which nothing in the repository builds or tests; they
  are left out.
- Two more copies of the disassembler, vendored libraries, headers of formats (`irxtool/elf.h`) and texture
  data.
- Programs that draw, or that run once from top to bottom.
- In ps2cc: a RESUME sent from inside a message box (see NtpbClient); File Mode, paging and writes past a bitmap (see
  SearchSession).
- `dump2mass`, Cora_Dumper, the launcher and the in-game engine of uCL-LiveDebug v4 have logic of their own, in one
  thread each, and are still open.

What is modelled covers the programs that keep state across calls, threads or processors, which is a small
part of the archive's lines.
