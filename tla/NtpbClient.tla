----------------------------- MODULE NtpbClient -----------------------------
(***************************************************************************)
(* The PC side of the NTPB link of ps2cc (ps2cc/lib_ntpb.c): the GUI       *)
(* thread, the threads DumpRAM starts, the client thread that (re)connects *)
(* and logs, and what they share without any lock -- the packet buffer,    *)
(* remote_cmd, haltState, ClientConnected, main_socket and the static      *)
(* NTPB_IO of DumpRAM.  The PS2 side (ntpbserver) is not in the            *)
(* repository: it is modelled from what lib_ntpb.c expects of it.          *)
(*                                                                         *)
(* SendReceiveThread is one sequence of steps, run by a dump thread or,    *)
(* called as a function, by the GUI thread; pc[t] is the statement t is    *)
(* at.  A step is one access to shared state, one blocking call or one     *)
(* message box.  Packets are whole: the fragment loop is folded into one   *)
(* receive.                                                                *)
(***************************************************************************)
EXTENDS Naturals, Sequences, FiniteSets

CONSTANTS
  GUI,            \* the thread of the message loop
  IoThreads,      \* the threads DumpRAM may create
  ClientThreads,  \* the threads that may run clientThread
  Socks,          \* socket handles of the PC
  NoSock,         \* main_socket = -1
  NoThread,       \* no dump file, no UDP socket
  NBlocks,        \* SEND_DUMP packets of a RAM dump
  ReadBlocks,     \* SEND_DUMP packets of a memory view (ReadMem)
  PS2Wait,        \* the "PS2 Waits" check box
  Patient,        \* the user leaves the program alone while it dumps
  MayAbort,       \* the user may answer Abort to ntpbShutdown's question
  Pipelined,      \* the PS2 may send data before its ACK was read
  WinsockFails,   \* WSAStartup may fail
  Faults,         \* what may happen to the link
  MaxFaults,      \* bound: how often it may happen
  MaxOps          \* bound: how many operations the user starts

Threads == {GUI} \cup IoThreads

ASSUME ConstantsAssumption ==
  /\ GUI \notin IoThreads
  /\ NoThread \notin IoThreads \cup ClientThreads
  /\ NoSock \notin Socks
  /\ ClientThreads # {}
  /\ NBlocks \in Nat /\ ReadBlocks \in Nat
  /\ {PS2Wait, Patient, MayAbort, Pipelined, WinsockFails} \subseteq BOOLEAN
  /\ Faults \subseteq {"reset", "gone", "reboot"}
  /\ MaxFaults \in Nat /\ MaxOps \in Nat

VARIABLES
  \* lib_ntpb.c globals
  buf,             \* pktbuffer: the command of its header, its first word of data
  remote_cmd, haltState, ClientConnected, main_socket, clientThid,
  dumpInfo,        \* DumpRAM's static NTPB_IO
  \* the threads that run SendReceiveThread
  pc, sk,          \* statement, socket of a blocked recv
  dsize, wpos,     \* dump_size, dump_wpos
  endT, ok,        \* endTransmit, the value returned
  file, fh,        \* blocks in the dump file (GUI: outBuffer), state of its FILE
  \* the GUI thread
  task, gcmd,      \* why it is in lib_ntpb.c, RemoteCMD of its own NTPB_IO
  tabDisabled,     \* the search tab waits for SEARCH_CONTINUE
  app,             \* running, or how the process ended
  \* the client threads
  cpc, csock, udpHolder, udpSock,
  \* TCP and the PS2
  open, peer, link, toSrv, toCli,
  srv, sNext, sTodo, halted,
  ops, faults      \* the bounds

ntpb == <<buf, remote_cmd, haltState, ClientConnected, main_socket>>
locals == <<sk, dsize, wpos, endT>>
dump == <<dumpInfo, file, fh>>
gui  == <<task, gcmd, tabDisabled>>
client == <<cpc, csock, clientThid, udpHolder, udpSock>>
net  == <<open, peer, link, toSrv, toCli>>
ps2  == <<srv, sNext, sTodo, halted>>
vars == <<ntpb, locals, pc, ok, dump, gui, app, client, net, ps2, ops, faults>>

-----------------------------------------------------------------------------
(* Commands and packets.                                                   *)

NONE == "NONE"
Commands == {"DUMP", "HALT", "RESUME"}
Packet(cmd, body) == [cmd |-> cmd, body |-> body]
Blocks(n) == [i \in 1..n |-> i]

Cmd(t)  == IF t = GUI THEN gcmd ELSE dumpInfo.cmd
Size(t) == IF t = GUI THEN ReadBlocks ELSE NBlocks

NoInfo == [cmd |-> NONE, notify |-> FALSE, fh |-> NoThread]

\* The labels at which the GUI thread dispatches messages: its loop, and the
\* message boxes, whose modal loop still delivers sent messages.
Pumps == {"idle", "box", "prompt"}
CanPump(t) == t = GUI \/ pc[GUI] \in Pumps

Running == app = "running"
Goto(t, from, to) == Running /\ pc[t] = from /\ pc' = [pc EXCEPT ![t] = to]

-----------------------------------------------------------------------------
(* Sockets.                                                                *)

Broken(s) == s \notin open \/ s # peer \/ link = "reset"

\* send() on s: `next' if the packet leaves, a message box if it fails.  A peer
\* that is gone answers with a reset.
Transmit(t, from, pkt, next) ==
  \/ /\ ~Broken(main_socket)
     /\ Goto(t, from, next)
     /\ IF link = "up" THEN toSrv' = Append(toSrv, pkt) /\ UNCHANGED link
                       ELSE link' = "reset" /\ UNCHANGED toSrv
  \/ /\ Broken(main_socket)
     /\ Goto(t, from, "box")
     /\ UNCHANGED <<toSrv, link>>

\* recv() into pktbuffer takes what the socket holds: one packet or, when more
\* have arrived, several; only the first is looked at.
Receive(t, from, next) ==
  /\ ~Broken(sk[t])
  /\ \E k \in 1..Len(toCli) : toCli' = SubSeq(toCli, k + 1, Len(toCli))
  /\ buf' = Head(toCli)
  /\ Goto(t, from, next)

CloseMain ==
  /\ open' = open \ {main_socket}
  /\ link' = IF main_socket = peer THEN "reset" ELSE link

-----------------------------------------------------------------------------
(* SendReceiveThread: the request.                                         *)

\* The header goes to the shared buffer before anything is checked.
WriteHeader(t) ==
  /\ Goto(t, "hdr", "check")
  /\ buf' = [buf EXCEPT !.cmd = Cmd(t)]
  /\ UNCHANGED <<remote_cmd, haltState, ClientConnected, main_socket, locals, ok,
                 dump, gui, app, client, net, ps2, ops, faults>>

CheckBusy(t) ==
  /\ Goto(t, "check", IF ClientConnected = 0 \/ remote_cmd # NONE THEN "box" ELSE "claim")
  /\ UNCHANGED <<ntpb, locals, ok, dump, gui, app, client, net, ps2, ops, faults>>

Claim(t) ==
  /\ Goto(t, "claim", "send")
  /\ remote_cmd' = Cmd(t)
  /\ buf' = IF Cmd(t) = "DUMP" THEN [buf EXCEPT !.body = Size(t)] ELSE buf
  /\ UNCHANGED <<haltState, ClientConnected, main_socket, locals, ok, dump, gui, app,
                 client, net, ps2, ops, faults>>

SendRequest(t) ==
  /\ \/ /\ remote_cmd = NONE
        /\ Goto(t, "send", "err")
        /\ UNCHANGED <<dsize, sk, toSrv, link>>
     \/ /\ remote_cmd # NONE
        /\ dsize' = IF remote_cmd = "DUMP" THEN [dsize EXCEPT ![t] = buf.body] ELSE dsize
        /\ sk' = [sk EXCEPT ![t] = main_socket]
        /\ Transmit(t, "send", buf, "ack")
  /\ UNCHANGED <<ntpb, wpos, endT, ok, dump, gui, app, client, open, peer, toCli,
                 ps2, ops, faults>>

ReceiveAck(t) ==
  /\ \/ Receive(t, "ack", "recv")
     \/ /\ Broken(sk[t]) \/ (link = "gone" /\ toCli = <<>>)
        /\ Goto(t, "ack", "box")
        /\ UNCHANGED <<buf, toCli>>
  /\ UNCHANGED <<remote_cmd, haltState, ClientConnected, main_socket, locals, ok, dump,
                 gui, app, client, open, peer, link, toSrv, ps2, ops, faults>>

-----------------------------------------------------------------------------
(* SendReceiveThread: the reply loop.                                      *)

\* In the loop only a negative recv() is an error: from a peer that is gone
\* it returns 0 (or never returns), and the thread makes no progress.
ReceivePacket(t) ==
  /\ \/ Receive(t, "recv", "parse")
     \/ /\ Broken(sk[t])
        /\ Goto(t, "recv", "box")
        /\ UNCHANGED <<buf, toCli>>
  /\ UNCHANGED <<remote_cmd, haltState, ClientConnected, main_socket, locals, ok, dump,
                 gui, app, client, open, peer, link, toSrv, ps2, ops, faults>>

\* The FILE of dump thread d is closed; closing it again is undefined.
Fclose(d) ==
  /\ fh' = [fh EXCEPT ![d] = "closed"]
  /\ \/ app' = app
     \/ fh[d] = "closed" /\ app' = "crashed"

\* NTPBCMD_SEND_DUMP: the block is appended to the dump file, or copied to the
\* start of outBuffer; without either the copy goes to a null pointer.
StoreBlock(t) ==
  /\ buf.cmd = "SEND_DUMP"
  /\ \/ /\ wpos[t] + 1 > dsize[t]
        /\ Goto(t, "parse", "box")
        /\ UNCHANGED <<file, wpos, app>>
     \/ /\ wpos[t] + 1 <= dsize[t]
        /\ t = GUI /\ gcmd = "DUMP"
        /\ file' = [file EXCEPT ![GUI] = <<buf.body>>]
        /\ wpos' = [wpos EXCEPT ![t] = @ + 1]
        /\ Goto(t, "parse", "bar")
        /\ UNCHANGED app
     \/ /\ wpos[t] + 1 <= dsize[t]
        /\ t # GUI /\ dumpInfo.fh # NoThread
        /\ \/ fh[dumpInfo.fh] = "open"
              /\ file' = [file EXCEPT ![dumpInfo.fh] = Append(@, buf.body)]
              /\ UNCHANGED app
           \/ fh[dumpInfo.fh] # "open" /\ app' \in {"running", "crashed"} /\ UNCHANGED file
        /\ wpos' = [wpos EXCEPT ![t] = @ + 1]
        /\ Goto(t, "parse", "bar")
     \* outBuffer is null, or dump_size was never assigned
     \/ /\ IF t = GUI THEN gcmd # "DUMP"
                      ELSE dumpInfo.fh = NoThread /\ wpos[t] + 1 <= dsize[t]
        /\ Goto(t, "parse", "box")
        /\ app' = "crashed"
        /\ UNCHANGED <<file, wpos>>
  /\ UNCHANGED <<endT, fh>>

EndTransmit(t) ==
  /\ buf.cmd = "END_TRANSMIT"
  /\ Goto(t, "parse", "reply")
  /\ endT' = [endT EXCEPT ![t] = TRUE]
  /\ IF t # GUI /\ dumpInfo.fh # NoThread THEN Fclose(dumpInfo.fh) ELSE UNCHANGED <<fh, app>>
  /\ UNCHANGED <<file, wpos>>

OtherPacket(t) ==
  /\ buf.cmd \notin {"SEND_DUMP", "END_TRANSMIT"}
  /\ Goto(t, "parse", "reply")
  /\ UNCHANGED <<file, fh, wpos, endT, app>>

ParsePacket(t) ==
  /\ StoreBlock(t) \/ EndTransmit(t) \/ OtherPacket(t)
  /\ UNCHANGED <<ntpb, sk, dsize, ok, dumpInfo, gui, client, net, ps2, ops, faults>>

\* UpdateProgressBar sends a message to the GUI thread and waits for it.
StepBar(t, from, to) ==
  /\ CanPump(t)
  /\ Goto(t, from, to)
  /\ UNCHANGED <<ntpb, locals, ok, dump, gui, app, client, net, ps2, ops, faults>>

Reply(t) ==
  /\ buf' = [buf EXCEPT !.body = 0]
  /\ Transmit(t, "reply", buf', IF endT[t] THEN "bar2" ELSE "recv")
  /\ sk' = [sk EXCEPT ![t] = main_socket]
  /\ UNCHANGED <<remote_cmd, haltState, ClientConnected, main_socket, dsize, wpos, endT,
                 ok, dump, gui, app, client, open, peer, toCli, ps2, ops, faults>>

Leave_Bug(t) == IF t = GUI THEN "ret" ELSE "idle"    \* the dump does not notify

\* Where a thread goes with its result: the GUI thread back to the caller, a
\* dump thread to SendMessage if the dump asked for it, otherwise it ends.
Leave(t) == IF t = GUI THEN "ret" ELSE IF dumpInfo.notify THEN "notify" ELSE "idle"

\* The local variables die with the activation (and start as 0 in the next).
Locals0(t) ==
  /\ dsize' = [dsize EXCEPT ![t] = 0]
  /\ wpos'  = [wpos EXCEPT ![t] = 0]
  /\ endT'  = [endT EXCEPT ![t] = FALSE]
  /\ sk'    = [sk EXCEPT ![t] = NoSock]

Release(t) ==
  /\ Goto(t, "rel", Leave(t))
  /\ remote_cmd' = NONE
  /\ ok' = [ok EXCEPT ![t] = TRUE]
  /\ Locals0(t)
  /\ UNCHANGED <<buf, haltState, ClientConnected, main_socket, dump, gui, app,
                 client, net, ps2, ops, faults>>

-----------------------------------------------------------------------------
(* The error path, ntpbShutdown and CreateThread.                          *)

DismissBox(t) ==
  /\ Goto(t, "box", "err")
  /\ UNCHANGED <<ntpb, locals, ok, dump, gui, app, client, net, ps2, ops, faults>>

ErrorRelease_Bug(t) ==                   \* no remote_cmd = NONE on the error path
  /\ Goto(t, "err", "bar3")
  /\ UNCHANGED <<ntpb, locals, ok, dump, gui, app, client, net, ps2, ops, faults>>

ErrorRelease(t) ==
  /\ Goto(t, "err", "bar3")
  /\ remote_cmd' = NONE
  /\ UNCHANGED <<buf, haltState, ClientConnected, main_socket, locals, ok, dump, gui,
                 app, client, net, ps2, ops, faults>>

ErrorClose(t) ==
  /\ Goto(t, "close", "shut")
  /\ CloseMain
  /\ ClientConnected' = 0
  /\ IF t # GUI /\ dumpInfo.fh # NoThread THEN Fclose(dumpInfo.fh) ELSE UNCHANGED <<fh, app>>
  /\ UNCHANGED <<buf, remote_cmd, haltState, main_socket, locals, ok, dumpInfo, file,
                 gui, client, peer, toSrv, toCli, ps2, ops, faults>>

\* ntpbShutdown asks before it kills anything if the PS2 is believed halted or
\* a command is believed to be running.
ShutdownAsk(t) ==
  /\ Goto(t, "shut", IF haltState = 1 \/ remote_cmd # NONE THEN "prompt" ELSE "term")
  /\ UNCHANGED <<ntpb, locals, ok, dump, gui, app, client, net, ps2, ops, faults>>

\* The callers: the error path ignores a refusal, ClientReconnect and WM_CLOSE
\* return on it.
Refused(t) ==
  IF t = GUI /\ task \in {"reconnect", "testip", "close"} THEN "ret" ELSE "spawn"

ShutdownAnswer(t) ==
  /\ \/ MayAbort /\ Goto(t, "prompt", Refused(t))   \* IDABORT
     \/ Goto(t, "prompt", "shut")                   \* IDRETRY
     \/ Goto(t, "prompt", "term")                   \* IDIGNORE
  /\ ok' = [ok EXCEPT ![t] = FALSE]
  /\ UNCHANGED <<ntpb, locals, dump, gui, app, client, net, ps2, ops, faults>>

Terminate_Bug(c) == UNCHANGED <<cpc, csock>>         \* the old thread lives on

\* TerminateThread(clientThid, 0).
Terminate(c) ==
  /\ cpc' = [cpc EXCEPT ![c] = "dead"]
  /\ csock' = [csock EXCEPT ![c] = NoSock]

\* TerminateThread(clientThid), then both sockets are closed.  A socket the
\* killed thread had connected but not yet published has no owner any more.
ShutdownKill(t) ==
  /\ IF t = GUI /\ task = "close"
     THEN Goto(t, "term", "idle") /\ app' = "closed"
     ELSE Goto(t, "term", "spawn") /\ UNCHANGED app
  /\ Terminate(clientThid)
  /\ open' = open \ {main_socket, csock[clientThid]}
  /\ link' = IF peer \in open \ open' THEN "reset" ELSE link
  /\ udpHolder' = IF udpHolder = udpSock THEN NoThread ELSE udpHolder
  /\ UNCHANGED <<ntpb, locals, ok, dump, gui, clientThid, udpSock, peer, toSrv, toCli,
                 ps2, ops, faults>>

SpawnClient(t) ==
  /\ Goto(t, "spawn", Leave(t))
  /\ \E c \in ClientThreads :
       /\ cpc[c] = "dead"
       /\ cpc' = [cpc EXCEPT ![c] = "init"]
       /\ clientThid' = c
  \* ClientReconnect reports success as soon as the thread exists
  /\ ok' = [ok EXCEPT ![t] = t = GUI /\ task \in {"reconnect", "testip"}]
  /\ Locals0(t)
  /\ UNCHANGED <<ntpb, dump, gui, app, csock, udpHolder, udpSock, net, ps2,
                 ops, faults>>

SendReceive(t) ==
  \/ WriteHeader(t) \/ CheckBusy(t) \/ Claim(t) \/ SendRequest(t) \/ ReceiveAck(t)
  \/ ReceivePacket(t) \/ ParsePacket(t) \/ StepBar(t, "bar", "reply") \/ Reply(t)
  \/ StepBar(t, "bar2", "rel") \/ Release(t)
  \/ DismissBox(t) \/ ErrorRelease(t) \/ StepBar(t, "bar3", "close") \/ ErrorClose(t)
  \/ ShutdownAsk(t) \/ ShutdownAnswer(t) \/ ShutdownKill(t) \/ SpawnClient(t)

-----------------------------------------------------------------------------
(* The GUI thread.                                                         *)

\* A user who follows the ReadMe starts nothing while a dump is under way.
UserMay ==
  /\ ops < MaxOps /\ ops' = ops + 1
  /\ Patient => \A t \in IoThreads : pc[t] = "idle"

Call(from, cmd, why) ==
  /\ Goto(GUI, from, "hdr")
  /\ gcmd' = cmd
  /\ task' = why

Flip_Bug(h) == h + 1                     \* haltState++

\* haltState ^= 1
Flip(h) == 1 - h

\* SysHalt(halt) past its early return: haltState is flipped before the command
\* is sent.
SysHalt(from, halt, why) ==
  /\ haltState # halt
  /\ haltState' = Flip(haltState)
  /\ Call(from, IF haltState' = 1 THEN "HALT" ELSE "RESUME", why)
  /\ UNCHANGED <<buf, remote_cmd, ClientConnected, main_socket, locals>>

UserHaltResume ==
  /\ UserMay
  /\ \E halt \in {0, 1} : SysHalt("idle", halt, "syshalt")
  /\ UNCHANGED <<ok, dump, tabDisabled, app, client, net, ps2, faults>>

\* The memory viewer, reached through the tab control.
UserReadMem ==
  /\ UserMay
  /\ ~tabDisabled
  /\ Call("idle", "DUMP", "readmem")
  /\ file' = [file EXCEPT ![GUI] = <<>>]
  /\ UNCHANGED <<ntpb, locals, ok, dumpInfo, fh, tabDisabled, app, client, net, ps2, faults>>

\* DO_SEARCH_CMD: halt the PS2 first if it is to wait.
UserSearch ==
  /\ UserMay
  /\ ~tabDisabled
  /\ IF PS2Wait /\ haltState = 0
     THEN SysHalt("idle", 1, "search")
     ELSE /\ Goto(GUI, "idle", "memset")
          /\ task' = "search"
          /\ UNCHANGED <<ntpb, locals, gcmd>>
  /\ UNCHANGED <<ok, dump, tabDisabled, app, client, net, ps2, faults>>

\* TAKE_DUMP_CMD: no notification, and nothing is disabled.
UserDump ==
  /\ UserMay
  /\ ~tabDisabled
  /\ Goto(GUI, "idle", "memset")
  /\ task' = "dump"
  /\ UNCHANGED <<ntpb, locals, ok, dump, gcmd, tabDisabled, app, client, net, ps2, faults>>

\* DumpRAM clears its static NTPB_IO whether or not a thread is using it ...
DumpRAMClear ==
  /\ Goto(GUI, "memset", "fill")
  /\ dumpInfo' = NoInfo
  /\ UNCHANGED <<ntpb, locals, ok, file, fh, gui, app, client, net, ps2, ops, faults>>

Fopen_Bug(d) ==                          \* fopen(dump_file, "ab")
  fh' = [fh EXCEPT ![d] = "open"] /\ UNCHANGED file

\* fopen(dump_file, "wb")
Fopen(d) ==
  /\ file' = [file EXCEPT ![d] = <<>>]
  /\ fh' = [fh EXCEPT ![d] = "open"]

\* ... then either refuses (an inverted range, a file that cannot be created),
\* which leaves a waiting PS2 halted,
DumpRAMRefuse ==
  /\ Goto(GUI, "fill", "idle")
  /\ task' = "none"
  /\ UNCHANGED <<ntpb, locals, ok, dump, gcmd, tabDisabled, app, client, net, ps2, ops, faults>>

\* or opens the file, fills the struct in and starts a thread on it.
DumpRAMStart ==
  /\ Running /\ pc[GUI] = "fill"
  /\ \E t \in IoThreads :
       /\ pc[t] = "idle"
       /\ pc' = [pc EXCEPT ![GUI] = IF task = "search" THEN "disable" ELSE "idle", ![t] = "hdr"]
       /\ dumpInfo' = [cmd |-> "DUMP", notify |-> task = "search", fh |-> t]
       /\ Fopen(t)
  /\ task' = "none"
  /\ UNCHANGED <<ntpb, locals, ok, gcmd, tabDisabled, app, client, net, ps2, ops, faults>>

\* Only after the thread was started does DO_SEARCH_CMD lock the tab.
DisableTab ==
  /\ Goto(GUI, "disable", "idle")
  /\ tabDisabled' = TRUE
  /\ UNCHANGED <<ntpb, locals, ok, dump, task, gcmd, app, client, net, ps2, ops, faults>>

AfterNotify_Bug == "err"                 \* no `return 1' before the label error:

\* Once SendMessage returns, the dump thread returns too.
AfterNotify == "idle"

\* SEARCH_CONTINUE_VCMD: unlock the tab, process the dump, let a waiting PS2 go
\* on.  Its command from inside a message box, within another handler, is left out.
HandleContinue ==
  \E t \in IoThreads :
    /\ Running /\ pc[t] = "notify" /\ pc[GUI] \in Pumps
    /\ tabDisabled' = FALSE
    /\ IF PS2Wait /\ haltState = 1
       THEN /\ pc[GUI] = "idle"
            /\ haltState' = Flip(haltState)
            /\ gcmd' = "RESUME" /\ task' = "syshalt"
            /\ pc' = [pc EXCEPT ![t] = AfterNotify, ![GUI] = "hdr"]
       ELSE /\ pc' = [pc EXCEPT ![t] = AfterNotify]
            /\ UNCHANGED <<haltState, gcmd, task>>
    /\ UNCHANGED <<buf, remote_cmd, ClientConnected, main_socket, locals, ok, dump, app, client,
                   net, ps2, ops, faults>>

\* ClientReconnect, from the Run menu (which unlocks the tab) or from Test IP.
UserReconnect ==
  /\ UserMay
  /\ Goto(GUI, "idle", "close")
  /\ \/ task' = "reconnect" /\ tabDisabled' = FALSE
     \/ task' = "testip" /\ UNCHANGED tabDisabled
  /\ remote_cmd' = NONE
  /\ UNCHANGED <<buf, haltState, ClientConnected, main_socket, locals, ok, dump, gcmd,
                 app, client, net, ps2, faults>>

UserClose ==
  /\ UserMay
  /\ Goto(GUI, "idle", "shut")
  /\ task' = "close"
  /\ UNCHANGED <<ntpb, locals, ok, dump, gcmd, tabDisabled, app, client, net, ps2, faults>>

\* MNU_EXIT destroys the window without asking.
UserExit ==
  /\ UserMay
  /\ Running /\ pc[GUI] = "idle"
  /\ app' = "killed"
  /\ UNCHANGED <<ntpb, locals, pc, ok, dump, gui, client, net, ps2, faults>>

HaltAfter_Bug(r) == haltState            \* no haltState = 0 on failure

\* What SysHalt leaves in haltState when its command returned r.
HaltAfter(r) == IF r THEN haltState ELSE 0

\* Back in the caller.  SysHalt forgets a halt whose command failed; a search
\* goes on to DumpRAM whether its halt worked or not.
GuiReturn ==
  /\ Goto(GUI, "ret", IF task = "search" THEN "memset" ELSE "idle")
  /\ haltState' = IF task \in {"syshalt", "search"} THEN HaltAfter(ok[GUI]) ELSE haltState
  /\ task' = IF task = "search" THEN "search" ELSE "none"
  /\ UNCHANGED <<buf, remote_cmd, ClientConnected, main_socket, locals, ok, dump, gcmd,
                 tabDisabled, app, client, net, ps2, ops, faults>>

User ==
  UserHaltResume \/ UserReadMem \/ UserSearch \/ UserDump \/ UserReconnect
  \/ UserClose \/ UserExit

GuiStep ==
  DumpRAMClear \/ DumpRAMRefuse \/ DumpRAMStart \/ DisableTab \/ HandleContinue \/ GuiReturn

-----------------------------------------------------------------------------
(* clientThread.                                                           *)

ClientGoto(c, from, to) == Running /\ cpc[c] = from /\ cpc' = [cpc EXCEPT ![c] = to]

\* A new thread forgets the old connection and tries to bind the UDP port.
ClientInit(c) ==
  /\ ClientGoto(c, "init", "top")
  /\ CloseMain
  /\ ClientConnected' = 0
  /\ udpSock' = c
  /\ udpHolder' = IF udpHolder = NoThread THEN c ELSE udpHolder
  /\ UNCHANGED <<buf, remote_cmd, haltState, main_socket, locals, pc, ok, dump, gui, app,
                 csock, clientThid, peer, toSrv, toCli, ps2, ops, faults>>

\* InitWS2 fails: the thread says so and ends, before it touches any socket.
ClientInitFails(c) ==
  /\ WinsockFails
  /\ ClientGoto(c, "init", "dead")
  /\ UNCHANGED <<ntpb, locals, pc, ok, dump, gui, app, csock, clientThid, udpHolder,
                 udpSock, net, ps2, ops, faults>>

ClientTop_Bug(c) ==                      \* netlog is served before reconnecting
  /\ \/ udpHolder = c /\ ClientGoto(c, "top", "select")
     \/ udpHolder # c /\ ClientConnected = 0 /\ ClientGoto(c, "top", "conn")
  /\ UNCHANGED <<ntpb, locals, pc, ok, dump, gui, app, csock, clientThid, udpHolder,
                 udpSock, net, ps2, ops, faults>>

\* The head of the loop: connect, or wait for a netlog datagram without a limit;
\* without a bound UDP socket a connected thread spins here.
ClientTop(c) ==
  /\ \/ ClientConnected = 0 /\ pc[GUI] \in Pumps /\ ClientGoto(c, "top", "conn")
     \/ ClientConnected = 1 /\ udpHolder = c /\ ClientGoto(c, "top", "select")
     \/ ClientConnected = 1 /\ udpHolder # c /\ ClientGoto(c, "top", "top")
  /\ UNCHANGED <<ntpb, locals, pc, ok, dump, gui, app, csock, clientThid, udpHolder,
                 udpSock, net, ps2, ops, faults>>

\* Handles no thread can name any more (never used, closed, or leaked).
FreeSocks ==
  Socks \ ({main_socket} \cup {csock[c] : c \in ClientThreads} \cup {sk[t] : t \in Threads})

\* connect(); the PS2 serves the connection it accepted last.  A connect() that
\* fails closes its socket, sleeps half a second and comes back here: a stutter.
ClientConnect(c) ==
  /\ ClientGoto(c, "conn", "up")
  /\ FreeSocks # {}
  /\ LET s == CHOOSE f \in FreeSocks : TRUE
     IN /\ csock' = [csock EXCEPT ![c] = s]
        /\ open' = open \cup {s}
        /\ peer' = s
  /\ link' = "up"
  /\ toSrv' = <<>> /\ toCli' = <<>>
  /\ srv' = "idle"
  /\ UNCHANGED <<ntpb, locals, pc, ok, dump, gui, app, clientThid, udpHolder, udpSock,
                 sNext, sTodo, halted, ops, faults>>

\* "Client connected..." is shown before main_socket is assigned.
ClientShow(c) ==
  /\ pc[GUI] \in Pumps
  /\ ClientGoto(c, "up", "set")
  /\ UNCHANGED <<ntpb, locals, pc, ok, dump, gui, app, csock, clientThid, udpHolder,
                 udpSock, net, ps2, ops, faults>>

ClientPublish(c) ==
  /\ ClientGoto(c, "set", "top")
  /\ main_socket' = csock[c]
  /\ ClientConnected' = 1
  /\ csock' = [csock EXCEPT ![c] = NoSock]
  /\ UNCHANGED <<buf, remote_cmd, haltState, locals, pc, ok, dump, gui, app, clientThid,
                 udpHolder, udpSock, net, ps2, ops, faults>>

\* A datagram of the PS2's netlog arrives; nothing makes the PS2 send one.
NetlogPacket(c) ==
  /\ ClientGoto(c, "select", "top")
  /\ UNCHANGED <<ntpb, locals, pc, ok, dump, gui, app, csock, clientThid, udpHolder,
                 udpSock, net, ps2, ops, faults>>

ClientStep(c) ==
  \/ ClientInit(c) \/ ClientInitFails(c) \/ ClientTop(c) \/ ClientConnect(c)
  \/ ClientShow(c) \/ ClientPublish(c)

-----------------------------------------------------------------------------
(* The PS2 (external): acknowledge a command, carry it out, send the data  *)
(* of a dump packet by packet, each answered by the client, then           *)
(* END_TRANSMIT.                                                           *)

SrvCommand ==
  /\ Running
  /\ srv = "idle" /\ toSrv # <<>>
  /\ LET m == Head(toSrv)
     IN /\ halted' = IF m.cmd = "HALT" THEN TRUE
                     ELSE IF m.cmd = "RESUME" THEN FALSE ELSE halted
        /\ sTodo' = IF m.cmd = "DUMP" THEN m.body ELSE 0
        /\ IF m.cmd \in Commands /\ link = "up"
           THEN toCli' = Append(toCli, Packet("ACK", 0)) /\ srv' = "send"
           ELSE UNCHANGED <<toCli, srv>>
  /\ sNext' = 1
  /\ toSrv' = Tail(toSrv)
  /\ UNCHANGED <<ntpb, locals, pc, ok, dump, gui, app, client, open, peer, link, ops, faults>>

SrvSend ==
  /\ Running
  /\ srv = "send" /\ link = "up"
  /\ Pipelined \/ toCli = <<>>
  /\ IF sNext <= sTodo
     THEN toCli' = Append(toCli, Packet("SEND_DUMP", sNext)) /\ srv' = "wait"
     ELSE toCli' = Append(toCli, Packet("END_TRANSMIT", 0)) /\ srv' = "last"
  /\ UNCHANGED <<ntpb, locals, pc, ok, dump, gui, app, client, open, peer, link, toSrv,
                 sNext, sTodo, halted, ops, faults>>

SrvReply ==
  /\ Running
  /\ srv \in {"wait", "last"} /\ toSrv # <<>>
  /\ srv' = IF srv = "wait" THEN "send" ELSE "idle"
  /\ sNext' = IF srv = "wait" THEN sNext + 1 ELSE 1
  /\ sTodo' = IF srv = "wait" THEN sTodo ELSE 0
  /\ toSrv' = Tail(toSrv)
  /\ UNCHANGED <<ntpb, locals, pc, ok, dump, gui, app, client, open, peer, link, toCli,
                 halted, ops, faults>>

PS2Step == SrvCommand \/ SrvSend \/ SrvReply

\* The connection is reset, or the PS2 closes it or vanishes ("gone"), or the
\* PS2 restarts.
LinkFault ==
  /\ Running /\ faults < MaxFaults /\ faults' = faults + 1
  /\ link = "up"
  /\ \/ "reset" \in Faults /\ link' = "reset" /\ UNCHANGED <<halted, srv>>
     \/ "gone" \in Faults /\ link' = "gone" /\ UNCHANGED <<halted, srv>>
     \/ "reboot" \in Faults /\ link' = "reset" /\ halted' = FALSE /\ srv' = "idle"
  /\ UNCHANGED <<ntpb, locals, pc, ok, dump, gui, app, client, open, peer, toSrv, toCli,
                 sNext, sTodo, ops>>

\* The process has ended, or no client thread lives and the message loop waits
\* for a user who starts nothing more.
Ended ==
  /\ ~Running \/ \A t \in Threads, c \in ClientThreads : pc[t] = "idle" /\ cpc[c] = "dead"
  /\ UNCHANGED vars

-----------------------------------------------------------------------------
Init ==
  /\ buf = Packet(NONE, 0)
  /\ remote_cmd = NONE /\ haltState = 0 /\ ClientConnected = 0 /\ main_socket = NoSock
  /\ dumpInfo = NoInfo
  /\ pc = [t \in Threads |-> "idle"]
  /\ sk = [t \in Threads |-> NoSock]
  /\ dsize = [t \in Threads |-> 0] /\ wpos = [t \in Threads |-> 0]
  /\ endT = [t \in Threads |-> FALSE] /\ ok = [t \in Threads |-> FALSE]
  /\ file = [t \in Threads |-> <<>>]
  /\ fh = [t \in Threads |-> "none"]
  /\ task = "none" /\ gcmd = NONE /\ tabDisabled = FALSE /\ app = "running"
  /\ \E c \in ClientThreads :
       /\ clientThid = c
       /\ cpc = [d \in ClientThreads |-> IF d = c THEN "init" ELSE "dead"]
  /\ csock = [c \in ClientThreads |-> NoSock]
  /\ udpHolder = NoThread /\ udpSock = NoThread
  /\ open = {} /\ peer = NoSock /\ link = "reset" /\ toSrv = <<>> /\ toCli = <<>>
  /\ srv = "idle" /\ sNext = 1 /\ sTodo = 0 /\ halted = FALSE
  /\ ops = 0 /\ faults = 0

Next ==
  \/ \E t \in Threads : SendReceive(t)
  \/ User \/ GuiStep
  \/ \E c \in ClientThreads : ClientStep(c) \/ NetlogPacket(c)
  \/ PS2Step \/ LinkFault \/ Ended

Spec == Init /\ [][Next]_vars

\* Threads are scheduled, the PS2 answers while the link is up, a message box is
\* dismissed in the end, and nobody answers Retry for ever.  Neither what the
\* user starts, nor a fault, nor a netlog datagram ever has to happen.
Fairness ==
  /\ \A t \in Threads : WF_vars(SendReceive(t))
  /\ WF_vars(GuiStep)
  /\ \A c \in ClientThreads : WF_vars(ClientStep(c))
  /\ WF_vars(PS2Step)
  /\ \A t \in Threads : SF_vars(ShutdownAnswer(t) /\ pc'[t] # "shut")

FairSpec == Spec /\ Fairness

-----------------------------------------------------------------------------
(* Properties.                                                             *)

Labels ==
  {"idle", "hdr", "check", "claim", "send", "ack", "recv", "parse", "bar", "reply",
   "bar2", "rel", "box", "err", "bar3", "close", "shut", "prompt", "term", "spawn",
   "notify", "ret", "memset", "fill", "disable"}

ClientLabels == {"dead", "init", "top", "conn", "up", "set", "select"}
Tasks == {"none", "syshalt", "readmem", "search", "dump", "reconnect", "testip", "close"}
Packets == [cmd : Commands \cup {NONE, "ACK", "SEND_DUMP", "END_TRANSMIT"}, body : Nat]

NtpbType ==
  /\ buf \in Packets
  /\ remote_cmd \in Commands \cup {NONE}
  /\ haltState \in {0, 1} /\ ClientConnected \in {0, 1}
  /\ main_socket \in Socks \cup {NoSock}

ThreadType ==
  /\ pc \in [Threads -> Labels]
  /\ ok \in [Threads -> BOOLEAN]

LocalsType ==
  /\ sk \in [Threads -> Socks \cup {NoSock}]
  /\ dsize \in [Threads -> Nat] /\ wpos \in [Threads -> Nat]
  /\ endT \in [Threads -> BOOLEAN]

DumpType ==
  /\ dumpInfo \in [cmd : {NONE, "DUMP"}, notify : BOOLEAN, fh : IoThreads \cup {NoThread}]
  /\ file \in [Threads -> Seq(Nat)]
  /\ fh \in [Threads -> {"none", "open", "closed"}]

GuiType == task \in Tasks /\ gcmd \in Commands \cup {NONE} /\ tabDisabled \in BOOLEAN

ClientType ==
  /\ clientThid \in ClientThreads
  /\ cpc \in [ClientThreads -> ClientLabels]
  /\ csock \in [ClientThreads -> Socks \cup {NoSock}]
  /\ udpHolder \in ClientThreads \cup {NoThread}
  /\ udpSock \in ClientThreads \cup {NoThread}

NetType ==
  /\ open \subseteq Socks /\ peer \in Socks \cup {NoSock}
  /\ link \in {"up", "reset", "gone"}
  /\ toSrv \in Seq(Packets) /\ toCli \in Seq(Packets)

PS2Type ==
  /\ srv \in {"idle", "send", "wait", "last"}
  /\ sNext \in Nat /\ sTodo \in Nat /\ halted \in BOOLEAN

AppType == app \in {"running", "closed", "killed", "crashed"}

\* The shape of the state.
TypeOK ==
  /\ NtpbType /\ ThreadType /\ LocalsType /\ DumpType /\ GuiType
  /\ AppType /\ ClientType /\ NetType /\ PS2Type
  /\ ops \in 0..MaxOps /\ faults \in 0..MaxFaults

\* The labels at which a thread is inside SendReceiveThread, ClientReconnect or
\* ntpbShutdown.
Comms == Labels \ {"idle", "notify", "ret", "memset", "fill", "disable"}

\* No lock guards the packet buffer, remote_cmd and main_socket.  As long as the
\* user leaves the program alone while it dumps, two threads are never at work
\* on them, although the handler of a finished dump starts a command itself.
OneCommand ==
  Patient => \A t, u \in Threads : pc[t] \in Comms /\ pc[u] \in Comms => t = u

\* Whatever overlaps and whatever fails, the client is not left "busy" when no
\* thread is in a command: remote_cmd would refuse every later one.
NeverStuckBusy ==
  Running /\ (\A t \in Threads : pc[t] \notin Comms) => remote_cmd = NONE

\* A dump reported as done holds every block, once and in order, in spite of
\* connections lost and replaced in the middle of earlier ones.
DumpComplete ==
  Running =>
    \A t \in IoThreads :
      pc[t] \in {"bar2", "rel"} \/ (pc[t] = "notify" /\ ok[t]) => file[t] = Blocks(NBlocks)

\* What the Resume menu entry and ntpbShutdown's question rest on: outside
\* SysHalt, haltState = 1 means that the PS2 is halted.
InHalt ==
  task \in {"syshalt", "search"} /\ gcmd = "HALT" /\ pc[GUI] \in Comms \cup {"ret"}

HaltBelief == Running /\ haltState = 1 /\ ~InHalt => halted

\* The search tab is locked only while a dump thread that will notify it exists.
LockedTabHasWaker ==
  Running /\ tabDisabled => dumpInfo.notify /\ \E t \in IoThreads : pc[t] # "idle"

\* One client thread at a time connects and owns netlog.
OneClientThread ==
  Running => \A c, d \in ClientThreads : cpc[c] # "dead" /\ cpc[d] # "dead" => c = d

\* A search gets its tab back.
SearchEnds == tabDisabled ~> (~tabDisabled \/ ~Running)

\* "reconnect automatically (or try to) when disconnected"
AutoReconnect == (ClientConnected = 0) ~> (ClientConnected = 1 \/ ~Running)

\* The labels at which a command has yet to use its connection.
OnWire == {"hdr", "check", "claim", "send", "ack", "recv", "parse", "bar", "reply"}

\* "expect a command error followed by the status bar updating connection info"
\* (ReadMe, Rev 23): a connection reset under a command is replaced.  A peer that
\* closes it instead makes recv() return 0, which the reply loop takes for data:
\* that one is not.
ResetLinkReplaced ==
  (link = "reset" /\ \E t \in Threads : pc[t] \in OnWire) ~> (link = "up" \/ ~Running)
=============================================================================
