--------------------------- MODULE NtpbLine_proofs ---------------------------
(***************************************************************************)
(* What the two ends of the NTPB link know of each other, for every number *)
(* of threads, sockets, blocks, operations and faults: one client thread   *)
(* (OneClientThread), a dump reported as done is complete (DumpComplete)   *)
(* and a PS2 believed to be halted is (HaltBelief).  The user leaves the   *)
(* program alone while it dumps and does not answer Abort (Careful).       *)
(*                                                                         *)
(* The invariants build on each other: Excl of NtpbClient_proofs (who may  *)
(* be in lib_ntpb.c), OneClient, Sockets (which socket main_socket is),    *)
(* Own (what a thread knows of its own command), Line (where on the line   *)
(* the packets of that command are), Whole and Belief.                     *)
(***************************************************************************)
EXTENDS NtpbClient_proofs

USE DEF Commands, Threads, Running, NONE, Packet

Careful == Patient = TRUE /\ MayAbort = FALSE

\* The one client thread that may live is the one ntpbShutdown would kill, and
\* it has been killed when a new one is started.
OneClient ==
  /\ \A c \in ClientThreads : cpc[c] # "dead" => c = clientThid
  /\ (\E t \in Threads : pc[t] = "spawn") => \A c \in ClientThreads : cpc[c] = "dead"

\* While main_socket is open it is the connection the PS2 serves, and the client
\* thread rests.  A connection that is not published yet carries nothing, and
\* there is none when a client thread is about to be started.
Sockets ==
  /\ main_socket \in open =>
       /\ peer = main_socket /\ ClientConnected = 1
       /\ \A c \in ClientThreads : cpc[c] \in {"dead", "top", "select"}
  /\ \A c \in ClientThreads : cpc[c] \in {"up", "set"} =>
       /\ peer = csock[c] /\ peer \in open /\ main_socket # peer
       /\ toSrv = <<>> /\ toCli = <<>> /\ srv = "idle"
  /\ (\E t \in Threads : pc[t] = "spawn") => main_socket \notin open

\* A command before it is on its way, on its way, in trouble.
Before  == {"hdr", "check", "claim", "send"}
Busy    == {"ack", "recv", "parse", "bar", "reply"}
Trouble == {"box", "err", "bar3", "close"}

\* The packet that asks for t's command, and one that answers the PS2's.
IsRequest(t, p) == p.cmd = Cmd(t) /\ (Cmd(t) = "DUMP" => p.body = Size(t))
IsReply(p) == p.cmd \notin Commands

\* What a thread knows of its own command.
OwnOf(t) ==
  /\ pc[t] \in {"idle", "notify", "ret", "memset", "fill", "disable", "ack"} \cup Before =>
       wpos[t] = 0 /\ endT[t] = FALSE
  /\ pc[t] \in {"check", "claim"} => buf.cmd = Cmd(t)
  /\ pc[t] = "send" => IsRequest(t, buf)
  /\ pc[t] \in Busy => main_socket \in open /\ sk[t] = main_socket
  /\ t # GUI /\ pc[t] \in Before \cup Busy =>
       /\ dumpInfo.cmd = "DUMP" /\ dumpInfo.fh = t
       /\ endT[t] = FALSE => fh[t] = "open"
  /\ t # GUI /\ pc[t] \in Before \cup {"ack"} => file[t] = <<>>

Own == Running => \A t \in Threads : OwnOf(t)

\* The blocks a command asks for, and what the PS2 does when it carries it out.
Asked(t) == IF Cmd(t) = "DUMP" THEN Size(t) ELSE 0
CarriedOut(t) ==
  /\ sTodo = Asked(t) /\ wpos[t] <= sTodo
  /\ Cmd(t) = "HALT" => halted
  /\ t # GUI => file[t] = Blocks(wpos[t])

\* The packet the PS2 has sent and waits for the answer of.
Data(p) ==
  \/ srv = "wait" /\ sNext <= sTodo /\ p = Packet("SEND_DUMP", sNext)
  \/ srv = "last" /\ sNext > sTodo /\ p = Packet("END_TRANSMIT", 0)

\* The request has to pass the answer to an earlier command's last packet; a
\* peer that is gone takes it without an acknowledgement.
AtAck(t) ==
  \/ /\ Len(toCli) = 0
     /\ \/ srv = "last" /\ Len(toSrv) = 2 /\ IsReply(toSrv[1]) /\ IsRequest(t, toSrv[2])
        \/ srv = "idle" /\ Len(toSrv) = 1 /\ IsRequest(t, toSrv[1])
        \/ srv = "idle" /\ Len(toSrv) = 0
  \/ /\ Len(toSrv) = 0 /\ CarriedOut(t) /\ sNext = 1
     /\ \/ srv = "send" /\ Len(toCli) = 1
        \/ Len(toCli) = 2 /\ Data(toCli[2])

\* In the last case recv() took the first packet of data with the
\* acknowledgement: both ends wait for ever.
AtRecv(t) ==
  /\ CarriedOut(t) /\ endT[t] = FALSE
  /\ \/ srv = "send" /\ Len(toSrv) = 0 /\ Len(toCli) = 0 /\ sNext = wpos[t] + 1
     \/ srv = "wait" /\ Len(toSrv) = 1 /\ Len(toCli) = 0 /\ sNext = wpos[t]
     \/ Len(toSrv) = 0 /\ Len(toCli) = 1 /\ Data(toCli[1]) /\ sNext = wpos[t] + 1
     \/ srv \in {"wait", "last"} /\ Len(toSrv) = 0 /\ Len(toCli) = 0

AtParse(t) ==
  /\ CarriedOut(t) /\ endT[t] = FALSE
  /\ Len(toSrv) = 0 /\ Len(toCli) = 0
  /\ Data(buf) /\ sNext = wpos[t] + 1

AtReply(t) ==
  /\ CarriedOut(t)
  /\ Len(toSrv) = 0 /\ Len(toCli) = 0
  /\ \/ srv = "wait" /\ endT[t] = FALSE /\ buf.cmd = "SEND_DUMP" /\ sNext = wpos[t]
     \/ srv = "last" /\ endT[t] = TRUE /\ buf.cmd = "END_TRANSMIT" /\ wpos[t] = sTodo

At(t) ==
  /\ pc[t] = "ack" => AtAck(t)
  /\ pc[t] = "recv" => AtRecv(t)
  /\ pc[t] = "parse" => AtParse(t)
  /\ pc[t] \in {"bar", "reply"} => AtReply(t)

\* No command is on the line: at most the answer to the last packet.
Quiet ==
  /\ Len(toCli) = 0
  /\ \/ srv = "idle" /\ Len(toSrv) = 0
     \/ srv = "last" /\ Len(toSrv) = 1 /\ IsReply(toSrv[1])

\* The line, as long as its connection lives.
Line ==
  Running /\ main_socket \in open /\ link # "reset" =>
    /\ (\A t \in Threads : pc[t] \notin Busy \cup Trouble) => Quiet
    /\ \A t \in Threads : At(t)

\* A dump thread whose command has succeeded has the whole file.
Whole ==
  Running =>
    \A t \in IoThreads :
      pc[t] \in {"bar2", "rel"} \/ (pc[t] = "notify" /\ ok[t]) => file[t] = Blocks(NBlocks)

\* The PS2 is halted and no RESUME is under way.
StaysHalted == halted /\ \A i \in 1 .. Len(toSrv) : toSrv[i].cmd # "RESUME"

\* haltState is 1 only when the PS2 is halted and stays so, except while SysHalt
\* tries to halt it; a SysHalt that succeeds leaves it so.
Belief ==
  Running =>
    /\ haltState = 1 /\ ~InHalt => StaysHalted
    /\ InHalt /\ (pc[GUI] \in {"bar2", "rel"} \/ (pc[GUI] = "ret" /\ ok[GUI])) => StaysHalted
    /\ pc[GUI] \in Before /\ gcmd = "RESUME" => haltState = 0

-----------------------------------------------------------------------------
(* One client thread.                                                      *)

\* While the user leaves the program alone, a thread in lib_ntpb.c is alone there.
LEMMA Alone ==
  ASSUME Careful, Excl, NEW t \in Threads, NEW u \in Threads,
         pc[t] \in Comms, pc[u] \in Comms
  PROVE  t = u
BY ConstantsAssumption DEF Careful, Excl, Comms

\* Only ntpbShutdown and what follows it touch the client thread, and a thread
\* comes to CreateThread through ntpbShutdown alone.
LEMMA ClientKept ==
  ASSUME Careful, TypeOK, NEW t \in Threads, SendReceive(t)
  PROVE  \/ ShutdownKill(t) \/ SpawnClient(t)
         \/ UNCHANGED client /\ \A u \in Threads : pc'[u] = "spawn" => pc[u] = "spawn"
<1> USE DEF Careful, Goto, client
<1>a. pc \in [Threads -> Labels]
  BY DEF TypeOK, ThreadType
<1>1. CASE WriteHeader(t) \/ CheckBusy(t) \/ Claim(t) \/ SendRequest(t)
  BY <1>1, <1>a DEF WriteHeader, CheckBusy, Claim, SendRequest, Transmit
<1>2. CASE ReceiveAck(t) \/ ReceivePacket(t)
  BY <1>2, <1>a DEF ReceiveAck, ReceivePacket, Receive
<1>3. CASE ParsePacket(t)
  BY <1>3, <1>a DEF ParsePacket, StoreBlock, EndTransmit, OtherPacket
<1>4. CASE StepBar(t, "bar", "reply") \/ StepBar(t, "bar2", "rel") \/ StepBar(t, "bar3", "close")
  BY <1>4, <1>a DEF StepBar
<1>5. CASE Reply(t)
  <2>1. \E l \in {"box", "bar2", "recv"} : pc' = [pc EXCEPT ![t] = l]
    BY <1>5 DEF Reply, Transmit
  <2>2. UNCHANGED client
    BY <1>5 DEF Reply
  <2> QED
    BY <1>a, <2>1, <2>2
<1>6. CASE Release(t)
  BY <1>6, <1>a DEF Release, Leave
<1>7. CASE DismissBox(t) \/ ErrorRelease(t) \/ ErrorClose(t) \/ ShutdownAsk(t)
  BY <1>7, <1>a DEF DismissBox, ErrorRelease, ErrorClose, ShutdownAsk
<1>8. CASE ShutdownAnswer(t)
  BY <1>8, <1>a DEF ShutdownAnswer
<1> QED
  BY <1>1, <1>2, <1>3, <1>4, <1>5, <1>6, <1>7, <1>8 DEF SendReceive

\* The GUI thread does neither.
LEMMA GuiKeepsClient ==
  ASSUME TypeOK, User \/ GuiStep
  PROVE  /\ UNCHANGED client
         /\ \A u \in Threads : pc'[u] = "spawn" => pc[u] = "spawn"
<1>a. pc \in [Threads -> Labels] /\ GUI \in Threads /\ IoThreads \subseteq Threads
  BY DEF TypeOK, ThreadType
<1> USE DEF Goto
<1>1. CASE User
  <2>1. UNCHANGED client
    BY <1>1 DEF User, UserHaltResume, UserReadMem, UserSearch, UserDump, UserReconnect,
                UserClose, UserExit
  <2> QED
    BY <1>1, <1>a, <2>1, UserMoves
<1>2. CASE GuiStep
  <2>1. UNCHANGED client
    BY <1>2 DEF GuiStep, DumpRAMClear, DumpRAMRefuse, DumpRAMStart, DisableTab,
                HandleContinue, GuiReturn
  <2>2. CASE DumpRAMClear \/ DumpRAMRefuse \/ DisableTab \/ GuiReturn
    BY <1>a, <2>1, <2>2 DEF DumpRAMClear, DumpRAMRefuse, DisableTab, GuiReturn
  <2>3. CASE DumpRAMStart
    BY <1>a, <2>1, <2>3 DEF DumpRAMStart
  <2>4. CASE HandleContinue
    BY <1>a, <2>1, <2>4 DEF HandleContinue, AfterNotify
  <2> QED
    BY <1>2, <2>2, <2>3, <2>4 DEF GuiStep
<1> QED
  BY <1>1, <1>2

\* Each step keeps the client thread alone.
LEMMA OneClientStep ==
  ASSUME Careful, TypeOK, Excl, OneClient, [Next]_vars
  PROVE  OneClient'
<1>a. /\ pc \in [Threads -> Labels]
      /\ cpc \in [ClientThreads -> ClientLabels] /\ clientThid \in ClientThreads
  BY DEF TypeOK, ThreadType, ClientType
<1>1. ASSUME NEW t \in Threads, SendReceive(t) PROVE OneClient'
  <2>1. CASE ShutdownKill(t)
    <3>1. cpc' = [cpc EXCEPT ![clientThid] = "dead"] /\ clientThid' = clientThid
      BY <2>1 DEF ShutdownKill, Terminate
    <3>2. \A c \in ClientThreads : cpc'[c] = "dead"
      BY <1>a, <3>1 DEF OneClient
    <3> QED
      BY <3>2 DEF OneClient
  <2>2. CASE SpawnClient(t)
    <3>1. pc[t] = "spawn" /\ pc' = [pc EXCEPT ![t] = Leave(t)]
      BY <2>2 DEF SpawnClient, Goto
    <3>2. PICK c \in ClientThreads : cpc' = [cpc EXCEPT ![c] = "init"] /\ clientThid' = c
      BY <2>2 DEF SpawnClient
    <3>3. \A d \in ClientThreads : cpc[d] = "dead"
      BY <3>1 DEF OneClient
    <3>4. \A d \in ClientThreads : cpc'[d] # "dead" => d = clientThid'
      BY <1>a, <3>2, <3>3
    <3>5. \A u \in Threads : pc'[u] # "spawn"
      <4> SUFFICES ASSUME NEW u \in Threads, pc'[u] = "spawn" PROVE FALSE
        OBVIOUS
      <4>1. u # t /\ pc[u] = "spawn"
        BY <1>a, <3>1 DEF Leave
      <4> QED
        BY <3>1, <4>1, Alone DEF Comms, Labels
    <3> QED
      BY <3>4, <3>5 DEF OneClient
  <2>3. CASE UNCHANGED client /\ \A u \in Threads : pc'[u] = "spawn" => pc[u] = "spawn"
    BY <2>3 DEF OneClient, client
  <2> QED
    BY <1>1, <2>1, <2>2, <2>3, ClientKept
<1>2. CASE User \/ GuiStep
  BY <1>2, GuiKeepsClient DEF OneClient, client
<1>3. ASSUME NEW c \in ClientThreads, ClientStep(c) \/ NetlogPacket(c) PROVE OneClient'
  <2>1. \E from, to : /\ from # "dead" /\ cpc[c] = from
                      /\ cpc' = [cpc EXCEPT ![c] = to] /\ clientThid' = clientThid
    BY <1>3 DEF ClientStep, ClientInit, ClientInitFails, ClientTop, ClientConnect, ClientShow, ClientPublish,
                NetlogPacket, ClientGoto
  <2>2. c = clientThid /\ UNCHANGED pc
    BY <1>3, <2>1, OthersMoveNothing DEF OneClient
  <2> QED
    BY <1>a, <2>1, <2>2 DEF OneClient
<1>4. CASE PS2Step \/ LinkFault \/ UNCHANGED vars
  <2>1. UNCHANGED <<cpc, clientThid>>
    BY <1>4 DEF PS2Step, SrvCommand, SrvSend, SrvReply, LinkFault, vars, client
  <2>2. UNCHANGED pc
    BY <1>4, OthersMoveNothing
  <2> QED
    BY <2>1, <2>2 DEF OneClient
<1> QED
  BY <1>1, <1>2, <1>3, <1>4 DEF Next, Ended

\* OneClient is an invariant.
LEMMA OneClientCorrect == ASSUME Careful PROVE Spec => []OneClient
<1>1. Init => OneClient
  BY DEF Init, OneClient
<1> QED
  BY TypeCorrect, ExclCorrect, OneClientStep, <1>1, PTL DEF Spec

\* As long as nobody answers Abort, ClientReconnect and the error path kill the
\* client thread before they start the next: two of them never connect at the
\* same time, and the one clientThid names is the one that lives.
THEOREM OneClientThreadCorrect == ASSUME Careful PROVE Spec => []OneClientThread
<1>1. OneClient => OneClientThread
  BY DEF OneClient, OneClientThread
<1> QED
  BY OneClientCorrect, <1>1, PTL

-----------------------------------------------------------------------------
(* The sockets.                                                            *)

\* What a command does to the sockets and to what is under way on them, unless it
\* closes a socket or starts the client thread: it sends only on a main_socket
\* that works, and receives only what has arrived.
LEMMA NetKept ==
  ASSUME TypeOK, NEW t \in Threads, SendReceive(t)
  PROVE  \/ ErrorClose(t) \/ ShutdownKill(t) \/ SpawnClient(t)
         \/ /\ UNCHANGED <<open, peer, main_socket, ClientConnected, srv>>
            /\ toSrv' = toSrv \/ ~Broken(main_socket)
            /\ toCli' = toCli \/ toCli # <<>>
<1> USE DEF net, ps2, ntpb
<1>1. CASE WriteHeader(t) \/ CheckBusy(t) \/ Claim(t)
  BY <1>1 DEF WriteHeader, CheckBusy, Claim
<1>2. CASE SendRequest(t)
  <2>1. toSrv' = toSrv \/ ~Broken(main_socket)
    BY <1>2 DEF SendRequest, Transmit
  <2> QED
    BY <1>2, <2>1 DEF SendRequest
<1>3. CASE ReceiveAck(t) \/ ReceivePacket(t)
  <2>1. toCli \in Seq(Packets)
    BY DEF TypeOK, NetType
  <2>2. ASSUME NEW k \in 1 .. Len(toCli) PROVE toCli # <<>>
    BY <2>1
  <2>3. toCli' = toCli \/ toCli # <<>>
    BY <1>3, <2>2 DEF ReceiveAck, ReceivePacket, Receive
  <2> QED
    BY <1>3, <2>3 DEF ReceiveAck, ReceivePacket
<1>4. CASE ParsePacket(t)
  BY <1>4 DEF ParsePacket
<1>5. CASE StepBar(t, "bar", "reply") \/ StepBar(t, "bar2", "rel") \/ StepBar(t, "bar3", "close")
  BY <1>5 DEF StepBar
<1>6. CASE Reply(t)
  <2>1. toSrv' = toSrv \/ ~Broken(main_socket)
    BY <1>6 DEF Reply, Transmit
  <2> QED
    BY <1>6, <2>1 DEF Reply
<1>7. CASE Release(t) \/ DismissBox(t) \/ ErrorRelease(t) \/ ShutdownAsk(t) \/ ShutdownAnswer(t)
  BY <1>7 DEF Release, DismissBox, ErrorRelease, ShutdownAsk, ShutdownAnswer
<1> QED
  BY <1>1, <1>2, <1>3, <1>4, <1>5, <1>6, <1>7 DEF SendReceive

\* A command keeps Sockets.
LEMMA SocketsSendReceive ==
  ASSUME Careful, TypeOK, Excl, OneClient, OneClient', Sockets, NEW t \in Threads, SendReceive(t)
  PROVE  Sockets'
<1>a. /\ pc \in [Threads -> Labels] /\ open \subseteq Socks
      /\ cpc \in [ClientThreads -> ClientLabels] /\ clientThid \in ClientThreads
      /\ csock \in [ClientThreads -> Socks \cup {NoSock}]
  BY DEF TypeOK, ThreadType, ClientType, NetType
<1>1. CASE ErrorClose(t)
  <2>1. /\ open' = open \ {main_socket} /\ UNCHANGED <<main_socket, peer, toSrv, toCli, srv>>
        /\ UNCHANGED <<cpc, csock>>
    BY <1>1 DEF ErrorClose, CloseMain, client, ps2
  <2> QED
    BY <2>1 DEF Sockets
<1>2. CASE ShutdownKill(t)
  <2>1. cpc' = [cpc EXCEPT ![clientThid] = "dead"]
        /\ open' = open \ {main_socket, csock[clientThid]} /\ UNCHANGED main_socket
    BY <1>2 DEF ShutdownKill, Terminate, ntpb
  <2>2. \A c \in ClientThreads : cpc'[c] = "dead"
    BY <1>a, <2>1 DEF OneClient
  <2> QED
    BY <2>1, <2>2 DEF Sockets
<1>3. CASE SpawnClient(t)
  <2>1. /\ pc[t] = "spawn" /\ UNCHANGED <<open, main_socket>>
        /\ \E c \in ClientThreads : cpc' = [cpc EXCEPT ![c] = "init"]
    BY <1>3 DEF SpawnClient, Goto, ntpb, net
  <2>2. \A c \in ClientThreads : cpc'[c] \in {"dead", "init"}
    BY <1>a, <2>1 DEF OneClient
  <2> QED
    BY <2>1, <2>2 DEF Sockets
<1>4. CASE /\ UNCHANGED <<open, peer, main_socket, ClientConnected, srv>>
           /\ toSrv' = toSrv \/ ~Broken(main_socket)
           /\ toCli' = toCli \/ toCli # <<>>
           /\ ~(ShutdownKill(t) \/ SpawnClient(t))
  <2>1. UNCHANGED <<cpc, csock>> /\ \A u \in Threads : pc'[u] = "spawn" => pc[u] = "spawn"
    BY <1>4, ClientKept DEF client
  <2>2. ASSUME NEW c \in ClientThreads, cpc[c] \in {"up", "set"} PROVE UNCHANGED <<toSrv, toCli>>
    BY <1>4, <2>2 DEF Sockets, Broken
  <2> QED
    BY <1>4, <2>1, <2>2 DEF Sockets
<1> QED
  BY <1>1, <1>2, <1>3, <1>4, NetKept

\* The client thread keeps Sockets: it connects only while main_socket is closed.
LEMMA SocketsClient ==
  ASSUME TypeOK, OneClient, Sockets, NEW c \in ClientThreads, ClientStep(c) \/ NetlogPacket(c)
  PROVE  Sockets'
<1>a. /\ open \subseteq Socks
      /\ cpc \in [ClientThreads -> ClientLabels] /\ clientThid \in ClientThreads
      /\ csock \in [ClientThreads -> Socks \cup {NoSock}]
  BY DEF TypeOK, ThreadType, ClientType, NetType
<1>b. /\ cpc[c] # "dead" /\ UNCHANGED pc
      /\ \E to : cpc' = [cpc EXCEPT ![c] = to]
  BY OthersMoveNothing DEF ClientStep, ClientInit, ClientInitFails, ClientTop, ClientConnect, ClientShow,
     ClientPublish, NetlogPacket, ClientGoto
<1>c. \A d \in ClientThreads \ {c} : cpc[d] = "dead" /\ cpc'[d] = "dead"
  BY <1>a, <1>b DEF OneClient
<1>d. \A t \in Threads : pc'[t] # "spawn"
  BY <1>b DEF OneClient
<1> USE DEF ClientGoto
<1>1. CASE ClientInit(c)
  <2>1. cpc'[c] = "top" /\ main_socket' \notin open'
    BY <1>1, <1>a DEF ClientInit, CloseMain
  <2> QED
    BY <1>c, <1>d, <2>1 DEF Sockets
<1>7. CASE ClientInitFails(c)
  <2>1. cpc'[c] = "dead" /\ UNCHANGED <<main_socket, open, peer, ClientConnected>>
    BY <1>7, <1>a DEF ClientInitFails, ntpb, net
  <2> QED
    BY <1>c, <1>d, <2>1 DEF Sockets
<1>2. CASE ClientTop(c)
  <2>1. /\ cpc'[c] \in {"conn", "select", "top"} /\ (cpc'[c] = "conn" => ClientConnected = 0)
        /\ UNCHANGED <<main_socket, open, peer, ClientConnected>>
    BY <1>2, <1>a DEF ClientTop, ntpb, net
  <2>2. main_socket' \in open' => cpc'[c] \in {"dead", "top", "select"}
    BY <2>1 DEF Sockets
  <2> QED
    BY <1>c, <1>d, <2>1, <2>2 DEF Sockets
<1>3. CASE ClientConnect(c)
  <2> DEFINE s == CHOOSE f \in FreeSocks : TRUE
  <2>1. s \in FreeSocks
    BY <1>3 DEF ClientConnect
  <2>2. s # main_socket
    BY <2>1 DEF FreeSocks
  <2>3. /\ cpc[c] = "conn" /\ csock' = [csock EXCEPT ![c] = s] /\ open' = open \cup {s}
        /\ peer' = s /\ toSrv' = <<>> /\ toCli' = <<>> /\ srv' = "idle"
        /\ UNCHANGED main_socket
    BY <1>3 DEF ClientConnect, ntpb
  <2>4. main_socket \notin open
    BY <2>3 DEF Sockets
  <2>5. csock'[c] = peer' /\ main_socket' \notin open'
    BY <1>a, <2>2, <2>3, <2>4
  <2> QED
    BY <1>c, <1>d, <2>2, <2>3, <2>5 DEF Sockets
<1>4. CASE ClientShow(c)
  <2>1. cpc[c] = "up" /\ UNCHANGED <<main_socket, open, peer, csock, toSrv, toCli, srv>>
    BY <1>4 DEF ClientShow, ntpb, net, ps2
  <2> QED
    BY <1>c, <1>d, <2>1 DEF Sockets
<1>5. CASE ClientPublish(c)
  <2>1. /\ cpc[c] = "set" /\ cpc'[c] = "top" /\ main_socket' = csock[c]
        /\ ClientConnected' = 1 /\ UNCHANGED peer
    BY <1>5, <1>a DEF ClientPublish, net
  <2>2. peer = csock[c]
    BY <2>1 DEF Sockets
  <2> QED
    BY <1>c, <1>d, <2>1, <2>2 DEF Sockets
<1>6. CASE NetlogPacket(c)
  <2>1. /\ cpc[c] = "select" /\ cpc'[c] = "top"
        /\ UNCHANGED <<main_socket, open, peer, ClientConnected>>
    BY <1>6, <1>a DEF NetlogPacket, ntpb, net
  <2> QED
    BY <1>c, <1>d, <2>1 DEF Sockets
<1> QED
  BY <1>1, <1>2, <1>3, <1>4, <1>5, <1>6, <1>7 DEF ClientStep

\* Sockets is an invariant.
LEMMA SocketsCorrect == ASSUME Careful PROVE Spec => []Sockets
<1>1. Init => Sockets
  BY DEF Init, Sockets
<1>2. TypeOK /\ Excl /\ OneClient /\ OneClient' /\ Sockets /\ [Next]_vars => Sockets'
  <2> SUFFICES ASSUME TypeOK, Excl, OneClient, OneClient', Sockets, [Next]_vars PROVE Sockets'
    OBVIOUS
  <2>1. CASE \E t \in Threads : SendReceive(t)
    BY <2>1, SocketsSendReceive
  <2>2. CASE User \/ GuiStep
    <3>1. UNCHANGED <<main_socket, ClientConnected, open, peer, toSrv, toCli, srv>>
      BY <2>2 DEF User, UserHaltResume, UserReadMem, UserSearch, UserDump, UserReconnect,
         UserClose, UserExit, SysHalt, GuiStep, DumpRAMClear, DumpRAMRefuse, DumpRAMStart,
         DisableTab, HandleContinue, GuiReturn, ntpb, net, ps2
    <3> QED
      BY <2>2, <3>1, GuiKeepsClient DEF Sockets, client
  <2>3. CASE \E c \in ClientThreads : ClientStep(c) \/ NetlogPacket(c)
    BY <2>3, SocketsClient
  <2>4. CASE PS2Step \/ LinkFault \/ UNCHANGED vars
    <3>1. UNCHANGED pc
      BY <2>4, OthersMoveNothing
    <3>2. /\ UNCHANGED <<main_socket, ClientConnected, open, peer, cpc, csock>>
          /\ \/ UNCHANGED <<toSrv, toCli>> /\ srv' \in {srv, "idle"}
             \/ toSrv # <<>> \/ srv # "idle"
      BY <2>4 DEF PS2Step, SrvCommand, SrvSend, SrvReply, LinkFault, vars, client, ntpb, net, ps2
    <3> QED
      BY <3>1, <3>2 DEF Sockets
  <2> QED
    BY <2>1, <2>2, <2>3, <2>4 DEF Next, Ended
<1> QED
  BY TypeCorrect, ExclCorrect, OneClientCorrect, <1>1, <1>2, PTL DEF Spec

-----------------------------------------------------------------------------
(* What a thread knows of its own command.                                 *)

\* A command changes the label, the locals and the result of its own thread, and
\* not the caller's struct.
LEMMA OthersLocals ==
  ASSUME TypeOK, NEW t \in Threads, SendReceive(t)
  PROVE  /\ Running /\ UNCHANGED gui /\ Cmd(t)' = Cmd(t)
         /\ \A u \in Threads \ {t} :
              pc'[u] = pc[u] /\ wpos'[u] = wpos[u] /\ endT'[u] = endT[u] /\ ok'[u] = ok[u]
<1>a. /\ pc \in [Threads -> Labels] /\ ok \in [Threads -> BOOLEAN]
      /\ wpos \in [Threads -> Nat] /\ endT \in [Threads -> BOOLEAN]
  BY DEF TypeOK, ThreadType, LocalsType
<1> DEFINE Same(f, g) == \A u \in Threads \ {t} : g[u] = f[u]
<1>1. Same(pc, pc') /\ UNCHANGED dumpInfo
  BY <1>a, SendReceiveMoves
<1>2. CASE \/ WriteHeader(t) \/ CheckBusy(t) \/ Claim(t) \/ SendRequest(t) \/ ReceiveAck(t)
           \/ ReceivePacket(t) \/ StepBar(t, "bar", "reply") \/ Reply(t)
           \/ StepBar(t, "bar2", "rel") \/ DismissBox(t) \/ ErrorRelease(t)
           \/ StepBar(t, "bar3", "close") \/ ErrorClose(t) \/ ShutdownAsk(t) \/ ShutdownKill(t)
  <2>1. UNCHANGED <<gui, wpos, endT, ok>>
    BY <1>2 DEF WriteHeader, CheckBusy, Claim, SendRequest, ReceiveAck, ReceivePacket,
       StepBar, Reply, DismissBox, ErrorRelease, ErrorClose, ShutdownAsk, ShutdownKill, locals
  <2>2. Running
    BY <1>2 DEF WriteHeader, CheckBusy, Claim, SendRequest, ReceiveAck, ReceivePacket, StepBar,
       Reply, DismissBox, ErrorRelease, ErrorClose, ShutdownAsk, ShutdownKill, Goto, Transmit,
       Receive
  <2> QED
    BY <1>1, <2>1, <2>2 DEF gui, Cmd
<1>3. CASE ParsePacket(t)
  <2>1. Running /\ UNCHANGED <<gui, ok>>
    BY <1>3 DEF ParsePacket, StoreBlock, EndTransmit, OtherPacket, Goto
  <2>2. wpos' = wpos \/ wpos' = [wpos EXCEPT ![t] = @ + 1]
    BY <1>3 DEF ParsePacket, StoreBlock, EndTransmit, OtherPacket
  <2>3. endT' = endT \/ endT' = [endT EXCEPT ![t] = TRUE]
    BY <1>3 DEF ParsePacket, StoreBlock, EndTransmit, OtherPacket
  <2>4. Same(wpos, wpos') /\ Same(endT, endT')
    BY <1>a, <2>2, <2>3
  <2> QED
    BY <1>1, <2>1, <2>4 DEF gui, Cmd
<1>4. CASE Release(t) \/ ShutdownAnswer(t) \/ SpawnClient(t)
  <2>1. Running /\ UNCHANGED gui
    BY <1>4 DEF Release, ShutdownAnswer, SpawnClient, Goto
  <2>2. Same(ok, ok')
    BY <1>4, <1>a DEF Release, ShutdownAnswer, SpawnClient
  <2>3. Same(wpos, wpos') /\ Same(endT, endT')
    BY <1>4, <1>a DEF Release, ShutdownAnswer, SpawnClient, Locals0, locals
  <2> QED
    BY <1>1, <2>1, <2>2, <2>3 DEF gui, Cmd
<1> QED
  BY <1>2, <1>3, <1>4 DEF SendReceive

\* A thread at rest has no local variables.
AtRest == {"idle", "notify", "ret", "memset", "fill", "disable"}

\* What a thread outside lib_ntpb.c knows of itself nobody else can change.
LEMMA OwnResting ==
  ASSUME NEW t \in Threads, OwnOf(t), pc[t] \in AtRest, pc'[t] \in AtRest,
         wpos'[t] = wpos[t], endT'[t] = endT[t]
  PROVE  OwnOf(t)'
BY DEF OwnOf, AtRest, Before, Busy

\* The request of a command keeps what its thread knows.
LEMMA OwnRequest ==
  ASSUME TypeOK, NEW t \in Threads, OwnOf(t),
         WriteHeader(t) \/ CheckBusy(t) \/ Claim(t) \/ SendRequest(t)
  PROVE  OwnOf(t)'
<1>a. /\ pc \in [Threads -> Labels] /\ sk \in [Threads -> Socks \cup {NoSock}]
      /\ buf \in Packets /\ SendReceive(t)
  BY DEF TypeOK, ThreadType, LocalsType, NtpbType, SendReceive
<1>b. Cmd(t)' = Cmd(t)
  BY <1>a, OthersLocals
<1> USE DEF OwnOf, Before, Busy, Goto
<1>1. CASE WriteHeader(t)
  <2>1. pc[t] = "hdr" /\ pc'[t] = "check" /\ UNCHANGED <<wpos, endT, dumpInfo, fh, file>>
    BY <1>1, <1>a DEF WriteHeader, locals, dump
  <2>2. buf'.cmd = Cmd(t)
    BY <1>1, <1>a DEF WriteHeader, Packets
  <2> QED
    BY <1>b, <2>1, <2>2
<1>2. CASE CheckBusy(t)
  <2>1. /\ pc[t] = "check" /\ pc'[t] \in {"box", "claim"}
        /\ UNCHANGED <<wpos, endT, dumpInfo, fh, file, buf>>
    BY <1>2, <1>a DEF CheckBusy, locals, dump, ntpb
  <2> QED
    BY <1>b, <2>1
<1>3. CASE Claim(t)
  <2>1. pc[t] = "claim" /\ pc'[t] = "send" /\ UNCHANGED <<wpos, endT, dumpInfo, fh, file>>
    BY <1>3, <1>a DEF Claim, locals, dump
  <2>2. buf' = IF Cmd(t) = "DUMP" THEN [buf EXCEPT !.body = Size(t)] ELSE buf
    BY <1>3 DEF Claim
  <2>3. buf.cmd = Cmd(t)
    BY <2>1
  <2>4. buf'.cmd = Cmd(t) /\ (Cmd(t) = "DUMP" => buf'.body = Size(t))
    BY <1>a, <2>2, <2>3 DEF Packets
  <2>5. IsRequest(t, buf)'
    BY <1>b, <2>4 DEF IsRequest, Size
  <2> QED
    BY <1>b, <2>1, <2>5
<1>4. CASE SendRequest(t)
  <2>1. /\ pc[t] = "send" /\ pc'[t] \in {"err", "box", "ack"}
        /\ pc'[t] = "ack" => ~Broken(main_socket) /\ sk' = [sk EXCEPT ![t] = main_socket]
    BY <1>4, <1>a DEF SendRequest, Transmit
  <2>2. UNCHANGED <<wpos, endT, dumpInfo, fh, file, main_socket, open>>
    BY <1>4 DEF SendRequest, dump, ntpb
  <2>3. pc'[t] = "ack" => main_socket' \in open' /\ sk'[t] = main_socket'
    BY <1>a, <2>1, <2>2 DEF Broken
  <2> QED
    BY <2>1, <2>2, <2>3
<1> QED
  BY <1>1, <1>2, <1>3, <1>4

\* So does the reply loop, in which only the end of the data closes the file.
LEMMA OwnReplies ==
  ASSUME TypeOK, NEW t \in Threads, OwnOf(t),
         \/ ReceiveAck(t) \/ ReceivePacket(t) \/ ParsePacket(t) \/ Reply(t)
         \/ StepBar(t, "bar", "reply") \/ StepBar(t, "bar2", "rel")
  PROVE  OwnOf(t)'
<1>a. /\ pc \in [Threads -> Labels] /\ sk \in [Threads -> Socks \cup {NoSock}]
      /\ endT \in [Threads -> BOOLEAN]
  BY DEF TypeOK, ThreadType, LocalsType
<1> USE DEF Goto
<1>1. CASE \/ ReceiveAck(t) \/ ReceivePacket(t)
           \/ StepBar(t, "bar", "reply") \/ StepBar(t, "bar2", "rel")
  <2>1. /\ pc[t] \in {"ack", "recv", "bar", "bar2"}
        /\ pc'[t] \in {"recv", "parse", "box", "reply", "rel"}
        /\ pc[t] = "bar2" => pc'[t] = "rel"
    BY <1>1, <1>a DEF ReceiveAck, ReceivePacket, Receive, StepBar
  <2>2. UNCHANGED <<wpos, endT, sk, dumpInfo, fh, file, main_socket, open>>
    BY <1>1 DEF ReceiveAck, ReceivePacket, StepBar, dump, ntpb, locals, net
  <2> QED
    BY <2>1, <2>2 DEF OwnOf, Before, Busy
<1>2. CASE ParsePacket(t)
  <2>1. pc[t] = "parse" /\ pc'[t] \in {"bar", "box", "reply"}
    BY <1>2, <1>a DEF ParsePacket, StoreBlock, EndTransmit, OtherPacket
  <2>2. UNCHANGED <<sk, dumpInfo, main_socket, open>>
    BY <1>2 DEF ParsePacket, ntpb, net
  <2>3. endT'[t] = TRUE \/ UNCHANGED <<endT, fh>>
    BY <1>2, <1>a DEF ParsePacket, StoreBlock, EndTransmit, OtherPacket
  <2> QED
    BY <2>1, <2>2, <2>3 DEF OwnOf, Before, Busy
<1>3. CASE Reply(t)
  <2>1. /\ pc[t] = "reply" /\ pc'[t] \in {"bar2", "recv", "box"}
        /\ pc'[t] = "recv" => ~Broken(main_socket)
    <3>1. \/ /\ ~Broken(main_socket)
             /\ pc[t] = "reply" /\ pc' = [pc EXCEPT ![t] = IF endT[t] THEN "bar2" ELSE "recv"]
          \/ pc[t] = "reply" /\ pc' = [pc EXCEPT ![t] = "box"]
      BY <1>3 DEF Reply, Transmit
    <3> QED
      BY <1>a, <3>1
  <2>2. sk' = [sk EXCEPT ![t] = main_socket]
    BY <1>3 DEF Reply
  <2>3. UNCHANGED <<endT, dumpInfo, fh, main_socket, open>>
    BY <1>3 DEF Reply, dump
  <2>4. pc'[t] = "recv" => main_socket' \in open' /\ sk'[t] = main_socket'
    BY <1>a, <2>1, <2>2, <2>3 DEF Broken
  <2> QED
    BY <2>1, <2>3, <2>4 DEF OwnOf, Before, Busy
<1> QED
  BY <1>1, <1>2, <1>3

\* So do the ways out of lib_ntpb.c, which forget the local variables.
LEMMA OwnLeaving ==
  ASSUME Careful, TypeOK, NEW t \in Threads, OwnOf(t),
         \/ Release(t) \/ DismissBox(t) \/ ErrorRelease(t) \/ StepBar(t, "bar3", "close")
         \/ ErrorClose(t) \/ ShutdownAsk(t) \/ ShutdownAnswer(t) \/ ShutdownKill(t)
         \/ SpawnClient(t)
  PROVE  Running' => OwnOf(t)'
<1>a. /\ pc \in [Threads -> Labels] /\ wpos \in [Threads -> Nat]
      /\ endT \in [Threads -> BOOLEAN]
  BY DEF TypeOK, ThreadType, LocalsType
<1> USE DEF OwnOf, Before, Busy, Goto
<1>1. CASE Release(t) \/ SpawnClient(t)
  <2>1. wpos'[t] = 0 /\ endT'[t] = FALSE
    BY <1>1, <1>a DEF Release, SpawnClient, Locals0
  <2>2. pc'[t] \in {"ret", "notify", "idle"}
    BY <1>1, <1>a DEF Release, SpawnClient, Leave
  <2> QED
    BY <2>1, <2>2
<1>2. CASE \/ DismissBox(t) \/ ErrorRelease(t) \/ StepBar(t, "bar3", "close")
           \/ ErrorClose(t) \/ ShutdownAsk(t)
  <2>1. pc'[t] \in {"err", "bar3", "close", "shut", "prompt", "term"}
    BY <1>2, <1>a DEF DismissBox, ErrorRelease, StepBar, ErrorClose, ShutdownAsk
  <2> QED
    BY <2>1
<1>3. CASE ShutdownAnswer(t)
  <2>1. pc'[t] \in {"shut", "term"}
    BY <1>3, <1>a DEF ShutdownAnswer, Careful
  <2> QED
    BY <2>1
<1>4. CASE ShutdownKill(t)
  <2>1. ~Running' \/ pc'[t] = "spawn"
    BY <1>4, <1>a DEF ShutdownKill
  <2> QED
    BY <2>1
<1> QED
  BY <1>1, <1>2, <1>3, <1>4

\* A command keeps Own.
LEMMA OwnSendReceive ==
  ASSUME Careful, TypeOK, Excl, Own, NEW t \in Threads, SendReceive(t)
  PROVE  Own'
<1> SUFFICES ASSUME Running', NEW u \in Threads PROVE OwnOf(u)'
  BY DEF Own
<1>1. Running /\ pc[t] \in Comms
  BY OthersLocals, SendReceiveMoves
<1>2. OwnOf(u) /\ OwnOf(t)
  BY <1>1 DEF Own
<1>3. CASE u = t
  BY <1>2, <1>3, OwnRequest, OwnReplies, OwnLeaving DEF SendReceive
<1>4. CASE u # t
  <2>1. pc'[u] = pc[u] /\ wpos'[u] = wpos[u] /\ endT'[u] = endT[u]
    BY <1>4, OthersLocals
  <2>2. pc[u] \notin Comms /\ pc[u] \in Labels
    BY <1>1, <1>4, Alone DEF TypeOK, ThreadType
  <2>3. pc[u] \in AtRest
    BY <2>2 DEF Comms, Labels, AtRest
  <2> QED
    BY <1>2, <2>1, <2>3, OwnResting
<1> QED
  BY <1>3, <1>4

\* What the GUI thread does by itself: it locks the tab, or else nobody is in
\* lib_ntpb.c; then it enters it itself or starts the one dump thread.
LEMMA GuiAlone ==
  ASSUME Careful, TypeOK, Excl, User \/ GuiStep
  PROVE  \/ DisableTab
         \/ \A u \in Threads :
              /\ pc[u] \in AtRest
              /\ \/ pc'[u] \in AtRest
                 \/ u = GUI /\ pc'[u] \in {"hdr", "close", "shut"}
                 \/ DumpRAMStart /\ u = dumpInfo'.fh /\ pc'[u] = "hdr"
<1> USE ConstantsAssumption
<1>a. /\ pc \in [Threads -> Labels] /\ GUI \in Threads /\ IoThreads \subseteq Threads
      /\ Patient
  BY DEF TypeOK, ThreadType, Careful
<1> SUFFICES ASSUME ~DisableTab, NEW u \in Threads
             PROVE  /\ pc[u] \in AtRest
                    /\ \/ pc'[u] \in AtRest
                       \/ u = GUI /\ pc'[u] \in {"hdr", "close", "shut"}
                       \/ DumpRAMStart /\ u = dumpInfo'.fh /\ pc'[u] = "hdr"
  OBVIOUS
<1>2. CASE User
  <2>1. \A t \in IoThreads : pc[t] = "idle" /\ pc'[t] = "idle"
    BY <1>2, <1>a, UserMoves
  <2>2. /\ pc[GUI] = "idle"
        /\ pc'[GUI] \in {"idle", "hdr", "memset", "close", "shut"}
    BY <1>2, <1>a, UserMoves
  <2> QED
    BY <2>1, <2>2 DEF AtRest
<1>3. CASE DumpRAMClear \/ DumpRAMRefuse \/ GuiReturn
  <2>1. \A t \in IoThreads : pc[t] = "idle" /\ pc'[t] = "idle"
    BY <1>3, <1>a DEF DumpRAMClear, DumpRAMRefuse, GuiReturn, Goto, Excl
  <2>2. pc[GUI] \in AtRest /\ pc'[GUI] \in AtRest
    BY <1>3, <1>a DEF DumpRAMClear, DumpRAMRefuse, GuiReturn, Goto, AtRest
  <2> QED
    BY <2>1, <2>2 DEF AtRest
<1>4. CASE DumpRAMStart
  <2>1. pc[GUI] = "fill" /\ \A t \in IoThreads : pc[t] = "idle"
    BY <1>4, <1>a DEF DumpRAMStart, Excl
  <2>2. PICK t \in IoThreads :
          /\ pc' = [pc EXCEPT ![GUI] = IF task = "search" THEN "disable" ELSE "idle",
                              ![t] = "hdr"]
          /\ dumpInfo' = [cmd |-> "DUMP", notify |-> task = "search", fh |-> t]
    BY <1>4 DEF DumpRAMStart
  <2>3. CASE u = t
    <3>1. pc[u] = "idle" /\ pc'[u] = "hdr" /\ u = dumpInfo'.fh
      BY <1>a, <2>1, <2>2, <2>3
    <3> QED
      BY <1>4, <3>1 DEF AtRest
  <2>4. CASE u # t
    <3>1. pc[u] \in {"fill", "idle"} /\ pc'[u] \in {"disable", "idle"}
      BY <1>a, <2>1, <2>2, <2>4
    <3> QED
      BY <3>1 DEF AtRest
  <2> QED
    BY <2>3, <2>4
<1>5. CASE HandleContinue
  <2>1. PICK t \in IoThreads :
          /\ pc[t] = "notify" /\ pc[GUI] \in Pumps
          /\ \/ pc' = [pc EXCEPT ![t] = "idle", ![GUI] = "hdr"]
             \/ pc' = [pc EXCEPT ![t] = "idle"]
    BY <1>5 DEF HandleContinue, AfterNotify
  <2>2. pc[GUI] = "idle"
    BY <1>a, <2>1 DEF Excl, Pumps, Comms, Labels
  <2>3. \A v \in IoThreads : pc[v] \in {"idle", "notify"} /\ pc'[v] = "idle"
    BY <1>a, <2>1 DEF Excl
  <2>4. pc'[GUI] \in {"idle", "hdr"}
    BY <1>a, <2>1, <2>2
  <2> QED
    BY <2>2, <2>3, <2>4 DEF AtRest
<1> QED
  BY <1>2, <1>3, <1>4, <1>5 DEF GuiStep

\* The GUI thread keeps Own: it changes the caller's structs and the dump file only
\* while no command is under way.
LEMMA OwnGui ==
  ASSUME Careful, TypeOK, Excl, Own, User \/ GuiStep
  PROVE  Own'
<1> USE ConstantsAssumption
<1>a. /\ pc \in [Threads -> Labels] /\ GUI \in Threads /\ IoThreads \subseteq Threads
      /\ fh \in [Threads -> {"none", "open", "closed"}] /\ file \in [Threads -> Seq(Nat)]
  BY DEF TypeOK, ThreadType, DumpType
<1>b. Running /\ UNCHANGED locals
  BY DEF User, UserHaltResume, UserReadMem, UserSearch, UserDump, UserReconnect, UserClose,
     UserExit, SysHalt, Call, GuiStep, DumpRAMClear, DumpRAMRefuse, DumpRAMStart, DisableTab,
     HandleContinue, GuiReturn, Goto
<1> SUFFICES ASSUME NEW u \in Threads PROVE OwnOf(u)'
  BY DEF Own
<1>c. OwnOf(u)
  BY <1>b DEF Own
<1>1. CASE /\ pc[u] \in AtRest
           /\ \/ pc'[u] \in AtRest
              \/ u = GUI /\ pc'[u] \in {"hdr", "close", "shut"}
  <2>1. wpos'[u] = 0 /\ endT'[u] = FALSE
    BY <1>b, <1>c, <1>1 DEF OwnOf, AtRest, locals
  <2> QED
    BY <1>1, <2>1 DEF OwnOf, AtRest, Before, Busy
<1>2. CASE pc[u] \in AtRest /\ DumpRAMStart /\ u = dumpInfo'.fh /\ pc'[u] = "hdr"
  <2>1. dumpInfo'.cmd = "DUMP" /\ fh'[u] = "open" /\ file'[u] = <<>>
    BY <1>a, <1>2 DEF DumpRAMStart, Fopen
  <2>2. wpos'[u] = 0 /\ endT'[u] = FALSE
    BY <1>b, <1>c, <1>2 DEF OwnOf, AtRest, locals
  <2> QED
    BY <1>2, <2>1, <2>2 DEF OwnOf, Before, Busy
<1>3. CASE DisableTab
  <2>1. pc[GUI] = "disable" /\ pc' = [pc EXCEPT ![GUI] = "idle"]
    BY <1>3 DEF DisableTab, Goto
  <2>2. CASE u = GUI
    BY <1>1, <1>a, <2>1, <2>2 DEF AtRest
  <2>3. CASE u # GUI
    <3>1. pc'[u] = pc[u]
      BY <1>a, <2>1, <2>3
    <3>2. UNCHANGED <<ntpb, dump, gcmd, net>>
      BY <1>3 DEF DisableTab
    <3> QED
      BY <1>b, <1>c, <3>1, <3>2
         DEF OwnOf, IsRequest, Cmd, Size, ntpb, dump, net, locals
  <2> QED
    BY <2>2, <2>3
<1> QED
  BY <1>1, <1>2, <1>3, GuiAlone

\* The client thread closes or replaces main_socket only when no command uses it.
LEMMA OwnClient ==
  ASSUME TypeOK, Sockets, Own, NEW c \in ClientThreads, ClientStep(c) \/ NetlogPacket(c)
  PROVE  Own'
<1>a. /\ UNCHANGED <<pc, locals, dump, gui, buf, app>>
      /\ Running
  BY DEF ClientStep, ClientInit, ClientInitFails, ClientTop, ClientConnect, ClientShow, ClientPublish,
     NetlogPacket, ntpb, ClientGoto
<1>1. \/ UNCHANGED main_socket /\ open \subseteq open'
      \/ main_socket \notin open
  BY DEF ClientStep, ClientInit, ClientInitFails, ClientTop, ClientConnect, ClientShow, ClientPublish,
     NetlogPacket, ClientGoto, Sockets, ntpb, net
<1> SUFFICES ASSUME NEW u \in Threads PROVE OwnOf(u)'
  BY DEF Own
<1>2. OwnOf(u)
  BY <1>a DEF Own
<1>3. pc[u] \in Busy => main_socket' \in open' /\ main_socket' = main_socket
  BY <1>1, <1>2 DEF OwnOf
<1> QED
  BY <1>a, <1>2, <1>3 DEF OwnOf, IsRequest, Cmd, Size, locals, dump, gui

\* Own is an invariant.
LEMMA OwnCorrect == ASSUME Careful PROVE Spec => []Own
<1>1. Init => Own
  BY DEF Init, Own, OwnOf, Before, Busy
<1>2. TypeOK /\ Excl /\ Sockets /\ Own /\ [Next]_vars => Own'
  <2> SUFFICES ASSUME TypeOK, Excl, Sockets, Own, [Next]_vars PROVE Own'
    OBVIOUS
  <2>1. CASE \E t \in Threads : SendReceive(t)
    BY <2>1, OwnSendReceive
  <2>2. CASE User \/ GuiStep
    BY <2>2, OwnGui
  <2>3. CASE \E c \in ClientThreads : ClientStep(c) \/ NetlogPacket(c)
    BY <2>3, OwnClient
  <2>4. CASE PS2Step \/ LinkFault \/ UNCHANGED vars
    <3>1. UNCHANGED <<ntpb, locals, pc, dump, gui, app, open>>
      BY <2>4 DEF PS2Step, SrvCommand, SrvSend, SrvReply, LinkFault, vars, net
    <3> QED
      BY <3>1 DEF Own, OwnOf, IsRequest, Cmd, Size, ntpb, locals, dump, gui
  <2> QED
    BY <2>1, <2>2, <2>3, <2>4 DEF Next, Ended
<1> QED
  BY TypeCorrect, ExclCorrect, SocketsCorrect, <1>1, <1>2, PTL DEF Spec

-----------------------------------------------------------------------------
(* Packets, queues and blocks.                                             *)

\* A queue and one more packet.
LEMMA QueueAppend ==
  ASSUME NEW S, NEW q \in Seq(S), NEW p \in S
  PROVE  /\ Append(q, p) \in Seq(S) /\ Len(Append(q, p)) = Len(q) + 1
         /\ Append(q, p)[Len(q) + 1] = p
         /\ \A i \in 1 .. Len(q) : Append(q, p)[i] = q[i]
OBVIOUS

\* A queue without its first packet.
LEMMA QueueTail ==
  ASSUME NEW S, NEW q \in Seq(S), q # <<>>
  PROVE  /\ Len(q) >= 1 /\ Head(q) = q[1] /\ Head(q) \in S
         /\ Tail(q) \in Seq(S) /\ Len(Tail(q)) = Len(q) - 1
         /\ \A i \in 1 .. Len(Tail(q)) : Tail(q)[i] = q[i + 1]
OBVIOUS

\* A queue without its first k packets.
LEMMA QueueRest ==
  ASSUME NEW S, NEW q \in Seq(S), NEW k \in 1 .. Len(q)
  PROVE  /\ SubSeq(q, k + 1, Len(q)) \in Seq(S)
         /\ Len(SubSeq(q, k + 1, Len(q))) = Len(q) - k
         /\ \A i \in 1 .. Len(q) - k : SubSeq(q, k + 1, Len(q))[i] = q[k + i]
         /\ Head(q) = q[1] /\ Head(q) \in S
OBVIOUS

\* The blocks of a dump, one by one.
LEMMA NoBlocks == Blocks(0) = <<>>
BY DEF Blocks

\* One block more is the next block at the end.
LEMMA NextBlock ==
  ASSUME NEW n \in Nat
  PROVE  Append(Blocks(n), n + 1) = Blocks(n + 1)
<1>1. Blocks(n) \in Seq(Nat) /\ Len(Blocks(n)) = n
  BY DEF Blocks
<1>2. Blocks(n + 1) \in Seq(Nat) /\ Len(Blocks(n + 1)) = n + 1
  BY DEF Blocks
<1>3. Append(Blocks(n), n + 1) \in Seq(Nat) /\ Len(Append(Blocks(n), n + 1)) = n + 1
  BY <1>1, QueueAppend
<1>4. \A i \in 1 .. n + 1 : Append(Blocks(n), n + 1)[i] = Blocks(n + 1)[i]
  BY <1>1, QueueAppend DEF Blocks
<1> QED
  BY <1>2, <1>3, <1>4, SeqEqual

-----------------------------------------------------------------------------
(* The line.                                                               *)

\* What holds of t's command on the line.
LineOf(t) == At(t) /\ (pc[t] \notin Busy \cup Trouble => Quiet)

\* The request is appended to a line that is quiet.
LEMMA LineRequest ==
  ASSUME TypeOK, NEW t \in Threads, OwnOf(t), LineOf(t), link' # "reset",
         WriteHeader(t) \/ CheckBusy(t) \/ Claim(t) \/ SendRequest(t)
  PROVE  LineOf(t)'
<1>a. pc \in [Threads -> Labels] /\ buf \in Packets /\ toSrv \in Seq(Packets)
  BY DEF TypeOK, ThreadType, NtpbType, NetType
<1> USE DEF LineOf, Busy, Trouble, Goto
<1>1. CASE WriteHeader(t) \/ CheckBusy(t) \/ Claim(t)
  <2>1. /\ pc[t] \in {"hdr", "check", "claim"}
        /\ pc'[t] \in {"check", "claim", "send", "box"}
    BY <1>1, <1>a DEF WriteHeader, CheckBusy, Claim
  <2>2. UNCHANGED <<toCli, toSrv, srv>>
    BY <1>1 DEF WriteHeader, CheckBusy, Claim, net, ps2
  <2> QED
    BY <2>1, <2>2 DEF At, Quiet
<1>2. CASE SendRequest(t)
  <2>1. pc[t] = "send" /\ UNCHANGED <<toCli, srv>>
    BY <1>2 DEF SendRequest, Transmit, ps2
  <2>2. \/ pc'[t] \in {"err", "box"}
        \/ pc'[t] = "ack" /\ toSrv' = Append(toSrv, buf)
    BY <1>2, <1>a DEF SendRequest, Transmit
  <2>3. CASE pc'[t] \in {"err", "box"}
    BY <2>3 DEF At
  <2>4. CASE pc'[t] = "ack" /\ toSrv' = Append(toSrv, buf)
    <3>1. Quiet /\ IsRequest(t, buf)
      BY <2>1 DEF OwnOf
    <3>2. Cmd(t)' = Cmd(t)
      BY <1>2, OthersLocals DEF SendReceive
    <3>3. /\ Len(toSrv') = Len(toSrv) + 1 /\ toSrv'[Len(toSrv) + 1] = buf
          /\ \A i \in 1 .. Len(toSrv) : toSrv'[i] = toSrv[i]
      BY <1>a, <2>4, QueueAppend
    <3>4. \A p : IsRequest(t, p)' = IsRequest(t, p)
      BY <3>2 DEF IsRequest, Size
    <3>5. \/ srv' = "idle" /\ Len(toSrv') = 1 /\ IsRequest(t, toSrv'[1])
          \/ srv' = "last" /\ Len(toSrv') = 2 /\ IsReply(toSrv'[1]) /\ IsRequest(t, toSrv'[2])
      BY <2>1, <3>1, <3>3 DEF Quiet
    <3>6. AtAck(t)'
      BY <2>1, <3>1, <3>2, <3>5 DEF AtAck, Quiet, IsReply, IsRequest, Size
    <3> QED
      BY <2>4, <3>6 DEF At
  <2> QED
    BY <2>2, <2>3, <2>4
<1> QED
  BY <1>1, <1>2

\* A step of t's own that leaves the blocks and the PS2 alone leaves the command
\* carried out.
LEMMA CarriedOutKept ==
  ASSUME NEW t \in Threads, CarriedOut(t), UNCHANGED <<sTodo, halted>>, Cmd(t)' = Cmd(t),
         wpos'[t] = wpos[t], file'[t] = file[t]
  PROVE  CarriedOut(t)'
BY DEF CarriedOut, Asked, Size

\* The acknowledgement arrives alone or, from a PS2 that does not wait, with the
\* first packet of data behind it.
LEMMA LineAck ==
  ASSUME TypeOK, NEW t \in Threads, OwnOf(t), LineOf(t), ReceiveAck(t)
  PROVE  LineOf(t)'
<1>a. pc \in [Threads -> Labels] /\ toCli \in Seq(Packets) /\ wpos \in [Threads -> Nat]
  BY DEF TypeOK, ThreadType, NetType, LocalsType
<1> USE DEF LineOf, Busy, Trouble, Goto
<1>1. \/ pc'[t] = "box"
      \/ pc'[t] = "recv" /\ \E k \in 1 .. Len(toCli) : toCli' = SubSeq(toCli, k + 1, Len(toCli))
  BY <1>a DEF ReceiveAck, Receive
<1>2. CASE pc'[t] = "box"
  BY <1>2 DEF At
<1>3. ASSUME pc'[t] = "recv", NEW k \in 1 .. Len(toCli),
             toCli' = SubSeq(toCli, k + 1, Len(toCli))
      PROVE  LineOf(t)'
  <2>1. /\ pc[t] = "ack"
        /\ UNCHANGED <<toSrv, srv, sNext, sTodo, halted, wpos, endT, file>>
    BY DEF ReceiveAck, Receive, ps2, locals, dump
  <2>2. AtAck(t) /\ wpos[t] = 0 /\ endT[t] = FALSE
    BY <2>1 DEF At, OwnOf
  <2>3. /\ Len(toCli') = Len(toCli) - k
        /\ \A i \in 1 .. Len(toCli) - k : toCli'[i] = toCli[k + i]
    BY <1>a, <1>3, QueueRest
  <2>4. Len(toCli) \in Nat /\ Len(toCli) >= 1
    BY <1>a, <1>3
  <2>5. /\ Len(toSrv) = 0 /\ CarriedOut(t) /\ sNext = 1
        /\ \/ srv = "send" /\ Len(toCli) = 1
           \/ Len(toCli) = 2 /\ Data(toCli[2])
    BY <2>2, <2>4 DEF AtAck
  <2>6. CarriedOut(t)'
    BY <2>1, <2>5, CarriedOutKept, OthersLocals DEF SendReceive
  <2>7. AtRecv(t)'
    <3>1. CASE srv = "send" /\ Len(toCli) = 1
      <4>1. Len(toCli') = 0
        BY <2>3, <3>1
      <4> QED
        BY <2>1, <2>2, <2>5, <2>6, <3>1, <4>1 DEF AtRecv
    <3>2. CASE Len(toCli) = 2 /\ Data(toCli[2]) /\ k = 1
      <4>1. Len(toCli') = 1 /\ toCli'[1] = toCli[2]
        BY <2>3, <3>2
      <4>2. Data(toCli[1])'
        BY <2>1, <3>2, <4>1 DEF Data
      <4> QED
        BY <2>1, <2>2, <2>5, <2>6, <4>1, <4>2 DEF AtRecv
    <3>3. CASE Len(toCli) = 2 /\ Data(toCli[2]) /\ k = 2
      <4>1. Len(toCli') = 0
        BY <2>3, <3>3
      <4>2. srv \in {"wait", "last"}
        BY <3>3 DEF Data
      <4> QED
        BY <2>1, <2>2, <2>5, <2>6, <4>1, <4>2 DEF AtRecv
    <3>4. Len(toCli) = 2 => k = 1 \/ k = 2
      BY <2>4
    <3> QED
      BY <2>5, <3>1, <3>2, <3>3, <3>4, Zenon
  <2> QED
    BY <1>3, <2>7 DEF At
<1> QED
  BY <1>1, <1>2, <1>3

\* The packet the PS2 has sent is the one the thread looks at.
LEMMA LinePacket ==
  ASSUME TypeOK, NEW t \in Threads, LineOf(t), ReceivePacket(t)
  PROVE  LineOf(t)'
<1>a. pc \in [Threads -> Labels] /\ toCli \in Seq(Packets)
  BY DEF TypeOK, ThreadType, NetType
<1> USE DEF LineOf, Busy, Trouble, Goto
<1>1. \/ pc'[t] = "box"
      \/ /\ pc'[t] = "parse" /\ buf' = Head(toCli)
         /\ \E k \in 1 .. Len(toCli) : toCli' = SubSeq(toCli, k + 1, Len(toCli))
  BY <1>a DEF ReceivePacket, Receive
<1>2. CASE pc'[t] = "box"
  BY <1>2 DEF At
<1>3. ASSUME pc'[t] = "parse", buf' = Head(toCli), NEW k \in 1 .. Len(toCli),
             toCli' = SubSeq(toCli, k + 1, Len(toCli))
      PROVE  LineOf(t)'
  <2>1. /\ pc[t] = "recv"
        /\ UNCHANGED <<toSrv, srv, sNext, sTodo, halted, wpos, endT, file>>
    BY DEF ReceivePacket, Receive, ps2, locals, dump
  <2>2. AtRecv(t)
    BY <2>1 DEF At
  <2>3. Len(toCli') = Len(toCli) - k /\ buf' = toCli[1] /\ Len(toCli) >= 1
    BY <1>a, <1>3, QueueRest
  <2>4. /\ CarriedOut(t) /\ endT[t] = FALSE
        /\ Len(toSrv) = 0 /\ Len(toCli) = 1 /\ Data(toCli[1]) /\ sNext = wpos[t] + 1
    BY <2>2, <2>3 DEF AtRecv
  <2>5. CarriedOut(t)'
    BY <2>1, <2>4, CarriedOutKept, OthersLocals DEF SendReceive
  <2>6. Len(toCli') = 0
    BY <1>3, <2>3, <2>4
  <2>7. Data(buf)'
    BY <2>1, <2>3, <2>4 DEF Data
  <2>8. AtParse(t)'
    BY <2>1, <2>4, <2>5, <2>6, <2>7 DEF AtParse
  <2> QED
    BY <1>3, <2>8 DEF At
<1> QED
  BY <1>1, <1>2, <1>3

\* A block is stored behind the earlier ones, and the end of the data comes when
\* all are stored.
LEMMA LineParse ==
  ASSUME TypeOK, NEW t \in Threads, OwnOf(t), LineOf(t), ParsePacket(t), Running'
  PROVE  LineOf(t)'
<1> USE ConstantsAssumption
<1>a. /\ pc \in [Threads -> Labels] /\ wpos \in [Threads -> Nat] /\ sTodo \in Nat
      /\ endT \in [Threads -> BOOLEAN] /\ file \in [Threads -> Seq(Nat)]
  BY DEF TypeOK, ThreadType, LocalsType, DumpType, PS2Type
<1>b. /\ pc[t] = "parse"
      /\ UNCHANGED <<toCli, toSrv, srv, sNext, sTodo, halted, buf>>
  BY DEF ParsePacket, StoreBlock, EndTransmit, OtherPacket, Goto, net, ps2, ntpb
<1>c. AtParse(t) /\ Cmd(t)' = Cmd(t)
  BY <1>b, OthersLocals DEF LineOf, At, SendReceive
<1>d. /\ CarriedOut(t) /\ endT[t] = FALSE /\ Data(buf) /\ sNext = wpos[t] + 1
      /\ Len(toSrv) = 0 /\ Len(toCli) = 0
  BY <1>c DEF AtParse
<1>e. t # GUI => dumpInfo.fh = t /\ fh[t] = "open" /\ t \in IoThreads
  BY <1>b, <1>d DEF OwnOf, Busy
<1> USE DEF LineOf, Busy, Trouble, Goto
<1>1. CASE pc'[t] = "box"
  BY <1>1 DEF At
<1>2. CASE StoreBlock(t) /\ pc'[t] # "box"
  <2>1. buf.cmd = "SEND_DUMP"
    BY <1>2 DEF StoreBlock
  <2>2. srv = "wait" /\ sNext <= sTodo /\ buf.body = sNext
    BY <1>d, <2>1 DEF Data
  <2>3. pc'[t] = "bar" /\ wpos' = [wpos EXCEPT ![t] = @ + 1] /\ UNCHANGED endT
    BY <1>2, <1>a DEF StoreBlock
  <2>4. t # GUI => file' = [file EXCEPT ![t] = Append(@, buf.body)]
    BY <1>2, <1>e, <2>3, <1>a DEF StoreBlock
  <2>5. wpos'[t] = wpos[t] + 1 /\ wpos'[t] <= sTodo /\ sNext = wpos'[t]
    BY <1>a, <1>d, <2>2, <2>3
  <2>6. t # GUI => file'[t] = Blocks(wpos'[t])
    <3>1. SUFFICES ASSUME t # GUI PROVE file'[t] = Blocks(wpos'[t])
      OBVIOUS
    <3>2. file[t] = Blocks(wpos[t])
      BY <1>d, <3>1 DEF CarriedOut
    <3>3. file'[t] = Append(file[t], wpos[t] + 1)
      BY <1>a, <1>d, <2>2, <2>4, <3>1
    <3>4. Append(Blocks(wpos[t]), wpos[t] + 1) = Blocks(wpos[t] + 1)
      BY <1>a, NextBlock
    <3> QED
      BY <2>5, <3>2, <3>3, <3>4
  <2>7. CarriedOut(t)'
    BY <1>b, <1>c, <1>d, <2>5, <2>6 DEF CarriedOut, Asked, Size
  <2>8. AtReply(t)'
    BY <1>b, <1>d, <2>1, <2>2, <2>3, <2>5, <2>7 DEF AtReply
  <2> QED
    BY <2>3, <2>8 DEF At
<1>3. CASE EndTransmit(t)
  <2>1. buf.cmd = "END_TRANSMIT" /\ pc'[t] = "reply" /\ endT'[t] = TRUE
        /\ UNCHANGED <<file, wpos>>
    BY <1>3, <1>a DEF EndTransmit
  <2>2. srv = "last" /\ sNext > sTodo
    BY <1>d, <2>1 DEF Data
  <2>3. wpos[t] <= sTodo
    BY <1>d DEF CarriedOut
  <2>4. wpos'[t] = sTodo'
    BY <1>a, <1>b, <1>d, <2>1, <2>2, <2>3
  <2>5. CarriedOut(t)'
    BY <1>b, <1>c, <1>d, <2>1, CarriedOutKept
  <2>6. AtReply(t)'
    BY <1>b, <1>d, <2>1, <2>2, <2>4, <2>5 DEF AtReply
  <2> QED
    BY <2>1, <2>6 DEF At
<1>4. ~OtherPacket(t)
  BY <1>d DEF OtherPacket, Data
<1> QED
  BY <1>1, <1>2, <1>3, <1>4 DEF ParsePacket

\* A block is answered and the next one comes; the answer to the end of the data
\* is all that a finished command leaves on the line.
LEMMA LineReply ==
  ASSUME TypeOK, NEW t \in Threads, LineOf(t), link' # "reset",
         Reply(t) \/ StepBar(t, "bar", "reply")
  PROVE  LineOf(t)'
<1>a. /\ pc \in [Threads -> Labels] /\ toSrv \in Seq(Packets) /\ buf \in Packets
      /\ endT \in [Threads -> BOOLEAN]
  BY DEF TypeOK, ThreadType, NetType, NtpbType, LocalsType
<1>b. UNCHANGED <<wpos, endT, file, toCli, srv, sNext, sTodo, halted>>
  BY DEF Reply, StepBar, locals, dump, net, ps2
<1>c. pc[t] \in {"bar", "reply"} /\ Cmd(t)' = Cmd(t)
  <2>1. Cmd(t)' = Cmd(t)
    BY OthersLocals DEF SendReceive
  <2>2. pc[t] \in {"bar", "reply"}
    BY DEF Reply, Transmit, StepBar, Goto
  <2> QED
    BY <2>1, <2>2
<1>d. AtReply(t)
  BY <1>c DEF LineOf, At
<1>e. CarriedOut(t)'
  BY <1>b, <1>c, <1>d, CarriedOutKept DEF AtReply
<1> USE DEF LineOf, Busy, Trouble, Goto
<1>1. CASE StepBar(t, "bar", "reply")
  <2>1. pc'[t] = "reply" /\ UNCHANGED <<buf, toSrv>>
    BY <1>1, <1>a DEF StepBar, ntpb, net
  <2>2. AtReply(t)'
    BY <1>b, <1>d, <1>e, <2>1 DEF AtReply
  <2> QED
    BY <2>1, <2>2 DEF At
<1>2. CASE Reply(t)
  <2>1. \/ pc'[t] = "box"
        \/ /\ pc' = [pc EXCEPT ![t] = IF endT[t] THEN "bar2" ELSE "recv"]
           /\ toSrv' = Append(toSrv, buf')
    BY <1>2, <1>a DEF Reply, Transmit
  <2>2. CASE pc'[t] = "box"
    BY <2>2 DEF At
  <2>3. CASE /\ pc' = [pc EXCEPT ![t] = IF endT[t] THEN "bar2" ELSE "recv"]
             /\ toSrv' = Append(toSrv, buf')
    <3>1. buf' \in Packets /\ buf'.cmd = buf.cmd
      BY <1>2, <1>a DEF Reply, Packets
    <3>2. Len(toSrv) = 0
      BY <1>d DEF AtReply
    <3>3. Len(toSrv') = 1 /\ toSrv'[1] = buf'
      BY <1>a, <2>3, <3>1, <3>2, QueueAppend
    <3>4. CASE srv = "wait" /\ endT[t] = FALSE /\ buf.cmd = "SEND_DUMP" /\ sNext = wpos[t]
      <4>1. pc'[t] = "recv"
        BY <1>a, <2>3, <3>4
      <4>2. AtRecv(t)'
        BY <1>b, <1>d, <1>e, <3>3, <3>4 DEF AtRecv, AtReply
      <4> QED
        BY <4>1, <4>2 DEF At
    <3>5. CASE srv = "last" /\ endT[t] = TRUE /\ buf.cmd = "END_TRANSMIT" /\ wpos[t] = sTodo
      <4>1. pc'[t] = "bar2"
        BY <1>a, <2>3, <3>5
      <4>2. IsReply(toSrv[1])'
        BY <3>1, <3>3, <3>5 DEF IsReply
      <4>3. Quiet'
        BY <1>b, <1>d, <3>3, <3>5, <4>2 DEF Quiet, AtReply
      <4> QED
        BY <4>1, <4>3 DEF At
    <3> QED
      BY <1>d, <3>4, <3>5 DEF AtReply
  <2> QED
    BY <2>1, <2>2, <2>3
<1> QED
  BY <1>1, <1>2

\* A quiet line stays quiet while a thread leaves lib_ntpb.c.
LEMMA LineLeaving ==
  ASSUME TypeOK, NEW t \in Threads, LineOf(t),
         \/ StepBar(t, "bar2", "rel") \/ Release(t) \/ DismissBox(t) \/ ErrorRelease(t)
         \/ StepBar(t, "bar3", "close") \/ ShutdownAsk(t) \/ ShutdownAnswer(t) \/ SpawnClient(t)
  PROVE  LineOf(t)'
<1>a. pc \in [Threads -> Labels]
  BY DEF TypeOK, ThreadType
<1>b. UNCHANGED <<toCli, toSrv, srv>>
  BY DEF StepBar, Release, DismissBox, ErrorRelease, ShutdownAsk, ShutdownAnswer,
     SpawnClient, net, ps2
<1> USE DEF LineOf, Busy, Trouble, Goto
<1>1. CASE DismissBox(t) \/ ErrorRelease(t) \/ StepBar(t, "bar3", "close")
  <2>1. pc'[t] \in Trouble
    BY <1>1, <1>a DEF DismissBox, ErrorRelease, StepBar
  <2> QED
    BY <2>1 DEF At
<1>2. CASE \/ StepBar(t, "bar2", "rel") \/ Release(t) \/ ShutdownAsk(t) \/ ShutdownAnswer(t)
           \/ SpawnClient(t)
  <2>1. pc[t] \in {"bar2", "rel", "shut", "prompt", "spawn"}
    BY <1>2 DEF StepBar, Release, ShutdownAsk, ShutdownAnswer, SpawnClient
  <2>2. pc'[t] \notin Busy
    BY <1>2, <1>a DEF StepBar, Release, ShutdownAsk, ShutdownAnswer, SpawnClient, Leave, Refused
  <2> QED
    BY <1>b, <2>1, <2>2 DEF At, Quiet
<1> QED
  BY <1>1, <1>2

\* A command keeps Line.
LEMMA LineSendReceive ==
  ASSUME Careful, TypeOK, Excl, Own, Line, NEW t \in Threads, SendReceive(t)
  PROVE  Line'
<1> SUFFICES ASSUME Running', main_socket' \in open', link' # "reset"
             PROVE  /\ (\A u \in Threads : pc'[u] \notin Busy \cup Trouble) => Quiet'
                    /\ \A u \in Threads : At(u)'
  BY DEF Line
<1>1. ~ErrorClose(t) /\ ~ShutdownKill(t)
  BY DEF ErrorClose, CloseMain, ShutdownKill, ntpb
<1>2. UNCHANGED <<main_socket, open>>
  <2>1. CASE SpawnClient(t)
    BY <2>1 DEF SpawnClient, ntpb, net
  <2> QED
    BY <1>1, <2>1, NetKept
<1>3. link # "reset"
  <2>1. CASE SendRequest(t) \/ Reply(t)
    BY <2>1 DEF SendRequest, Reply, Transmit
  <2>2. CASE ~SendRequest(t) /\ ~Reply(t)
    BY <1>1, <2>2 DEF SendReceive, WriteHeader, CheckBusy, Claim, ReceiveAck, ReceivePacket,
       ParsePacket, StepBar, Release, DismissBox, ErrorRelease, ShutdownAsk, ShutdownAnswer,
       SpawnClient, net
  <2> QED
    BY <2>1, <2>2
<1>4. Running /\ pc[t] \in Comms
  BY OthersLocals, SendReceiveMoves
<1>5. OwnOf(t)
  BY <1>4 DEF Own
<1>6. \A u \in Threads \ {t} : pc[u] \notin Comms /\ pc'[u] = pc[u]
  BY <1>4, Alone, OthersLocals
<1>7. Busy \cup Trouble \subseteq Comms
  BY DEF Busy, Trouble, Comms, Labels
<1>8. LineOf(t)
  BY <1>2, <1>3, <1>4, <1>6, <1>7 DEF Line, LineOf
<1>9. LineOf(t)'
  BY <1>1, <1>5, <1>8, LineRequest, LineAck, LinePacket, LineParse, LineReply, LineLeaving
     DEF SendReceive
<1>10. \A u \in Threads \ {t} : At(u)'
  <2> SUFFICES ASSUME NEW u \in Threads \ {t} PROVE At(u)'
    OBVIOUS
  <2>1. pc'[u] \notin Busy
    BY <1>6, <1>7
  <2> QED
    BY <2>1 DEF At, Busy
<1> QED
  BY <1>9, <1>10 DEF LineOf

\* The GUI thread by itself keeps Line.
LEMMA LineGui ==
  ASSUME Careful, TypeOK, Excl, Line, User \/ GuiStep
  PROVE  Line'
<1>1. UNCHANGED <<net, ps2, main_socket>> /\ Running
  BY DEF User, UserHaltResume, UserReadMem, UserSearch, UserDump, UserReconnect, UserClose,
     UserExit, SysHalt, Call, GuiStep, DumpRAMClear, DumpRAMRefuse, DumpRAMStart, DisableTab,
     HandleContinue, GuiReturn, Goto, ntpb
<1> SUFFICES ASSUME main_socket \in open, link # "reset"
             PROVE  /\ (\A u \in Threads : pc'[u] \notin Busy \cup Trouble) => Quiet'
                    /\ \A u \in Threads : At(u)'
  BY <1>1 DEF Line, net
<1>2. /\ (\A u \in Threads : pc[u] \notin Busy \cup Trouble) => Quiet'
      /\ \A u \in Threads : At(u)
  BY <1>1 DEF Line, Quiet, net, ps2
<1>3. CASE DisableTab
  <2>1. /\ pc[GUI] = "disable" /\ pc' = [pc EXCEPT ![GUI] = "idle"]
        /\ UNCHANGED <<locals, dump, gcmd, buf>>
    BY <1>3 DEF DisableTab, Goto, ntpb
  <2>2. /\ pc \in [Threads -> Labels] /\ GUI \in Threads
    BY DEF TypeOK, ThreadType
  <2>3. \A u \in Threads : \/ pc'[u] = pc[u]
                           \/ pc[u] = "disable" /\ pc'[u] = "idle"
    BY <2>1, <2>2
  <2>4. ASSUME NEW u \in Threads PROVE At(u)'
    <3>1. CASE pc'[u] = "idle"
      BY <3>1 DEF At
    <3>2. CASE pc'[u] = pc[u]
      BY <1>1, <1>2, <2>1, <3>2 DEF At, AtAck, AtRecv, AtParse, AtReply, CarriedOut, Data,
         Asked, IsRequest, IsReply, Cmd, Size, locals, dump, net, ps2
    <3> QED
      BY <2>3, <3>1, <3>2
  <2>5. (\A u \in Threads : pc'[u] \notin Busy \cup Trouble) =>
          \A u \in Threads : pc[u] \notin Busy \cup Trouble
    BY <2>3 DEF Busy, Trouble
  <2> QED
    BY <1>2, <2>4, <2>5
<1>4. CASE \A u \in Threads : /\ pc[u] \in AtRest
                              /\ pc'[u] \in AtRest \cup {"hdr", "close", "shut"}
  <2>1. \A u \in Threads : pc[u] \notin Busy \cup Trouble /\ pc'[u] \notin Busy
    BY <1>4 DEF AtRest, Busy, Trouble
  <2>2. ASSUME NEW u \in Threads PROVE At(u)'
    BY <2>1 DEF At, Busy
  <2> QED
    BY <1>2, <2>1, <2>2
<1>5. ~DisableTab => \A u \in Threads : /\ pc[u] \in AtRest
                                        /\ pc'[u] \in AtRest \cup {"hdr", "close", "shut"}
  BY GuiAlone
<1> QED
  BY <1>3, <1>4, <1>5

\* A new connection starts quiet.
LEMMA LineClient ==
  ASSUME TypeOK, Sockets, Sockets', Own, Line, NEW c \in ClientThreads,
         ClientStep(c) \/ NetlogPacket(c)
  PROVE  Line'
<1>a. cpc \in [ClientThreads -> ClientLabels]
  BY DEF TypeOK, ClientType
<1> USE DEF ClientGoto
<1>1. CASE ClientInit(c)
  BY <1>1 DEF ClientInit, CloseMain, Line
<1>2. CASE ClientTop(c) \/ ClientInitFails(c) \/ ClientShow(c) \/ NetlogPacket(c)
  <2>1. UNCHANGED <<ntpb, locals, pc, dump, gui, app, net, ps2>>
    BY <1>2 DEF ClientTop, ClientInitFails, ClientShow, NetlogPacket
  <2> QED
    BY <2>1 DEF Line, Quiet, At, AtAck, AtRecv, AtParse, AtReply, CarriedOut, Data, Asked,
       IsRequest, IsReply, Cmd, Size, ntpb, locals, dump, gui, net, ps2
<1>3. CASE ClientConnect(c)
  <2>1. cpc'[c] = "up"
    BY <1>a, <1>3 DEF ClientConnect
  <2>2. main_socket' \notin open'
    BY <2>1 DEF Sockets
  <2> QED
    BY <2>2 DEF Line
<1>4. CASE ClientPublish(c)
  <2>1. /\ cpc[c] = "set" /\ Running
        /\ UNCHANGED <<pc, toSrv, toCli, srv>>
    BY <1>4 DEF ClientPublish, net, ps2
  <2>2. main_socket \notin open /\ toSrv = <<>> /\ toCli = <<>> /\ srv = "idle"
    BY <2>1 DEF Sockets
  <2>3. Quiet'
    BY <2>1, <2>2 DEF Quiet
  <2>4. ASSUME NEW u \in Threads PROVE At(u)'
    <3>1. pc'[u] \notin Busy
      BY <2>1, <2>2 DEF Own, OwnOf
    <3> QED
      BY <3>1 DEF At, Busy
  <2> QED
    BY <2>3, <2>4 DEF Line
<1> QED
  BY <1>1, <1>2, <1>3, <1>4 DEF ClientStep

\* The PS2 takes the request that is on the line, and carries it out.
LEMMA LineSrvCommand ==
  ASSUME TypeOK, NEW t \in Threads, OwnOf(t), At(t), SrvCommand
  PROVE  At(t)'
<1> USE ConstantsAssumption
<1>a. /\ toSrv \in Seq(Packets) /\ toCli \in Seq(Packets) /\ halted \in BOOLEAN
      /\ wpos \in [Threads -> Nat]
  BY DEF TypeOK, NetType, PS2Type, LocalsType
<1>b. /\ srv = "idle" /\ toSrv # <<>> /\ toSrv' = Tail(toSrv) /\ sNext' = 1
      /\ UNCHANGED <<pc, wpos, endT, file, gcmd, dumpInfo>>
  BY DEF SrvCommand, locals, dump, gui
<1>c. Len(toSrv) >= 1 /\ Head(toSrv) = toSrv[1] /\ Len(toSrv') = Len(toSrv) - 1
  BY <1>a, <1>b, QueueTail
<1>1. CASE pc[t] # "ack"
  <2>1. ~AtRecv(t) /\ ~AtParse(t) /\ ~AtReply(t)
    BY <1>b, <1>c DEF AtRecv, AtParse, AtReply, Data
  <2>2. pc[t] \notin Busy
    BY <1>1, <2>1 DEF At, Busy
  <2> QED
    BY <1>b, <2>2 DEF At, Busy
<1>2. CASE pc[t] = "ack"
  <2>1. AtAck(t)
    BY <1>2 DEF At
  <2>2. Len(toCli) = 0 /\ Len(toSrv) = 1 /\ IsRequest(t, Head(toSrv))
    BY <1>b, <1>c, <2>1 DEF AtAck
  <2>3. Len(toSrv') = 0
    BY <1>c, <2>2
  <2>4. CASE UNCHANGED <<toCli, srv>>
    <3>1. AtAck(t)'
      BY <1>b, <2>2, <2>3, <2>4 DEF AtAck
    <3> QED
      BY <1>b, <1>2, <3>1 DEF At
  <2>5. CASE toCli' = Append(toCli, Packet("ACK", 0)) /\ srv' = "send"
    <3>1. Packet("ACK", 0) \in Packets
      BY DEF Packets
    <3>2. Len(toCli') = 1
      BY <1>a, <2>2, <2>5, <3>1, QueueAppend
    <3>3. wpos[t] = 0 /\ (t # GUI => file[t] = <<>>)
      BY <1>2 DEF OwnOf
    <3>4. /\ Head(toSrv).cmd = Cmd(t)
          /\ Cmd(t) = "DUMP" => Head(toSrv).body = Size(t)
          /\ Cmd(t)' = Cmd(t)
      BY <1>b, <2>2 DEF IsRequest, Cmd
    <3>5. /\ halted' = IF Cmd(t) = "HALT" THEN TRUE
                       ELSE IF Cmd(t) = "RESUME" THEN FALSE ELSE halted
          /\ sTodo' = IF Cmd(t) = "DUMP" THEN Size(t) ELSE 0
      BY <3>4 DEF SrvCommand
    <3>6. sTodo' = Asked(t)' /\ (Cmd(t)' = "HALT" => halted')
      BY <3>4, <3>5 DEF Asked, Size
    <3>7. wpos'[t] = 0 /\ 0 <= sTodo'
      BY <1>b, <3>3, <3>5 DEF Size
    <3>8. t # GUI => file'[t] = Blocks(wpos'[t])
      BY <1>b, <3>3, <3>7, NoBlocks
    <3>9. CarriedOut(t)'
      BY <3>6, <3>7, <3>8 DEF CarriedOut
    <3>10. AtAck(t)'
      BY <1>b, <2>3, <2>5, <3>2, <3>9 DEF AtAck
    <3> QED
      BY <1>b, <1>2, <3>10 DEF At
  <2> QED
    BY <2>4, <2>5 DEF SrvCommand
<1> QED
  BY <1>1, <1>2

\* It sends one packet at a time.
LEMMA LineSrvSend ==
  ASSUME TypeOK, NEW t \in Threads, OwnOf(t), At(t), SrvSend
  PROVE  At(t)'
<1> USE ConstantsAssumption
<1>a. /\ toCli \in Seq(Packets) /\ sNext \in Nat /\ sTodo \in Nat
  BY DEF TypeOK, NetType, PS2Type
<1>b. /\ srv = "send"
      /\ UNCHANGED <<pc, wpos, endT, file, gcmd, dumpInfo, toSrv, sNext, sTodo, halted>>
  BY DEF SrvSend, locals, dump, gui
<1>c. PICK p \in Packets : toCli' = Append(toCli, p) /\ Data(p)'
  <2>1. CASE sNext <= sTodo
    <3>1. Packet("SEND_DUMP", sNext) \in Packets
      BY <1>a DEF Packets
    <3>2. toCli' = Append(toCli, Packet("SEND_DUMP", sNext)) /\ srv' = "wait"
      BY <2>1 DEF SrvSend
    <3>3. Data(Packet("SEND_DUMP", sNext))'
      BY <1>b, <2>1, <3>2 DEF Data
    <3> QED
      BY <1>b, <3>1, <3>2, <3>3
  <2>2. CASE ~(sNext <= sTodo)
    <3>1. Packet("END_TRANSMIT", 0) \in Packets
      BY DEF Packets
    <3>2. toCli' = Append(toCli, Packet("END_TRANSMIT", 0)) /\ srv' = "last"
      BY <2>2 DEF SrvSend
    <3>3. Data(Packet("END_TRANSMIT", 0))'
      BY <1>a, <1>b, <2>2, <3>2 DEF Data
    <3> QED
      BY <3>1, <3>2, <3>3
  <2> QED
    BY <2>1, <2>2
<1>d. Len(toCli') = Len(toCli) + 1 /\ toCli'[Len(toCli) + 1] = p
  BY <1>a, <1>c, QueueAppend
<1>e. CarriedOut(t)' = CarriedOut(t)
  BY <1>b DEF CarriedOut, Asked, Size, Cmd
<1>1. CASE pc[t] = "ack"
  <2>1. AtAck(t)
    BY <1>1 DEF At
  <2>2. Len(toSrv) = 0 /\ CarriedOut(t) /\ sNext = 1 /\ Len(toCli) = 1
    BY <1>b, <2>1 DEF AtAck, Data
  <2>3. Len(toCli') = 2 /\ Data(toCli[2])'
    BY <1>c, <1>d, <2>2
  <2>4. AtAck(t)'
    BY <1>b, <1>e, <2>2, <2>3 DEF AtAck
  <2> QED
    BY <1>b, <1>1, <2>4 DEF At
<1>2. CASE pc[t] = "recv"
  <2>1. AtRecv(t)
    BY <1>2 DEF At
  <2>2. /\ CarriedOut(t) /\ endT[t] = FALSE
        /\ Len(toSrv) = 0 /\ Len(toCli) = 0 /\ sNext = wpos[t] + 1
    BY <1>b, <2>1 DEF AtRecv, Data
  <2>3. Len(toCli') = 1 /\ Data(toCli[1])'
    BY <1>c, <1>d, <2>2
  <2>4. AtRecv(t)'
    BY <1>b, <1>e, <2>2, <2>3 DEF AtRecv
  <2> QED
    BY <1>b, <1>2, <2>4 DEF At
<1>3. CASE pc[t] \notin {"ack", "recv"}
  <2>1. ~AtParse(t) /\ ~AtReply(t)
    BY <1>b DEF AtParse, AtReply, Data
  <2> QED
    BY <1>b, <1>3, <2>1 DEF At
<1> QED
  BY <1>1, <1>2, <1>3

\* It takes an answer and goes on with the next packet, or is done.
LEMMA LineSrvReply ==
  ASSUME TypeOK, NEW t \in Threads, OwnOf(t), At(t), SrvReply
  PROVE  At(t)'
<1> USE ConstantsAssumption
<1>a. /\ toSrv \in Seq(Packets) /\ sNext \in Nat /\ sTodo \in Nat /\ wpos \in [Threads -> Nat]
  BY DEF TypeOK, NetType, PS2Type, LocalsType
<1>b. /\ srv \in {"wait", "last"} /\ toSrv # <<>> /\ toSrv' = Tail(toSrv)
      /\ UNCHANGED <<pc, wpos, endT, file, gcmd, dumpInfo, toCli, halted>>
  BY DEF SrvReply, locals, dump, gui
<1>c. /\ Len(toSrv) >= 1 /\ Len(toSrv') = Len(toSrv) - 1
      /\ \A i \in 1 .. Len(toSrv') : toSrv'[i] = toSrv[i + 1]
  BY <1>a, <1>b, QueueTail
<1>1. CASE pc[t] = "ack"
  <2>1. AtAck(t)
    BY <1>1 DEF At
  <2>2. srv = "last" /\ Len(toSrv) = 2 /\ Len(toCli) = 0 /\ IsRequest(t, toSrv[2])
    BY <1>b, <1>c, <2>1 DEF AtAck
  <2>3. srv' = "idle"
    BY <2>2 DEF SrvReply
  <2>4. Len(toSrv') = 1 /\ toSrv'[1] = toSrv[2]
    BY <1>c, <2>2
  <2>5. IsRequest(t, toSrv[1])'
    BY <1>b, <2>2, <2>4 DEF IsRequest, Cmd, Size
  <2>6. AtAck(t)'
    BY <1>b, <2>2, <2>3, <2>4, <2>5 DEF AtAck
  <2> QED
    BY <1>b, <1>1, <2>6 DEF At
<1>2. CASE pc[t] = "recv"
  <2>1. AtRecv(t)
    BY <1>2 DEF At
  <2>2. /\ CarriedOut(t) /\ endT[t] = FALSE
        /\ srv = "wait" /\ Len(toSrv) = 1 /\ Len(toCli) = 0 /\ sNext = wpos[t]
    BY <1>b, <1>c, <2>1 DEF AtRecv
  <2>3. srv' = "send" /\ sNext' = sNext + 1 /\ sTodo' = sTodo
    BY <2>2 DEF SrvReply
  <2>4. CarriedOut(t)'
    BY <1>b, <2>2, <2>3 DEF CarriedOut, Asked, Size, Cmd
  <2>5. Len(toSrv') = 0 /\ sNext' = wpos'[t] + 1
    BY <1>a, <1>b, <1>c, <2>2, <2>3
  <2>6. AtRecv(t)'
    BY <1>b, <2>2, <2>3, <2>4, <2>5 DEF AtRecv
  <2> QED
    BY <1>b, <1>2, <2>6 DEF At
<1>3. CASE pc[t] \notin {"ack", "recv"}
  <2>1. ~AtParse(t) /\ ~AtReply(t)
    BY <1>c DEF AtParse, AtReply
  <2> QED
    BY <1>b, <1>3, <2>1 DEF At
<1> QED
  BY <1>1, <1>2, <1>3

\* The PS2 keeps Line.
LEMMA LinePS2 ==
  ASSUME TypeOK, Own, Line, PS2Step
  PROVE  Line'
<1>1. UNCHANGED <<pc, main_socket, open, link, app>> /\ Running
  BY DEF PS2Step, SrvCommand, SrvSend, SrvReply, ntpb
<1> SUFFICES ASSUME main_socket \in open, link # "reset"
             PROVE  /\ (\A u \in Threads : pc[u] \notin Busy \cup Trouble) => Quiet'
                    /\ \A u \in Threads : At(u)'
  BY <1>1 DEF Line
<1>2. /\ (\A u \in Threads : pc[u] \notin Busy \cup Trouble) => Quiet
      /\ \A u \in Threads : At(u) /\ OwnOf(u)
  BY <1>1 DEF Line, Own
<1>3. \A u \in Threads : At(u)'
  BY <1>2, LineSrvCommand, LineSrvSend, LineSrvReply DEF PS2Step
<1>4. Quiet => Quiet'
  <2> SUFFICES ASSUME Quiet PROVE Quiet'
    OBVIOUS
  <2>a. toSrv \in Seq(Packets)
    BY DEF TypeOK, NetType
  <2>1. ~SrvSend
    BY DEF SrvSend, Quiet
  <2>2. ~SrvCommand
    <3>1. toSrv # <<>> => Len(toSrv) # 0
      BY <2>a
    <3> QED
      BY <3>1 DEF SrvCommand, Quiet
  <2>3. SrvReply
    BY <2>1, <2>2 DEF PS2Step
  <2>4. srv = "last" /\ toSrv # <<>> /\ Len(toSrv) = 1
    BY <2>3 DEF SrvReply, Quiet
  <2>5. toSrv' = Tail(toSrv) /\ srv' = "idle" /\ toCli' = toCli
    BY <2>3, <2>4 DEF SrvReply
  <2>6. Len(toSrv') = 0
    BY <2>a, <2>4, <2>5, QueueTail
  <2> QED
    BY <2>5, <2>6 DEF Quiet
<1> QED
  BY <1>2, <1>3, <1>4

\* Line is an invariant.
LEMMA LineCorrect == ASSUME Careful PROVE Spec => []Line
<1>1. Init => Line
  BY ConstantsAssumption DEF Init, Line
<1>2. TypeOK /\ Excl /\ Sockets /\ Sockets' /\ Own /\ Line /\ [Next]_vars => Line'
  <2> SUFFICES ASSUME TypeOK, Excl, Sockets, Sockets', Own, Line, [Next]_vars PROVE Line'
    OBVIOUS
  <2>1. CASE \E t \in Threads : SendReceive(t)
    BY <2>1, LineSendReceive
  <2>2. CASE User \/ GuiStep
    BY <2>2, LineGui
  <2>3. CASE \E c \in ClientThreads : ClientStep(c) \/ NetlogPacket(c)
    BY <2>3, LineClient
  <2>4. CASE PS2Step
    BY <2>4, LinePS2
  <2>5. CASE LinkFault \/ UNCHANGED vars
    <3>1. /\ UNCHANGED <<ntpb, locals, pc, dump, gui, app, open, peer, toSrv, toCli, sNext, sTodo>>
          /\ \/ link' = "reset"
             \/ UNCHANGED <<srv, halted>> /\ (link = "reset" => link' = "reset")
      BY <2>5 DEF LinkFault, vars, net, ps2
    <3> QED
      BY <3>1 DEF Line, Quiet, At, AtAck, AtRecv, AtParse, AtReply, CarriedOut, Data, Asked,
         IsRequest, IsReply, Cmd, Size, ntpb, locals, dump, gui
  <2> QED
    BY <2>1, <2>2, <2>3, <2>4, <2>5 DEF Next, Ended
<1> QED
  BY TypeCorrect, ExclCorrect, SocketsCorrect, OwnCorrect, <1>1, <1>2, PTL DEF Spec

-----------------------------------------------------------------------------
(* A dump that is done is complete.                                        *)

\* When the answer to the end of the data of a dump leaves, the file is whole.
LEMMA WholeReply ==
  ASSUME TypeOK, Own, Line, NEW t \in IoThreads, Reply(t), pc'[t] = "bar2"
  PROVE  file'[t] = Blocks(NBlocks)
<1> USE ConstantsAssumption
<1>1. /\ pc[t] = "reply" /\ ~Broken(main_socket) /\ endT[t] /\ UNCHANGED file
      /\ Running /\ t # GUI
  <2>1. pc \in [Threads -> Labels] /\ endT \in [Threads -> BOOLEAN]
    BY DEF TypeOK, ThreadType, LocalsType
  <2>2. UNCHANGED file /\ Running
    BY OthersLocals DEF Reply, dump, SendReceive
  <2>3. \/ pc[t] = "reply" /\ pc'[t] = "box"
        \/ /\ pc[t] = "reply" /\ ~Broken(main_socket)
           /\ pc'[t] = IF endT[t] THEN "bar2" ELSE "recv"
    BY <2>1 DEF Reply, Transmit, Goto
  <2> QED
    BY <2>1, <2>2, <2>3
<1>2. AtReply(t)
  BY <1>1 DEF Line, At, Broken
<1>3. dumpInfo.cmd = "DUMP"
  BY <1>1 DEF Own, OwnOf, Busy
<1>4. Asked(t) = NBlocks
  BY <1>1, <1>3 DEF Asked, Cmd, Size
<1>5. wpos[t] = sTodo /\ CarriedOut(t)
  BY <1>1, <1>2 DEF AtReply
<1> QED
  BY <1>1, <1>4, <1>5 DEF CarriedOut

\* The thread of a dump comes to its end through that answer alone; any other way
\* out of SendReceiveThread says that it failed.
LEMMA WholeSendReceive ==
  ASSUME Careful, TypeOK, Excl, Own, Line, Whole, NEW t \in Threads, SendReceive(t)
  PROVE  Whole'
<1> USE ConstantsAssumption
<1>a. /\ pc \in [Threads -> Labels] /\ ok \in [Threads -> BOOLEAN]
      /\ Running /\ pc[t] \in Comms
  BY OthersLocals, SendReceiveMoves DEF TypeOK, ThreadType
<1> SUFFICES ASSUME Running', NEW u \in IoThreads,
                    pc'[u] \in {"bar2", "rel"} \/ (pc'[u] = "notify" /\ ok'[u])
             PROVE  file'[u] = Blocks(NBlocks)
  BY DEF Whole
<1>1. u = t
  <2>1. SUFFICES ASSUME u # t PROVE FALSE
    OBVIOUS
  <2>2. pc[u] # "idle"
    BY <2>1, OthersLocals
  <2>3. pc[t] # "idle" /\ Patient
    BY <1>a DEF Comms, Careful
  <2> QED
    BY <1>a, <2>1, <2>2, <2>3 DEF Excl
<1>b. pc[u] \in {"bar2", "rel"} => file[u] = Blocks(NBlocks)
  BY <1>a DEF Whole
<1> USE DEF Goto
<1>2. CASE WriteHeader(t) \/ CheckBusy(t) \/ Claim(t) \/ SendRequest(t)
  BY <1>1, <1>2, <1>a DEF WriteHeader, CheckBusy, Claim, SendRequest, Transmit
<1>3. CASE ReceiveAck(t) \/ ReceivePacket(t) \/ StepBar(t, "bar", "reply")
  BY <1>1, <1>3, <1>a DEF ReceiveAck, ReceivePacket, Receive, StepBar
<1>4. CASE ParsePacket(t)
  BY <1>1, <1>4, <1>a DEF ParsePacket, StoreBlock, EndTransmit, OtherPacket
<1>5. CASE Reply(t)
  <2>1. pc'[t] \in {"bar2", "recv", "box"}
    BY <1>5, <1>a DEF Reply, Transmit
  <2> QED
    BY <1>1, <1>5, <2>1, WholeReply
<1>6. CASE StepBar(t, "bar2", "rel") \/ Release(t)
  <2>1. pc[t] \in {"bar2", "rel"} /\ UNCHANGED file
    BY <1>6 DEF StepBar, Release, dump
  <2> QED
    BY <1>1, <1>b, <2>1
<1>7. CASE \/ DismissBox(t) \/ ErrorRelease(t) \/ StepBar(t, "bar3", "close") \/ ErrorClose(t)
           \/ ShutdownAsk(t)
  BY <1>1, <1>7, <1>a DEF DismissBox, ErrorRelease, StepBar, ErrorClose, ShutdownAsk
<1>8. CASE ShutdownAnswer(t) \/ ShutdownKill(t)
  BY <1>1, <1>8, <1>a DEF ShutdownAnswer, ShutdownKill, Careful
<1>9. CASE SpawnClient(t)
  <2>1. pc'[t] \in {"notify", "idle", "ret"} /\ ok'[t] = FALSE
    BY <1>1, <1>9, <1>a DEF SpawnClient, Leave
  <2> QED
    BY <1>1, <2>1
<1> QED
  BY <1>2, <1>3, <1>4, <1>5, <1>6, <1>7, <1>8, <1>9 DEF SendReceive

\* The GUI thread opens the file of the next dump only when the last one is over.
LEMMA WholeGui ==
  ASSUME Careful, TypeOK, Excl, Whole, User \/ GuiStep
  PROVE  Whole'
<1> USE ConstantsAssumption
<1>a. /\ pc \in [Threads -> Labels] /\ GUI \in Threads /\ IoThreads \subseteq Threads
      /\ Patient
  BY DEF TypeOK, ThreadType, Careful
<1> SUFFICES ASSUME NEW u \in IoThreads,
                    pc'[u] \in {"bar2", "rel"} \/ (pc'[u] = "notify" /\ ok'[u]), Running'
             PROVE  file'[u] = Blocks(NBlocks)
  BY DEF Whole
<1>1. CASE User
  BY <1>1, <1>a, UserMoves
<1>2. CASE DumpRAMClear \/ DumpRAMRefuse \/ GuiReturn
  BY <1>2, <1>a DEF DumpRAMClear, DumpRAMRefuse, GuiReturn, Goto, Excl
<1>3. CASE DumpRAMStart
  <2>1. \A t \in IoThreads : pc[t] = "idle"
    BY <1>3, <1>a DEF DumpRAMStart, Excl
  <2>2. pc'[u] \in {"idle", "hdr"}
    BY <1>3, <1>a, <2>1 DEF DumpRAMStart
  <2> QED
    BY <2>2
<1>4. CASE DisableTab
  <2>1. Running /\ pc'[u] = pc[u] /\ UNCHANGED <<file, ok>>
    BY <1>4, <1>a DEF DisableTab, Goto, dump
  <2> QED
    BY <2>1 DEF Whole
<1>5. CASE HandleContinue
  <2>1. PICK t \in IoThreads :
          /\ pc[t] = "notify"
          /\ \/ pc' = [pc EXCEPT ![t] = "idle", ![GUI] = "hdr"]
             \/ pc' = [pc EXCEPT ![t] = "idle"]
    BY <1>5 DEF HandleContinue, AfterNotify
  <2>2. pc'[u] = "idle"
    BY <1>a, <2>1 DEF Excl
  <2> QED
    BY <2>2
<1> QED
  BY <1>1, <1>2, <1>3, <1>4, <1>5 DEF GuiStep

\* A dump that DumpRAM's thread reports as done is in its file, every block once
\* and in order, however often the connection was lost and replaced in the middle
\* of earlier commands: nothing of an earlier command is left on a line that a
\* later one uses.
THEOREM DumpCompleteCorrect == ASSUME Careful PROVE Spec => []DumpComplete
<1>1. Init => Whole
  BY DEF Init, Whole
<1>2. TypeOK /\ Excl /\ Own /\ Line /\ Whole /\ [Next]_vars => Whole'
  <2> SUFFICES ASSUME TypeOK, Excl, Own, Line, Whole, [Next]_vars PROVE Whole'
    OBVIOUS
  <2>1. CASE \E t \in Threads : SendReceive(t)
    BY <2>1, WholeSendReceive
  <2>2. CASE User \/ GuiStep
    BY <2>2, WholeGui
  <2>3. CASE \/ \E c \in ClientThreads : ClientStep(c) \/ NetlogPacket(c)
             \/ PS2Step \/ LinkFault \/ UNCHANGED vars
    <3>1. UNCHANGED <<pc, ok, file, app>>
      BY <2>3 DEF ClientStep, ClientInit, ClientInitFails, ClientTop, ClientConnect, ClientShow, ClientPublish,
         NetlogPacket, PS2Step, SrvCommand, SrvSend, SrvReply, LinkFault, vars, dump
    <3> QED
      BY <3>1 DEF Whole
  <2> QED
    BY <2>1, <2>2, <2>3 DEF Next, Ended
<1>3. Whole => DumpComplete
  BY DEF Whole, DumpComplete
<1> QED
  BY TypeCorrect, ExclCorrect, OwnCorrect, LineCorrect, <1>1, <1>2, <1>3, PTL DEF Spec

-----------------------------------------------------------------------------
(* A PS2 that is believed to be halted is.                                 *)

\* The only command that resumes the PS2 is sent while haltState is 0 already.
LEMMA HaltedSendReceive ==
  ASSUME Careful, TypeOK, Own, Line, Belief, NEW t \in Threads, SendReceive(t), haltState = 1,
         StaysHalted
  PROVE  StaysHalted'
<1> USE ConstantsAssumption
<1>a. toSrv \in Seq(Packets) /\ buf \in Packets /\ Running
  BY OthersLocals DEF TypeOK, NetType, NtpbType
<1>1. CASE SendRequest(t)
  <2>1. pc[t] = "send" /\ UNCHANGED halted
    BY <1>1 DEF SendRequest, Transmit, Goto, ps2
  <2>2. buf.cmd = Cmd(t)
    BY <1>a, <2>1 DEF Own, OwnOf, IsRequest
  <2>3. Cmd(t) # "RESUME"
    <3>1. CASE t = GUI
      <4>1. gcmd # "RESUME"
        BY <1>a, <2>1, <3>1 DEF Belief, Before
      <4> QED
        BY <3>1, <4>1 DEF Cmd
    <3>2. CASE t # GUI
      <4>1. dumpInfo.cmd = "DUMP"
        BY <1>a, <2>1, <3>2 DEF Own, OwnOf, Before
      <4> QED
        BY <3>2, <4>1 DEF Cmd
    <3> QED
      BY <3>1, <3>2
  <2>4. toSrv' = toSrv \/ toSrv' = Append(toSrv, buf)
    BY <1>1 DEF SendRequest, Transmit
  <2>5. ASSUME NEW i \in 1 .. Len(Append(toSrv, buf))
        PROVE  Append(toSrv, buf)[i].cmd # "RESUME"
    <3>1. Len(Append(toSrv, buf)) = Len(toSrv) + 1 /\ Len(toSrv) \in Nat
      BY <1>a, QueueAppend
    <3>2. CASE i = Len(toSrv) + 1
      BY <1>a, <2>2, <2>3, <3>2, QueueAppend
    <3>3. CASE i \in 1 .. Len(toSrv)
      BY <1>a, <3>3, QueueAppend DEF StaysHalted
    <3> QED
      BY <3>1, <3>2, <3>3
  <2> QED
    BY <2>1, <2>4, <2>5 DEF StaysHalted
<1>2. CASE Reply(t)
  <2>1. pc[t] = "reply" /\ UNCHANGED halted
    BY <1>2 DEF Reply, Transmit, Goto, ps2
  <2>2. \/ UNCHANGED toSrv
        \/ ~Broken(main_socket) /\ toSrv' = Append(toSrv, buf')
    BY <1>2 DEF Reply, Transmit
  <2>3. CASE ~Broken(main_socket) /\ toSrv' = Append(toSrv, buf')
    <3>1. AtReply(t)
      BY <1>a, <2>1, <2>3 DEF Line, At, Broken
    <3>2. buf' \in Packets /\ buf'.cmd = buf.cmd
      BY <1>2, <1>a DEF Reply, Packets
    <3>3. Len(toSrv) = 0 /\ buf'.cmd # "RESUME"
      BY <3>1, <3>2 DEF AtReply
    <3>4. Len(toSrv') = 1 /\ toSrv'[1] = buf'
      BY <1>a, <2>3, <3>2, <3>3, QueueAppend
    <3> QED
      BY <2>1, <3>3, <3>4 DEF StaysHalted
  <2>4. CASE UNCHANGED toSrv
    BY <2>1, <2>4 DEF StaysHalted
  <2> QED
    BY <2>2, <2>3, <2>4
<1>3. CASE ~SendRequest(t) /\ ~Reply(t)
  <2>1. UNCHANGED <<toSrv, halted>>
    BY <1>3 DEF SendReceive, WriteHeader, CheckBusy, Claim, ReceiveAck, ReceivePacket,
       ParsePacket, StepBar, Release, DismissBox, ErrorRelease, ErrorClose, ShutdownAsk,
       ShutdownAnswer, ShutdownKill, SpawnClient, net, ps2
  <2> QED
    BY <2>1 DEF StaysHalted
<1> QED
  BY <1>1, <1>2, <1>3

\* So does the rest of the system, unless the PS2 restarts.
LEMMA HaltedOthers ==
  ASSUME TypeOK, "reboot" \notin Faults, StaysHalted,
         \/ \E c \in ClientThreads : ClientStep(c) \/ NetlogPacket(c)
         \/ PS2Step \/ LinkFault \/ User \/ GuiStep \/ UNCHANGED vars
  PROVE  StaysHalted'
<1>a. toSrv \in Seq(Packets) /\ halted
  BY DEF TypeOK, NetType, StaysHalted
<1>1. CASE SrvCommand \/ SrvReply
  <2>1. toSrv # <<>> /\ toSrv' = Tail(toSrv)
    BY <1>1 DEF SrvCommand, SrvReply
  <2>2. /\ Len(toSrv) >= 1 /\ Head(toSrv) = toSrv[1] /\ Len(toSrv') = Len(toSrv) - 1
        /\ \A i \in 1 .. Len(toSrv') : toSrv'[i] = toSrv[i + 1]
    BY <1>a, <2>1, QueueTail
  <2>3. Len(toSrv) \in Nat
    BY <1>a
  <2>4. \A i \in 1 .. Len(toSrv') : toSrv'[i].cmd # "RESUME"
    BY <2>2, <2>3 DEF StaysHalted
  <2>5. Head(toSrv).cmd # "RESUME"
    BY <2>2, <2>3 DEF StaysHalted
  <2>6. halted'
    BY <1>1, <1>a, <2>5 DEF SrvCommand, SrvReply
  <2> QED
    BY <2>4, <2>6 DEF StaysHalted
<1>2. CASE \E c \in ClientThreads : ClientConnect(c)
  <2>1. toSrv' = <<>> /\ halted' = halted
    BY <1>2 DEF ClientConnect
  <2>2. Len(toSrv') = 0
    BY <2>1
  <2> QED
    BY <1>a, <2>1, <2>2 DEF StaysHalted
<1>3. CASE \/ \E c \in ClientThreads : \/ ClientInit(c) \/ ClientInitFails(c) \/ ClientTop(c) \/ ClientShow(c)
                                       \/ ClientPublish(c) \/ NetlogPacket(c)
           \/ SrvSend \/ LinkFault \/ UNCHANGED vars
  <2>1. UNCHANGED <<toSrv, halted>>
    BY <1>3 DEF ClientInit, ClientInitFails, ClientTop, ClientShow, ClientPublish, NetlogPacket, SrvSend,
       LinkFault, vars, net, ps2
  <2> QED
    BY <2>1 DEF StaysHalted
<1>4. CASE User \/ GuiStep
  <2>1. UNCHANGED <<toSrv, halted>>
    BY <1>4 DEF User, UserHaltResume, UserReadMem, UserSearch, UserDump, UserReconnect,
       UserClose, UserExit, GuiStep, DumpRAMClear, DumpRAMRefuse, DumpRAMStart, DisableTab,
       HandleContinue, GuiReturn, net, ps2
  <2> QED
    BY <2>1 DEF StaysHalted
<1> QED
  BY <1>1, <1>2, <1>3, <1>4 DEF ClientStep, PS2Step

\* A command of the GUI thread that ends well ends with the PS2 halted if that was
\* the command, and a thread that enters lib_ntpb.c enters it at the top.
LEMMA BeliefEnd ==
  ASSUME Careful, TypeOK, Excl, Own, Line, Belief, NEW t \in Threads, SendReceive(t), Running',
         InHalt, pc'[GUI] \in {"bar2", "rel"} \/ (pc'[GUI] = "ret" /\ ok'[GUI])
  PROVE  StaysHalted'
<1> USE ConstantsAssumption
<1>a. /\ pc \in [Threads -> Labels] /\ ok \in [Threads -> BOOLEAN] /\ GUI \in Threads
      /\ Running /\ pc[t] \in Comms /\ toSrv \in Seq(Packets) /\ buf \in Packets
      /\ endT \in [Threads -> BOOLEAN]
  BY OthersLocals, SendReceiveMoves DEF TypeOK, ThreadType, NetType, NtpbType, LocalsType
<1>1. t = GUI
  <2>1. SUFFICES ASSUME t # GUI PROVE FALSE
    OBVIOUS
  <2>2. Patient /\ pc[t] # "idle"
    BY <1>a DEF Careful, Comms
  <2>3. pc[GUI] \in Comms \cup {"ret"}
    BY DEF InHalt
  <2> QED
    BY <2>1, <2>2, <2>3 DEF Excl
<1>b. pc[GUI] \in {"bar2", "rel"} => StaysHalted
  BY <1>a DEF Belief
<1>c. task \in {"syshalt", "search"} /\ gcmd = "HALT"
  BY DEF InHalt
<1> USE DEF Goto
<1>2. CASE WriteHeader(t) \/ CheckBusy(t) \/ Claim(t) \/ SendRequest(t)
  BY <1>1, <1>2, <1>a DEF WriteHeader, CheckBusy, Claim, SendRequest, Transmit
<1>3. CASE ReceiveAck(t) \/ ReceivePacket(t) \/ StepBar(t, "bar", "reply")
  BY <1>1, <1>3, <1>a DEF ReceiveAck, ReceivePacket, Receive, StepBar
<1>4. CASE ParsePacket(t)
  BY <1>1, <1>4, <1>a DEF ParsePacket, StoreBlock, EndTransmit, OtherPacket
<1>5. CASE Reply(t)
  <2>1. \/ pc'[t] = "box"
        \/ /\ ~Broken(main_socket) /\ pc[t] = "reply"
           /\ pc'[t] = IF endT[t] THEN "bar2" ELSE "recv"
           /\ toSrv' = Append(toSrv, buf') \/ UNCHANGED toSrv
    BY <1>5, <1>a DEF Reply, Transmit
  <2>2. /\ ~Broken(main_socket) /\ pc[t] = "reply" /\ endT[t] = TRUE
        /\ toSrv' = Append(toSrv, buf') \/ UNCHANGED toSrv
    BY <1>1, <1>a, <2>1
  <2>3. AtReply(t)
    BY <1>a, <2>2 DEF Line, At, Broken
  <2>4. CarriedOut(t) /\ Len(toSrv) = 0 /\ buf.cmd = "END_TRANSMIT"
    BY <2>2, <2>3 DEF AtReply
  <2>5. halted /\ UNCHANGED halted
    BY <1>1, <1>5, <1>c, <2>4 DEF CarriedOut, Cmd, Reply, ps2
  <2>6. buf' \in Packets /\ buf'.cmd = buf.cmd
    BY <1>5, <1>a DEF Reply, Packets
  <2>7. \A i \in 1 .. Len(toSrv') : toSrv'[i].cmd # "RESUME"
    <3>1. CASE UNCHANGED toSrv
      BY <2>4, <3>1
    <3>2. CASE toSrv' = Append(toSrv, buf')
      <4>1. Len(toSrv') = 1 /\ toSrv'[1] = buf'
        BY <1>a, <2>4, <2>6, <3>2, QueueAppend
      <4> QED
        BY <2>4, <2>6, <4>1
    <3> QED
      BY <2>2, <3>1, <3>2
  <2> QED
    BY <2>5, <2>7 DEF StaysHalted
<1>6. CASE StepBar(t, "bar2", "rel") \/ Release(t)
  <2>1. pc[t] \in {"bar2", "rel"} /\ UNCHANGED <<toSrv, halted>>
    BY <1>6 DEF StepBar, Release, net, ps2
  <2> QED
    BY <1>1, <1>b, <2>1 DEF StaysHalted
<1>7. CASE \/ DismissBox(t) \/ ErrorRelease(t) \/ StepBar(t, "bar3", "close") \/ ErrorClose(t)
           \/ ShutdownAsk(t)
  BY <1>1, <1>7, <1>a DEF DismissBox, ErrorRelease, StepBar, ErrorClose, ShutdownAsk
<1>8. CASE ShutdownAnswer(t) \/ ShutdownKill(t)
  BY <1>1, <1>8, <1>a DEF ShutdownAnswer, ShutdownKill, Careful
<1>9. CASE SpawnClient(t)
  <2>1. pc'[t] = "ret" /\ ok'[t] = FALSE
    BY <1>1, <1>9, <1>a, <1>c DEF SpawnClient, Leave
  <2> QED
    BY <1>1, <2>1
<1> QED
  BY <1>2, <1>3, <1>4, <1>5, <1>6, <1>7, <1>8, <1>9 DEF SendReceive

\* SysHalt ends where GuiReturn judges its result, not in lib_ntpb.c.
LEMMA InHaltKept ==
  ASSUME TypeOK, NEW t \in Threads, SendReceive(t), Running'
  PROVE  InHalt' <=> InHalt
<1> USE ConstantsAssumption
<1>a. /\ pc \in [Threads -> Labels] /\ GUI \in Threads
      /\ UNCHANGED <<task, gcmd>>
  BY OthersLocals DEF TypeOK, ThreadType, gui
<1>1. CASE t # GUI
  BY <1>1, <1>a, OthersLocals DEF InHalt
<1>2. CASE t = GUI
  <2>1. pc[GUI] \in Comms /\ pc'[GUI] \in Comms \cup {"ret", "idle"}
    BY <1>a, <1>2, SendReceiveMoves
  <2>2. ASSUME task \in {"syshalt", "search"} PROVE pc'[GUI] # "idle"
    <3> USE DEF Goto
    <3>1. CASE WriteHeader(t) \/ CheckBusy(t) \/ Claim(t) \/ SendRequest(t)
      BY <1>2, <1>a, <3>1 DEF WriteHeader, CheckBusy, Claim, SendRequest, Transmit
    <3>2. CASE ReceiveAck(t) \/ ReceivePacket(t)
      BY <1>2, <1>a, <3>2 DEF ReceiveAck, ReceivePacket, Receive
    <3>3. CASE ParsePacket(t)
      BY <1>2, <1>a, <3>3 DEF ParsePacket, StoreBlock, EndTransmit, OtherPacket
    <3>4. CASE StepBar(t, "bar", "reply") \/ StepBar(t, "bar2", "rel") \/ StepBar(t, "bar3", "close")
      BY <1>2, <1>a, <3>4 DEF StepBar
    <3>5. CASE Reply(t)
      <4>1. pc'[t] \in {"box", "bar2", "recv"}
        BY <1>2, <1>a, <3>5 DEF Reply, Transmit
      <4> QED
        BY <1>2, <4>1
    <3>6. CASE Release(t) \/ SpawnClient(t)
      BY <1>2, <1>a, <3>6 DEF Release, SpawnClient, Leave
    <3>7. CASE DismissBox(t) \/ ErrorRelease(t) \/ ErrorClose(t) \/ ShutdownAsk(t)
      BY <1>2, <1>a, <3>7 DEF DismissBox, ErrorRelease, ErrorClose, ShutdownAsk
    <3>8. CASE ShutdownAnswer(t)
      BY <1>2, <1>a, <3>8 DEF ShutdownAnswer, Refused
    <3>9. CASE ShutdownKill(t)
      <4>1. task # "close"
        BY <2>2
      <4> QED
        BY <1>2, <1>a, <3>9, <4>1 DEF ShutdownKill
    <3> QED
      BY <3>1, <3>2, <3>3, <3>4, <3>5, <3>6, <3>7, <3>8, <3>9 DEF SendReceive
  <2> QED
    BY <1>a, <2>1, <2>2 DEF InHalt
<1> QED
  BY <1>1, <1>2

\* A command keeps Belief.
LEMMA BeliefSendReceive ==
  ASSUME Careful, TypeOK, Excl, Own, Line, Belief, NEW t \in Threads, SendReceive(t)
  PROVE  Belief'
<1> USE ConstantsAssumption
<1> SUFFICES ASSUME Running' PROVE Belief'
  BY DEF Belief
<1>a. /\ pc \in [Threads -> Labels] /\ GUI \in Threads
      /\ Running /\ UNCHANGED <<task, gcmd>>
  BY OthersLocals DEF TypeOK, ThreadType, gui
<1>b. UNCHANGED haltState
  BY DEF SendReceive, WriteHeader, CheckBusy, Claim, SendRequest, ReceiveAck, ReceivePacket,
     ParsePacket, StepBar, Reply, Release, DismissBox, ErrorRelease, ErrorClose, ShutdownAsk,
     ShutdownAnswer, ShutdownKill, SpawnClient, ntpb
<1>c. InHalt' <=> InHalt
  BY InHaltKept
<1>1. haltState' = 1 /\ ~InHalt' => StaysHalted'
  BY <1>a, <1>b, <1>c, HaltedSendReceive DEF Belief
<1>2. InHalt' /\ (pc'[GUI] \in {"bar2", "rel"} \/ (pc'[GUI] = "ret" /\ ok'[GUI])) => StaysHalted'
  BY <1>c, BeliefEnd
<1>3. pc'[GUI] \in Before => pc[GUI] \in Before
  <2>1. CASE t # GUI
    BY <2>1, <1>a, OthersLocals
  <2>2. CASE t = GUI
    <3>1. CASE WriteHeader(t) \/ CheckBusy(t) \/ Claim(t)
      BY <2>2, <3>1 DEF WriteHeader, CheckBusy, Claim, Goto, Before
    <3>2. CASE SendRequest(t)
      BY <2>2, <3>2 DEF SendRequest, Transmit, Goto, Before
    <3>3. CASE ReceiveAck(t) \/ ReceivePacket(t) \/ ParsePacket(t)
      BY <2>2, <3>3, <1>a DEF ReceiveAck, ReceivePacket, Receive, ParsePacket, StoreBlock,
         EndTransmit, OtherPacket, Goto, Before
    <3>4. CASE Reply(t)
      <4>1. pc'[t] \in {"box", "bar2", "recv"}
        BY <2>2, <1>a, <3>4 DEF Reply, Transmit, Goto
      <4> QED
        BY <2>2, <4>1 DEF Before
    <3>5. CASE \/ StepBar(t, "bar", "reply") \/ StepBar(t, "bar2", "rel")
               \/ StepBar(t, "bar3", "close") \/ Release(t) \/ DismissBox(t) \/ ErrorRelease(t)
      BY <2>2, <3>5, <1>a DEF StepBar, Release, Leave, DismissBox, ErrorRelease, Goto, Before
    <3>6. CASE \/ ErrorClose(t) \/ ShutdownAsk(t) \/ ShutdownAnswer(t) \/ ShutdownKill(t)
               \/ SpawnClient(t)
      BY <2>2, <3>6, <1>a DEF ErrorClose, ShutdownAsk, ShutdownAnswer, ShutdownKill,
         SpawnClient, Leave, Refused, Goto, Before
    <3> QED
      BY <3>1, <3>2, <3>3, <3>4, <3>5, <3>6 DEF SendReceive
  <2> QED
    BY <2>1, <2>2
<1>4. pc'[GUI] \in Before /\ gcmd' = "RESUME" => haltState' = 0
  BY <1>3, <1>a, <1>b DEF Belief
<1> QED
  BY <1>1, <1>2, <1>4 DEF Belief

\* The user keeps Belief: haltState is flipped together with the start of the
\* command that is to make it true.
LEMMA BeliefUser ==
  ASSUME TypeOK, "reboot" \notin Faults, Belief, User
  PROVE  Belief'
<1> USE ConstantsAssumption
<1>a. /\ pc \in [Threads -> Labels] /\ GUI \in Threads /\ haltState \in {0, 1}
  BY DEF TypeOK, ThreadType, NtpbType
<1>b. StaysHalted => StaysHalted'
  BY HaltedOthers
<1>c. pc[GUI] = "idle"
  BY UserMoves
<1>d. Running /\ ~InHalt
  BY <1>c DEF User, UserHaltResume, UserReadMem, UserSearch, UserDump, UserReconnect,
     UserClose, UserExit, SysHalt, Call, Goto, InHalt, Comms
<1>e. haltState = 1 => StaysHalted'
  BY <1>b, <1>d DEF Belief
<1> USE DEF Goto
<1>1. ASSUME NEW halt \in {0, 1}, NEW why \in {"syshalt", "search"}, SysHalt("idle", halt, why)
      PROVE  Belief'
  <2>1. /\ haltState' = 1 - haltState /\ task' = why /\ pc'[GUI] = "hdr"
        /\ gcmd' = IF haltState' = 1 THEN "HALT" ELSE "RESUME"
    BY <1>1, <1>a DEF SysHalt, Call, Flip
  <2>2. haltState' = 1 => InHalt'
    BY <2>1 DEF InHalt, Comms, Labels
  <2>3. haltState' # 1 => haltState' = 0
    BY <1>a, <2>1
  <2> QED
    BY <2>1, <2>2, <2>3 DEF Belief
<1>2. CASE UserReadMem
  <2>1. gcmd' = "DUMP" /\ pc'[GUI] = "hdr" /\ UNCHANGED haltState
    BY <1>2, <1>a DEF UserReadMem, Call, ntpb
  <2> QED
    BY <1>e, <2>1 DEF Belief
<1>3. CASE UserDump \/ UserReconnect \/ UserClose \/ (UserSearch /\ ~(PS2Wait /\ haltState = 0))
  <2>1. pc'[GUI] \in {"memset", "close", "shut"} /\ UNCHANGED haltState
    BY <1>3, <1>a DEF UserDump, UserReconnect, UserClose, UserSearch, ntpb
  <2> QED
    BY <1>e, <2>1 DEF Belief, Before
<1>4. CASE UserExit
  BY <1>4 DEF UserExit, Belief
<1>5. CASE UserHaltResume \/ (UserSearch /\ PS2Wait /\ haltState = 0)
  BY <1>1, <1>5 DEF UserHaltResume, UserSearch
<1> QED
  BY <1>2, <1>3, <1>4, <1>5 DEF User

\* The rest of the GUI thread keeps Belief: SysHalt forgets a halt that failed, and
\* a search that is over resumes the PS2 only after it has cleared haltState.
LEMMA BeliefGuiStep ==
  ASSUME TypeOK, "reboot" \notin Faults, Belief, GuiStep
  PROVE  Belief'
<1> USE ConstantsAssumption
<1>a. /\ pc \in [Threads -> Labels] /\ GUI \in Threads /\ haltState \in {0, 1}
      /\ ok \in [Threads -> BOOLEAN]
  BY DEF TypeOK, ThreadType, NtpbType
<1>b. StaysHalted => StaysHalted'
  BY HaltedOthers
<1>c. Running
  BY DEF GuiStep, DumpRAMClear, DumpRAMRefuse, DumpRAMStart, DisableTab, HandleContinue,
     GuiReturn, Goto
<1>d. (haltState = 1 /\ ~InHalt => StaysHalted) /\ (InHalt /\ pc[GUI] = "ret" /\ ok[GUI] => StaysHalted)
  BY <1>c DEF Belief
<1> USE DEF Goto
<1>1. CASE DumpRAMClear \/ DumpRAMRefuse \/ DumpRAMStart \/ DisableTab
  <2>1. /\ pc[GUI] \in {"memset", "fill", "disable"} /\ UNCHANGED haltState
        /\ pc'[GUI] \in {"fill", "idle", "disable"}
    BY <1>1, <1>a DEF DumpRAMClear, DumpRAMRefuse, DumpRAMStart, DisableTab, ntpb
  <2>2. ~InHalt
    BY <2>1 DEF InHalt, Comms
  <2> QED
    BY <1>b, <1>d, <2>1, <2>2 DEF Belief, Before
<1>2. CASE HandleContinue
  <2>1. CASE PS2Wait /\ haltState = 1
    <3>1. haltState' = 0 /\ pc'[GUI] = "hdr" /\ gcmd' = "RESUME"
      BY <1>2, <1>a, <2>1 DEF HandleContinue, Flip
    <3>2. ~InHalt'
      BY <3>1 DEF InHalt
    <3> QED
      BY <3>1, <3>2 DEF Belief
  <2>2. CASE ~(PS2Wait /\ haltState = 1)
    <3>1. pc'[GUI] = pc[GUI] /\ UNCHANGED <<haltState, gcmd, task, ok>>
      BY <1>2, <1>a, <2>2 DEF HandleContinue
    <3>2. InHalt' <=> InHalt
      BY <3>1 DEF InHalt
    <3> QED
      BY <1>b, <1>c, <3>1, <3>2 DEF Belief
  <2> QED
    BY <2>1, <2>2
<1>3. CASE GuiReturn
  <2>1. /\ pc[GUI] = "ret" /\ pc'[GUI] \in {"memset", "idle"}
        /\ haltState' = IF task \in {"syshalt", "search"} THEN HaltAfter(ok[GUI]) ELSE haltState
    BY <1>3, <1>a DEF GuiReturn
  <2>2. haltState' = 1 => StaysHalted
    <3>1. CASE task \in {"syshalt", "search"}
      <4>1. haltState' = 1 => ok[GUI] /\ haltState = 1
        BY <2>1, <3>1 DEF HaltAfter
      <4> QED
        BY <1>d, <2>1, <4>1
    <3>2. CASE task \notin {"syshalt", "search"}
      <4>1. haltState' = haltState /\ ~InHalt
        BY <2>1, <3>2 DEF InHalt
      <4> QED
        BY <1>d, <4>1
    <3> QED
      BY <3>1, <3>2
  <2> QED
    BY <1>b, <2>1, <2>2 DEF Belief, Before
<1> QED
  BY <1>1, <1>2, <1>3 DEF GuiStep

\* What the Resume menu entry and ntpbShutdown's question rest on: as long as the
\* PS2 itself does not restart, outside SysHalt haltState = 1 means that it is
\* halted, although the flag is flipped before the command is sent and commands
\* fail and are never repeated.
THEOREM HaltBeliefCorrect ==
  ASSUME Careful, "reboot" \notin Faults PROVE Spec => []HaltBelief
<1>1. Init => Belief
  BY ConstantsAssumption DEF Init, Belief, Before, InHalt
<1>2. TypeOK /\ Excl /\ Own /\ Line /\ Belief /\ [Next]_vars => Belief'
  <2> SUFFICES ASSUME TypeOK, Excl, Own, Line, Belief, [Next]_vars PROVE Belief'
    OBVIOUS
  <2>1. CASE \E t \in Threads : SendReceive(t)
    BY <2>1, BeliefSendReceive
  <2>2. CASE User
    BY <2>2, BeliefUser
  <2>3. CASE GuiStep
    BY <2>3, BeliefGuiStep
  <2>4. CASE \/ \E c \in ClientThreads : ClientStep(c) \/ NetlogPacket(c)
             \/ PS2Step \/ LinkFault \/ UNCHANGED vars
    <3>1. UNCHANGED <<pc, ok, haltState, gcmd, task, app>>
      BY <2>4 DEF ClientStep, ClientInit, ClientInitFails, ClientTop, ClientConnect, ClientShow, ClientPublish,
         NetlogPacket, PS2Step, SrvCommand, SrvSend, SrvReply, LinkFault, vars, ntpb, gui
    <3>2. StaysHalted => StaysHalted'
      BY <2>4, HaltedOthers
    <3>3. InHalt' <=> InHalt
      BY <3>1 DEF InHalt
    <3> QED
      BY <3>1, <3>2, <3>3 DEF Belief
  <2> QED
    BY <2>1, <2>2, <2>3, <2>4 DEF Next, Ended
<1>3. Belief => HaltBelief
  BY DEF Belief, HaltBelief, StaysHalted
<1> QED
  BY TypeCorrect, ExclCorrect, OwnCorrect, LineCorrect, <1>1, <1>2, <1>3, PTL DEF Spec
=============================================================================
