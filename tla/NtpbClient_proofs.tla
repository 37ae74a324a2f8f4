------------------------- MODULE NtpbClient_proofs -------------------------
(***************************************************************************)
(* Proofs about NtpbClient for every number of threads, sockets, blocks,   *)
(* operations and faults.                                                  *)
(***************************************************************************)
EXTENDS NtpbClient, SequenceTheorems, TLAPS

USE DEF Commands, Threads, Running, NONE, Packet

-----------------------------------------------------------------------------
(* Type correctness.                                                       *)

\* A group of variables that a step leaves alone keeps its shape.
LEMMA Frame ==
  ASSUME TypeOK
  PROVE  /\ UNCHANGED ntpb => NtpbType'
         /\ UNCHANGED <<pc, ok>> => ThreadType'
         /\ UNCHANGED locals => LocalsType'
         /\ UNCHANGED dump => DumpType'
         /\ UNCHANGED gui => GuiType'
         /\ UNCHANGED app => AppType'
         /\ UNCHANGED client => ClientType'
         /\ UNCHANGED net => NetType'
         /\ UNCHANGED ps2 => PS2Type'
<1> USE DEF TypeOK
<1>1. UNCHANGED ntpb => NtpbType'
  BY DEF NtpbType, ntpb
<1>2. UNCHANGED <<pc, ok>> => ThreadType'
  BY DEF ThreadType
<1>3. UNCHANGED locals => LocalsType'
  BY DEF LocalsType, locals
<1>4. UNCHANGED dump => DumpType'
  BY DEF DumpType, dump
<1>5. UNCHANGED gui => GuiType'
  BY DEF GuiType, gui
<1>6. UNCHANGED app => AppType'
  BY DEF AppType
<1>7. UNCHANGED client => ClientType'
  BY DEF ClientType, client
<1>8. UNCHANGED net => NetType'
  BY DEF NetType, net
<1>9. UNCHANGED ps2 => PS2Type'
  BY DEF PS2Type, ps2
<1> QED
  BY <1>1, <1>2, <1>3, <1>4, <1>5, <1>6, <1>7, <1>8, <1>9

\* A thread that moves to a label keeps the shape of pc.
LEMMA GotoType ==
  ASSUME TypeOK, NEW t \in Threads, NEW from, NEW to \in Labels, Goto(t, from, to)
  PROVE  pc' \in [Threads -> Labels]
BY DEF Goto, TypeOK, ThreadType

\* A send appends a packet and may reset the connection; it needs no more than
\* that the packet is one.
LEMMA TransmitType ==
  ASSUME TypeOK, NEW t \in Threads, NEW from, NEW pkt \in Packets, NEW next \in Labels,
         Transmit(t, from, pkt, next)
  PROVE  /\ toSrv' \in Seq(Packets) /\ link' \in {"up", "reset", "gone"}
         /\ pc' \in [Threads -> Labels]
<1>1. toSrv \in Seq(Packets) /\ link \in {"up", "reset", "gone"}
  BY DEF TypeOK, NetType
<1>2. Append(toSrv, pkt) \in Seq(Packets)
  BY <1>1
<1>3. toSrv' \in Seq(Packets) /\ link' \in {"up", "reset", "gone"}
  BY <1>1, <1>2 DEF Transmit
<1>4. pc' \in [Threads -> Labels]
  BY GotoType DEF Transmit, Labels
<1> QED
  BY <1>3, <1>4

\* What a socket holds are packets, and taking some of them leaves packets.
LEMMA ReceiveType ==
  ASSUME TypeOK, NEW t \in Threads, NEW from, NEW next \in Labels, Receive(t, from, next)
  PROVE  toCli' \in Seq(Packets) /\ buf' \in Packets /\ pc' \in [Threads -> Labels]
<1>1. PICK k \in 1..Len(toCli) : toCli' = SubSeq(toCli, k + 1, Len(toCli))
  BY DEF Receive
<1>2. toCli \in Seq(Packets) /\ Len(toCli) \in Nat /\ Len(toCli) >= 1
  BY <1>1 DEF TypeOK, NetType
<1>3. Head(toCli) \in Packets
  BY <1>2
<1>4. SubSeq(toCli, k + 1, Len(toCli)) \in Seq(Packets)
  BY <1>1, <1>2
<1> QED
  BY <1>1, <1>3, <1>4, GotoType DEF Receive

\* The initial state has the declared shape.
LEMMA TypeInit == Init => TypeOK
<1> SUFFICES ASSUME Init PROVE TypeOK
  OBVIOUS
<1> USE ConstantsAssumption DEF Init
<1>1. NtpbType /\ ThreadType /\ AppType
  BY DEF NtpbType, ThreadType, AppType, Packets, Labels
<1>2. LocalsType
  BY DEF LocalsType
<1>3. DumpType
  <2>1. <<>> \in Seq(Nat)
    OBVIOUS
  <2>2. file \in [Threads -> Seq(Nat)]
    BY <2>1
  <2> QED
    BY <2>2 DEF DumpType, NoInfo
<1>4. GuiType /\ PS2Type
  BY DEF GuiType, Tasks, PS2Type
<1>5. ClientType
  BY DEF ClientType, ClientLabels
<1>6. NetType
  BY DEF NetType
<1> QED
  BY <1>1, <1>2, <1>3, <1>4, <1>5, <1>6 DEF TypeOK

\* Each step of SendReceiveThread preserves the shape of the state.
LEMMA TypeSendReceive ==
  ASSUME TypeOK, NEW t \in Threads, SendReceive(t)
  PROVE  TypeOK'
<1> USE ConstantsAssumption
<1>a. /\ Cmd(t) \in Commands \cup {NONE} /\ Size(t) \in Nat
      /\ Leave(t) \in Labels /\ Refused(t) \in Labels
  BY DEF TypeOK, DumpType, GuiType, Cmd, Size, Leave, Refused, Labels
<1>b. NtpbType /\ ThreadType /\ LocalsType /\ DumpType /\ ClientType /\ NetType /\ AppType
  BY DEF TypeOK
<1>c. buf \in Packets /\ buf.body \in Nat
  BY <1>b DEF NtpbType, Packets
<1>1. CASE WriteHeader(t)
  <2>1. NtpbType'
    BY <1>1, <1>a, <1>b DEF WriteHeader, NtpbType, Packets
  <2>2. ThreadType'
    BY <1>1, <1>b, GotoType DEF WriteHeader, Labels, ThreadType
  <2> QED
    BY <1>1, <2>1, <2>2, Frame DEF TypeOK, WriteHeader
<1>2. CASE CheckBusy(t)
  <2>1. ThreadType'
    BY <1>2, <1>b, GotoType DEF CheckBusy, Labels, ThreadType
  <2> QED
    BY <1>2, <2>1, Frame DEF TypeOK, CheckBusy
<1>3. CASE Claim(t)
  <2>1. NtpbType'
    BY <1>3, <1>a, <1>b DEF Claim, NtpbType, Packets
  <2>2. ThreadType'
    BY <1>3, <1>b, GotoType DEF Claim, Labels, ThreadType
  <2> QED
    BY <1>3, <2>1, <2>2, Frame DEF TypeOK, Claim
<1>4. CASE SendRequest(t)
  <2>1. LocalsType'
    BY <1>4, <1>b, <1>c DEF SendRequest, LocalsType, NtpbType
  <2>2. NetType' /\ ThreadType'
    BY <1>4, <1>b, <1>c, GotoType, TransmitType
       DEF SendRequest, NetType, ThreadType, Labels
  <2> QED
    BY <1>4, <2>1, <2>2, Frame DEF TypeOK, SendRequest
<1>5. CASE ReceiveAck(t)
  <2>1. NtpbType' /\ NetType' /\ ThreadType'
    BY <1>5, <1>b, ReceiveType, GotoType
       DEF ReceiveAck, NtpbType, NetType, ThreadType, Labels
  <2> QED
    BY <1>5, <2>1, Frame DEF TypeOK, ReceiveAck
<1>6. CASE ReceivePacket(t)
  <2>1. NtpbType' /\ NetType' /\ ThreadType'
    BY <1>6, <1>b, ReceiveType, GotoType
       DEF ReceivePacket, NtpbType, NetType, ThreadType, Labels
  <2> QED
    BY <1>6, <2>1, Frame DEF TypeOK, ReceivePacket
<1>7. CASE ParsePacket(t)
  <2>1. ThreadType'
    BY <1>7, <1>b, GotoType
       DEF ParsePacket, StoreBlock, EndTransmit, OtherPacket, Labels, ThreadType
  <2>2. DumpType'
    <3>1. <<buf.body>> \in Seq(Nat) /\ \A d \in Threads : Append(file[d], buf.body) \in Seq(Nat)
      BY <1>b, <1>c DEF DumpType
    <3>2. dumpInfo.fh # NoThread => dumpInfo.fh \in Threads
      BY <1>b DEF DumpType
    <3>3. CASE StoreBlock(t)
      <4>1. \/ file' = file
            \/ file' = [file EXCEPT ![GUI] = <<buf.body>>]
            \/ /\ dumpInfo.fh # NoThread
               /\ file' = [file EXCEPT ![dumpInfo.fh] = Append(@, buf.body)]
        BY <3>3 DEF StoreBlock
      <4>2. file' \in [Threads -> Seq(Nat)]
        <5>1. file \in [Threads -> Seq(Nat)]
          BY <1>b DEF DumpType
        <5>2. CASE file' = file
          BY <5>1, <5>2
        <5>3. CASE file' = [file EXCEPT ![GUI] = <<buf.body>>]
          BY <3>1, <5>1, <5>3
        <5>4. CASE /\ dumpInfo.fh # NoThread
                   /\ file' = [file EXCEPT ![dumpInfo.fh] = Append(@, buf.body)]
          BY <3>1, <3>2, <5>1, <5>4
        <5> QED
          BY <4>1, <5>2, <5>3, <5>4
      <4>3. UNCHANGED <<dumpInfo, fh>>
        BY <1>7, <3>3 DEF ParsePacket, StoreBlock
      <4> QED
        BY <1>b, <4>2, <4>3 DEF DumpType
    <3>4. CASE EndTransmit(t) \/ OtherPacket(t)
      BY <1>7, <1>b, <3>2, <3>4 DEF ParsePacket, EndTransmit, OtherPacket, Fclose, DumpType
    <3> QED
      BY <1>7, <3>3, <3>4 DEF ParsePacket
  <2>3. LocalsType'
    <3>1. \/ wpos' = wpos
          \/ wpos' = [wpos EXCEPT ![t] = @ + 1]
      BY <1>7 DEF ParsePacket, StoreBlock, EndTransmit, OtherPacket
    <3>2. \/ endT' = endT
          \/ endT' = [endT EXCEPT ![t] = TRUE]
      BY <1>7 DEF ParsePacket, StoreBlock, EndTransmit, OtherPacket
    <3>3. UNCHANGED <<sk, dsize>>
      BY <1>7 DEF ParsePacket
    <3>4. wpos' \in [Threads -> Nat]
      BY <1>b, <3>1 DEF LocalsType
    <3>5. endT' \in [Threads -> BOOLEAN]
      BY <1>b, <3>2 DEF LocalsType
    <3> QED
      BY <1>b, <3>3, <3>4, <3>5 DEF LocalsType
  <2>4. AppType'
    BY <1>7, <1>b DEF ParsePacket, StoreBlock, EndTransmit, OtherPacket, Fclose, AppType
  <2> QED
    BY <1>7, <2>1, <2>2, <2>3, <2>4, Frame DEF TypeOK, ParsePacket
<1>8. CASE StepBar(t, "bar", "reply") \/ StepBar(t, "bar2", "rel") \/ StepBar(t, "bar3", "close")
  <2>1. ThreadType'
    BY <1>8, <1>b, GotoType DEF StepBar, Labels, ThreadType
  <2> QED
    BY <1>8, <2>1, Frame DEF TypeOK, StepBar
<1>9. CASE Reply(t)
  <2>1. NtpbType'
    BY <1>9, <1>b DEF Reply, NtpbType, Packets
  <2>2. NetType' /\ ThreadType'
    BY <1>9, <1>b, <2>1, TransmitType DEF Reply, NetType, ThreadType, NtpbType, Labels
  <2>3. LocalsType'
    BY <1>9, <1>b DEF Reply, LocalsType, NtpbType
  <2> QED
    BY <1>9, <2>1, <2>2, <2>3, Frame DEF TypeOK, Reply
<1>10. CASE Release(t)
  <2>1. ThreadType' /\ LocalsType' /\ NtpbType'
    BY <1>10, <1>a, <1>b, GotoType DEF Release, Locals0, ThreadType, LocalsType, NtpbType
  <2> QED
    BY <1>10, <2>1, Frame DEF TypeOK, Release
<1>11. CASE DismissBox(t)
  <2>1. ThreadType'
    BY <1>11, <1>b, GotoType DEF DismissBox, Labels, ThreadType
  <2> QED
    BY <1>11, <2>1, Frame DEF TypeOK, DismissBox
<1>12. CASE ErrorRelease(t)
  <2>1. ThreadType' /\ NtpbType'
    BY <1>12, <1>b, GotoType DEF ErrorRelease, Labels, ThreadType, NtpbType
  <2> QED
    BY <1>12, <2>1, Frame DEF TypeOK, ErrorRelease
<1>13. CASE ErrorClose(t)
  <2>1. ThreadType' /\ NtpbType'
    BY <1>13, <1>b, GotoType DEF ErrorClose, Labels, ThreadType, NtpbType
  <2>2. NetType'
    BY <1>13, <1>b DEF ErrorClose, CloseMain, NetType
  <2>3. DumpType' /\ AppType'
    BY <1>13, <1>b DEF ErrorClose, Fclose, DumpType, AppType
  <2> QED
    BY <1>13, <2>1, <2>2, <2>3, Frame DEF TypeOK, ErrorClose
<1>14. CASE ShutdownAsk(t)
  <2>1. ThreadType'
    BY <1>14, <1>b, GotoType DEF ShutdownAsk, Labels, ThreadType
  <2> QED
    BY <1>14, <2>1, Frame DEF TypeOK, ShutdownAsk
<1>15. CASE ShutdownAnswer(t)
  <2>1. ThreadType'
    BY <1>15, <1>a, <1>b, GotoType DEF ShutdownAnswer, Labels, ThreadType
  <2> QED
    BY <1>15, <2>1, Frame DEF TypeOK, ShutdownAnswer
<1>16. CASE ShutdownKill(t)
  <2>1. ThreadType' /\ AppType'
    BY <1>16, <1>b, GotoType DEF ShutdownKill, Labels, ThreadType, AppType
  <2>2. ClientType'
    BY <1>16, <1>b DEF ShutdownKill, Terminate, ClientLabels, ClientType
  <2>3. NetType'
    BY <1>16, <1>b DEF ShutdownKill, NetType
  <2> QED
    BY <1>16, <2>1, <2>2, <2>3, Frame DEF TypeOK, ShutdownKill
<1>17. CASE SpawnClient(t)
  <2>1. ThreadType' /\ LocalsType'
    BY <1>17, <1>a, <1>b, GotoType DEF SpawnClient, Locals0, ThreadType, LocalsType
  <2>2. ClientType'
    BY <1>17, <1>b DEF SpawnClient, ClientLabels, ClientType
  <2> QED
    BY <1>17, <2>1, <2>2, Frame DEF TypeOK, SpawnClient
<1> QED
  BY <1>1, <1>2, <1>3, <1>4, <1>5, <1>6, <1>7, <1>8, <1>9, <1>10, <1>11, <1>12,
     <1>13, <1>14, <1>15, <1>16, <1>17 DEF SendReceive

\* What the user starts preserves the shape of the state.
LEMMA TypeUser == TypeOK /\ User => TypeOK'
<1> SUFFICES ASSUME TypeOK, User PROVE TypeOK'
  OBVIOUS
<1> USE ConstantsAssumption
<1>b. NtpbType /\ ThreadType /\ GuiType /\ DumpType
  BY DEF TypeOK
<1>o. /\ UserMay => ops' \in 0..MaxOps
      /\ GUI \in Threads
  BY DEF TypeOK, UserMay
<1>1. CASE UserHaltResume
  <2>1. PICK halt \in {0, 1} : SysHalt("idle", halt, "syshalt")
    BY <1>1 DEF UserHaltResume
  <2>2. NtpbType'
    BY <1>b, <2>1 DEF SysHalt, NtpbType, Flip
  <2>3. ThreadType' /\ GuiType'
    BY <1>1, <1>b, <1>o, <2>1, GotoType
       DEF UserHaltResume, SysHalt, Call, ThreadType, GuiType, Tasks, Labels
  <2>4. UNCHANGED locals
    BY <2>1 DEF SysHalt
  <2> QED
    BY <1>1, <1>o, <2>2, <2>3, <2>4, Frame DEF TypeOK, UserHaltResume
<1>2. CASE UserReadMem
  <2>1. ThreadType' /\ GuiType'
    BY <1>2, <1>b, <1>o, GotoType DEF UserReadMem, Call, ThreadType, GuiType, Tasks, Labels
  <2>2. DumpType'
    <3>1. <<>> \in Seq(Nat)
      OBVIOUS
    <3> QED
      BY <1>2, <1>b, <1>o, <3>1 DEF UserReadMem, DumpType
  <2> QED
    BY <1>2, <1>o, <2>1, <2>2, Frame DEF TypeOK, UserReadMem
<1>3. CASE UserSearch
  <2>1. CASE PS2Wait /\ haltState = 0
    <3>1. SysHalt("idle", 1, "search")
      BY <1>3, <2>1 DEF UserSearch
    <3>2. NtpbType'
      BY <1>b, <3>1 DEF SysHalt, NtpbType, Flip
    <3>3. ThreadType' /\ GuiType'
      BY <1>3, <1>b, <1>o, <3>1, GotoType
         DEF UserSearch, SysHalt, Call, ThreadType, GuiType, Tasks, Labels
    <3>4. UNCHANGED locals
      BY <3>1 DEF SysHalt
    <3> QED
      BY <1>3, <1>o, <3>2, <3>3, <3>4, Frame DEF TypeOK, UserSearch
  <2>2. CASE ~(PS2Wait /\ haltState = 0)
    <3>1. ThreadType' /\ GuiType'
      BY <1>3, <1>b, <1>o, <2>2, GotoType DEF UserSearch, ThreadType, GuiType, Tasks, Labels
    <3>2. UNCHANGED <<ntpb, locals>>
      BY <1>3, <2>2 DEF UserSearch
    <3> QED
      BY <1>3, <1>o, <3>1, <3>2, Frame DEF TypeOK, UserSearch
  <2> QED
    BY <2>1, <2>2
<1>4. CASE UserDump
  <2>1. ThreadType' /\ GuiType'
    BY <1>4, <1>b, <1>o, GotoType DEF UserDump, ThreadType, GuiType, Tasks, Labels
  <2> QED
    BY <1>4, <1>o, <2>1, Frame DEF TypeOK, UserDump
<1>5. CASE UserReconnect
  <2>1. ThreadType' /\ GuiType' /\ NtpbType'
    BY <1>5, <1>b, <1>o, GotoType
       DEF UserReconnect, ThreadType, GuiType, NtpbType, Tasks, Labels
  <2> QED
    BY <1>5, <1>o, <2>1, Frame DEF TypeOK, UserReconnect
<1>6. CASE UserClose
  <2>1. ThreadType' /\ GuiType'
    BY <1>6, <1>b, <1>o, GotoType DEF UserClose, ThreadType, GuiType, Tasks, Labels
  <2> QED
    BY <1>6, <1>o, <2>1, Frame DEF TypeOK, UserClose
<1>7. CASE UserExit
  <2>1. AppType'
    BY <1>7 DEF UserExit, AppType
  <2> QED
    BY <1>7, <1>o, <2>1, Frame DEF TypeOK, UserExit
<1> QED
  BY <1>1, <1>2, <1>3, <1>4, <1>5, <1>6, <1>7 DEF User

\* The rest of what the GUI thread does preserves the shape of the state.
LEMMA TypeGuiStep == TypeOK /\ GuiStep => TypeOK'
<1> SUFFICES ASSUME TypeOK, GuiStep PROVE TypeOK'
  OBVIOUS
<1> USE ConstantsAssumption
<1>b. /\ NtpbType /\ ThreadType /\ GuiType /\ DumpType
      /\ GUI \in Threads /\ IoThreads \subseteq Threads
  BY DEF TypeOK
<1>1. CASE DumpRAMClear
  <2>1. ThreadType' /\ DumpType'
    BY <1>1, <1>b, GotoType DEF DumpRAMClear, ThreadType, DumpType, NoInfo, Labels
  <2> QED
    BY <1>1, <2>1, Frame DEF TypeOK, DumpRAMClear
<1>2. CASE DumpRAMRefuse
  <2>1. ThreadType' /\ GuiType'
    BY <1>2, <1>b, GotoType DEF DumpRAMRefuse, ThreadType, GuiType, Tasks, Labels
  <2> QED
    BY <1>2, <2>1, Frame DEF TypeOK, DumpRAMRefuse
<1>3. CASE DumpRAMStart
  <2>1. PICK t \in IoThreads :
          /\ pc' = [pc EXCEPT ![GUI] = IF task = "search" THEN "disable" ELSE "idle",
                              ![t] = "hdr"]
          /\ dumpInfo' = [cmd |-> "DUMP", notify |-> task = "search", fh |-> t]
          /\ Fopen(t)
    BY <1>3 DEF DumpRAMStart
  <2>2. ThreadType' /\ GuiType'
    BY <1>3, <1>b, <2>1 DEF DumpRAMStart, ThreadType, GuiType, Tasks, Labels
  <2>3. DumpType'
    <3>1. <<>> \in Seq(Nat)
      OBVIOUS
    <3> QED
      BY <1>b, <2>1, <3>1 DEF Fopen, DumpType
  <2> QED
    BY <1>3, <2>2, <2>3, Frame DEF TypeOK, DumpRAMStart
<1>4. CASE DisableTab
  <2>1. ThreadType' /\ GuiType'
    BY <1>4, <1>b, GotoType DEF DisableTab, ThreadType, GuiType, Labels
  <2> QED
    BY <1>4, <2>1, Frame DEF TypeOK, DisableTab
<1>5. CASE HandleContinue
  <2>1. PICK t \in IoThreads :
          /\ \/ pc' = [pc EXCEPT ![t] = "idle", ![GUI] = "hdr"]
             \/ pc' = [pc EXCEPT ![t] = "idle"]
          /\ UNCHANGED ok
    BY <1>5 DEF HandleContinue, AfterNotify
  <2>2. ThreadType'
    BY <1>b, <2>1 DEF ThreadType, Labels
  <2>3. GuiType'
    BY <1>5, <1>b DEF HandleContinue, GuiType, Tasks
  <2>4. NtpbType'
    BY <1>5, <1>b DEF HandleContinue, Flip, NtpbType
  <2> QED
    BY <1>5, <2>2, <2>3, <2>4, Frame DEF TypeOK, HandleContinue
<1>6. CASE GuiReturn
  <2>1. ThreadType' /\ GuiType' /\ NtpbType'
    BY <1>6, <1>b, GotoType DEF GuiReturn, HaltAfter, ThreadType, GuiType, NtpbType,
                               Tasks, Labels
  <2> QED
    BY <1>6, <2>1, Frame DEF TypeOK, GuiReturn
<1> QED
  BY <1>1, <1>2, <1>3, <1>4, <1>5, <1>6 DEF GuiStep

\* The client threads and a netlog datagram preserve the shape of the state.
LEMMA TypeClient ==
  ASSUME TypeOK, NEW c \in ClientThreads, ClientStep(c) \/ NetlogPacket(c)
  PROVE  TypeOK'
<1>b. NtpbType /\ ThreadType /\ ClientType /\ NetType /\ PS2Type
  BY DEF TypeOK
<1> USE DEF ClientGoto
<1>1. CASE ClientInit(c)
  <2>1. NtpbType' /\ ClientType'
    BY <1>1, <1>b DEF ClientInit, NtpbType, ClientType, ClientLabels
  <2>2. NetType'
    BY <1>1, <1>b DEF ClientInit, CloseMain, NetType
  <2> QED
    BY <1>1, <2>1, <2>2, Frame DEF TypeOK, ClientInit
<1>2. CASE ClientTop(c) \/ ClientInitFails(c)
  <2>1. ClientType'
    BY <1>2, <1>b DEF ClientTop, ClientInitFails, ClientType, ClientLabels
  <2> QED
    BY <1>2, <2>1, Frame DEF TypeOK, ClientTop, ClientInitFails
<1>3. CASE ClientConnect(c)
  <2> DEFINE s == CHOOSE f \in FreeSocks : TRUE
  <2>1. s \in Socks
    BY <1>3 DEF ClientConnect, FreeSocks
  <2>2. ClientType'
    BY <1>3, <1>b, <2>1 DEF ClientConnect, ClientType, ClientLabels
  <2>3. NetType'
    <3>1. <<>> \in Seq(Packets)
      OBVIOUS
    <3>2. open' = open \cup {s} /\ peer' = s /\ link' = "up" /\ toSrv' = <<>> /\ toCli' = <<>>
      BY <1>3 DEF ClientConnect
    <3> QED
      BY <1>b, <2>1, <3>1, <3>2 DEF NetType
  <2>4. PS2Type'
    BY <1>3, <1>b DEF ClientConnect, PS2Type
  <2> QED
    BY <1>3, <2>2, <2>3, <2>4, Frame DEF TypeOK, ClientConnect
<1>4. CASE ClientShow(c)
  <2>1. ClientType'
    BY <1>4, <1>b DEF ClientShow, ClientType, ClientLabels
  <2> QED
    BY <1>4, <2>1, Frame DEF TypeOK, ClientShow
<1>5. CASE ClientPublish(c)
  <2>1. ClientType' /\ NtpbType'
    BY <1>5, <1>b DEF ClientPublish, ClientType, NtpbType, ClientLabels
  <2> QED
    BY <1>5, <2>1, Frame DEF TypeOK, ClientPublish
<1>6. CASE NetlogPacket(c)
  <2>1. ClientType'
    BY <1>6, <1>b DEF NetlogPacket, ClientType, ClientLabels
  <2> QED
    BY <1>6, <2>1, Frame DEF TypeOK, NetlogPacket
<1> QED
  BY <1>1, <1>2, <1>3, <1>4, <1>5, <1>6 DEF ClientStep

\* The PS2 and the faults preserve the shape of the state.
LEMMA TypePS2 == TypeOK /\ (PS2Step \/ LinkFault) => TypeOK'
<1> SUFFICES ASSUME TypeOK, PS2Step \/ LinkFault PROVE TypeOK'
  OBVIOUS
<1> USE ConstantsAssumption
<1>b. /\ NetType /\ PS2Type
      /\ toSrv \in Seq(Packets) /\ toCli \in Seq(Packets)
  BY DEF TypeOK, NetType
<1>1. \A p \in Packets : Append(toCli, p) \in Seq(Packets)
  BY <1>b
<1>2. toSrv # <<>> => Head(toSrv) \in Packets /\ Tail(toSrv) \in Seq(Packets)
  BY <1>b
<1>3. \A n \in Nat : /\ Packet("ACK", 0) \in Packets
                     /\ Packet("SEND_DUMP", n) \in Packets
                     /\ Packet("END_TRANSMIT", 0) \in Packets
  BY DEF Packets
<1>4. CASE SrvCommand
  <2>1. Head(toSrv).body \in Nat
    BY <1>2, <1>4 DEF SrvCommand, Packets
  <2>2. PS2Type'
    BY <1>b, <1>4, <2>1 DEF SrvCommand, PS2Type
  <2>3. /\ UNCHANGED <<open, peer, link>>
        /\ toSrv' = Tail(toSrv) /\ toSrv # <<>>
        /\ toCli' = toCli \/ toCli' = Append(toCli, Packet("ACK", 0))
    BY <1>4 DEF SrvCommand
  <2>4. NetType'
    BY <1>b, <1>1, <1>2, <1>3, <2>3 DEF NetType
  <2> QED
    BY <1>4, <2>2, <2>4, Frame DEF TypeOK, SrvCommand
<1>5. CASE SrvSend
  <2>1. PS2Type'
    BY <1>b, <1>5 DEF SrvSend, PS2Type
  <2>2. sNext \in Nat
    BY <1>b DEF PS2Type
  <2>3. /\ UNCHANGED <<open, peer, link, toSrv>>
        /\ \/ toCli' = Append(toCli, Packet("SEND_DUMP", sNext))
           \/ toCli' = Append(toCli, Packet("END_TRANSMIT", 0))
    BY <1>5 DEF SrvSend
  <2>4. NetType'
    BY <1>b, <1>1, <1>3, <2>2, <2>3 DEF NetType
  <2> QED
    BY <1>5, <2>1, <2>4, Frame DEF TypeOK, SrvSend
<1>6. CASE SrvReply
  <2>1. PS2Type'
    BY <1>b, <1>6 DEF SrvReply, PS2Type
  <2>2. NetType'
    BY <1>b, <1>2, <1>6 DEF SrvReply, NetType
  <2> QED
    BY <1>6, <2>1, <2>2, Frame DEF TypeOK, SrvReply
<1>7. CASE LinkFault
  <2>1. faults' \in 0..MaxFaults
    BY <1>7 DEF LinkFault, TypeOK
  <2>2. PS2Type' /\ NetType'
    BY <1>b, <1>7 DEF LinkFault, PS2Type, NetType
  <2> QED
    BY <1>7, <2>1, <2>2, Frame DEF TypeOK, LinkFault
<1> QED
  BY <1>4, <1>5, <1>6, <1>7 DEF PS2Step

\* Every variable keeps its type: in particular remote_cmd only ever holds a
\* command, haltState stays a bit although it is toggled, and no packet handed
\* to or taken from the socket is malformed.
THEOREM TypeCorrect == Spec => []TypeOK
<1>1. TypeOK /\ [Next]_vars => TypeOK'
  <2> SUFFICES ASSUME TypeOK, [Next]_vars PROVE TypeOK'
    OBVIOUS
  <2>1. CASE \E t \in Threads : SendReceive(t)
    BY <2>1, TypeSendReceive
  <2>2. CASE User \/ GuiStep
    BY <2>2, TypeUser, TypeGuiStep
  <2>3. CASE \E c \in ClientThreads : ClientStep(c) \/ NetlogPacket(c)
    BY <2>3, TypeClient
  <2>4. CASE PS2Step \/ LinkFault
    BY <2>4, TypePS2
  <2>5. CASE UNCHANGED vars
    BY <2>5, Frame DEF TypeOK, vars
  <2> QED
    BY <2>1, <2>2, <2>3, <2>4, <2>5 DEF Next, Ended
<1> QED
  BY TypeInit, <1>1, PTL DEF Spec

-----------------------------------------------------------------------------
(* How the threads move.                                                   *)

\* A step of SendReceiveThread by t moves only t, from inside the function, and
\* either keeps it there or hands it to its caller, to SendMessage or to its end.
LEMMA SendReceiveMoves ==
  ASSUME TypeOK, NEW t \in Threads, SendReceive(t)
  PROVE  /\ pc[t] \in Comms
         /\ \E l \in Comms \cup {Leave(t), "ret", "idle"} :
              /\ pc' = [pc EXCEPT ![t] = l]
              /\ t # GUI => l \in Comms \cup {Leave(t)}
              /\ t = GUI => l \in Comms \cup {"ret", "idle"}
         /\ UNCHANGED <<dumpInfo, tabDisabled>>
<1> USE ConstantsAssumption DEF Goto, Comms, Labels, dump, gui
<1>1. CASE WriteHeader(t) \/ CheckBusy(t) \/ Claim(t) \/ SendRequest(t)
  <2>1. CASE WriteHeader(t) \/ CheckBusy(t) \/ Claim(t)
    BY <2>1 DEF WriteHeader, CheckBusy, Claim
  <2>2. CASE SendRequest(t)
    BY <2>2 DEF SendRequest, Transmit
  <2> QED
    BY <1>1, <2>1, <2>2
<1>2. CASE ReceiveAck(t) \/ ReceivePacket(t)
  <2>1. pc[t] \in {"ack", "recv"} /\ \E l \in {"recv", "parse", "box"} : pc' = [pc EXCEPT ![t] = l]
    <3>1. CASE ReceiveAck(t)
      BY <3>1 DEF ReceiveAck, Receive
    <3>2. CASE ReceivePacket(t)
      BY <3>2 DEF ReceivePacket, Receive
    <3> QED
      BY <1>2, <3>1, <3>2
  <2>2. UNCHANGED <<dumpInfo, tabDisabled>>
    BY <1>2 DEF ReceiveAck, ReceivePacket
  <2> QED
    BY <2>1, <2>2
<1>9. CASE Reply(t)
  <2>1. pc[t] = "reply" /\ \E l \in {"box", "bar2", "recv"} : pc' = [pc EXCEPT ![t] = l]
    BY <1>9 DEF Reply, Transmit
  <2>2. UNCHANGED <<dumpInfo, tabDisabled>>
    BY <1>9 DEF Reply
  <2> QED
    BY <2>1, <2>2
<1>3. CASE ParsePacket(t)
  BY <1>3 DEF ParsePacket, StoreBlock, EndTransmit, OtherPacket
<1>4. CASE StepBar(t, "bar", "reply") \/ StepBar(t, "bar2", "rel") \/ StepBar(t, "bar3", "close")
  BY <1>4 DEF StepBar
<1>5. CASE Release(t) \/ SpawnClient(t)
  BY <1>5 DEF Release, SpawnClient, Leave
<1>6. CASE DismissBox(t) \/ ErrorRelease(t) \/ ErrorClose(t) \/ ShutdownAsk(t)
  BY <1>6 DEF DismissBox, ErrorRelease, ErrorClose, ShutdownAsk
<1>7. CASE ShutdownAnswer(t)
  BY <1>7 DEF ShutdownAnswer, Refused
<1>8. CASE ShutdownKill(t)
  BY <1>8 DEF ShutdownKill
<1> QED
  BY <1>1, <1>2, <1>3, <1>4, <1>5, <1>6, <1>7, <1>8, <1>9 DEF SendReceive

\* What the user starts takes the GUI thread from its message loop into
\* lib_ntpb.c or into DumpRAM, if it moves it at all, and a patient user does it
\* only when no dump thread exists.
LEMMA UserMoves ==
  ASSUME TypeOK, User
  PROVE  /\ Patient => \A t \in IoThreads : pc[t] = "idle"
         /\ pc[GUI] = "idle"
         /\ \E l \in {"idle", "hdr", "memset", "close", "shut"} : pc' = [pc EXCEPT ![GUI] = l]
         /\ tabDisabled' => tabDisabled
         /\ UNCHANGED dumpInfo
<1>1. pc = [pc EXCEPT ![GUI] = pc[GUI]]
  BY DEF TypeOK, ThreadType
<1> USE DEF UserMay, Goto, Call, SysHalt, dump
<1>2. CASE UserHaltResume \/ UserReadMem \/ UserSearch \/ UserDump
  BY <1>2 DEF UserHaltResume, UserReadMem, UserSearch, UserDump
<1>3. CASE UserReconnect \/ UserClose
  BY <1>3 DEF UserReconnect, UserClose, gui
<1>4. CASE UserExit
  BY <1>1, <1>4 DEF UserExit, gui
<1> QED
  BY <1>2, <1>3, <1>4 DEF User

\* The other steps of the program and of its environment move no thread.
LEMMA OthersMoveNothing ==
  ASSUME \/ \E c \in ClientThreads : ClientStep(c) \/ NetlogPacket(c)
         \/ PS2Step \/ LinkFault \/ UNCHANGED vars
  PROVE  UNCHANGED <<pc, remote_cmd, dumpInfo, tabDisabled>>
<1>1. CASE \E c \in ClientThreads : ClientStep(c) \/ NetlogPacket(c)
  BY <1>1 DEF ClientStep, ClientInit, ClientInitFails, ClientTop, ClientConnect, ClientShow,
              ClientPublish, NetlogPacket, ntpb, dump, gui
<1>2. CASE PS2Step \/ LinkFault
  BY <1>2 DEF PS2Step, SrvCommand, SrvSend, SrvReply, LinkFault, ntpb, dump, gui
<1>3. CASE UNCHANGED vars
  BY <1>3 DEF vars, ntpb, dump, gui
<1> QED
  BY <1>1, <1>2, <1>3

-----------------------------------------------------------------------------
(* Mutual exclusion by scheduling.                                         *)

\* The strengthening of OneCommand: at most one dump thread exists, and while the
\* GUI thread is in lib_ntpb.c, on its way back from it or on its way into
\* DumpRAM, none exists.
Excl ==
  Patient =>
    /\ \A t, u \in IoThreads : pc[t] # "idle" /\ pc[u] # "idle" => t = u
    /\ pc[GUI] \in Comms \cup {"ret", "memset", "fill"} => \A t \in IoThreads : pc[t] = "idle"

\* Excl holds at first.
LEMMA ExclInit == Init => Excl
BY DEF Init, Excl

\* A command keeps Excl.
LEMMA ExclSendReceive ==
  ASSUME TypeOK, Excl, NEW t \in Threads, SendReceive(t)
  PROVE  Excl'
<1> SUFFICES ASSUME Patient PROVE Excl'
  BY DEF Excl
<1>1. PICK l \in Comms \cup {Leave(t), "ret", "idle"} :
        /\ pc' = [pc EXCEPT ![t] = l]
        /\ t # GUI => l \in Comms \cup {Leave(t)}
        /\ t = GUI => l \in Comms \cup {"ret", "idle"}
  BY SendReceiveMoves
<1>2. pc[t] \in Comms /\ pc[t] # "idle" /\ pc \in [Threads -> Labels]
  BY SendReceiveMoves DEF Comms, TypeOK, ThreadType
<1>3. CASE t = GUI
  <2>1. \A u \in IoThreads : pc[u] = "idle" /\ pc'[u] = "idle"
    BY <1>1, <1>2, <1>3, ConstantsAssumption DEF Excl
  <2> QED
    BY <2>1 DEF Excl
<1>4. CASE t # GUI
  <2>1. pc[GUI] \notin Comms \cup {"ret", "memset", "fill"} /\ pc'[GUI] = pc[GUI]
    BY <1>1, <1>2, <1>4 DEF Excl
  <2>2. \A u \in IoThreads : pc'[u] # "idle" => pc[u] # "idle"
    BY <1>1, <1>2, <1>4
  <2> QED
    BY <2>1, <2>2 DEF Excl
<1> QED
  BY <1>3, <1>4

\* The GUI thread keeps Excl.
LEMMA ExclGui ==
  ASSUME TypeOK, Excl, User \/ GuiStep
  PROVE  Excl'
<1> SUFFICES ASSUME Patient PROVE Excl'
  BY DEF Excl
<1> USE ConstantsAssumption
<1>a. pc \in [Threads -> Labels] /\ GUI \in Threads /\ IoThreads \subseteq Threads
  BY DEF TypeOK, ThreadType
<1>1. CASE User
  <2>1. \A t \in IoThreads : pc[t] = "idle" /\ pc'[t] = "idle"
    BY <1>1, <1>a, UserMoves
  <2> QED
    BY <2>1 DEF Excl
<1>2. CASE DumpRAMClear \/ DumpRAMRefuse
  <2>1. \A t \in IoThreads : pc[t] = "idle" /\ pc'[t] = "idle"
    BY <1>2, <1>a DEF DumpRAMClear, DumpRAMRefuse, Goto, Excl
  <2> QED
    BY <2>1 DEF Excl
<1>3. CASE DumpRAMStart
  <2>1. \A t \in IoThreads : pc[t] = "idle"
    BY <1>3 DEF DumpRAMStart, Excl
  <2>2. PICK t \in IoThreads :
          pc' = [pc EXCEPT ![GUI] = IF task = "search" THEN "disable" ELSE "idle", ![t] = "hdr"]
    BY <1>3 DEF DumpRAMStart
  <2>3. pc'[GUI] \in {"disable", "idle"} /\ \A u \in IoThreads \ {t} : pc'[u] = "idle"
    BY <1>a, <2>1, <2>2
  <2> QED
    BY <2>3 DEF Excl, Comms, Labels
<1>4. CASE DisableTab
  <2>1. pc' = [pc EXCEPT ![GUI] = "idle"]
    BY <1>4 DEF DisableTab, Goto
  <2> QED
    BY <1>a, <2>1 DEF Excl, Comms
<1>5. CASE HandleContinue
  <2>1. PICK t \in IoThreads :
          /\ pc[t] = "notify"
          /\ \/ pc' = [pc EXCEPT ![t] = "idle", ![GUI] = "hdr"]
             \/ pc' = [pc EXCEPT ![t] = "idle"]
    BY <1>5 DEF HandleContinue, AfterNotify
  <2>2. \A u \in IoThreads : pc'[u] = "idle"
    BY <1>a, <2>1 DEF Excl
  <2> QED
    BY <2>2 DEF Excl
<1>6. CASE GuiReturn
  <2>1. \A t \in IoThreads : pc[t] = "idle" /\ pc'[t] = "idle"
    BY <1>6, <1>a DEF GuiReturn, Goto, Excl
  <2> QED
    BY <2>1 DEF Excl
<1> QED
  BY <1>1, <1>2, <1>3, <1>4, <1>5, <1>6 DEF GuiStep

\* The strengthening of OneCommand is an invariant.
LEMMA ExclCorrect == Spec => []Excl
<1>1. TypeOK /\ Excl /\ [Next]_vars => Excl'
  <2> SUFFICES ASSUME TypeOK, Excl, [Next]_vars PROVE Excl'
    OBVIOUS
  <2>1. CASE \E t \in Threads : SendReceive(t)
    BY <2>1, ExclSendReceive
  <2>2. CASE User \/ GuiStep
    BY <2>2, ExclGui
  <2>3. CASE \/ \E c \in ClientThreads : ClientStep(c) \/ NetlogPacket(c)
             \/ PS2Step \/ LinkFault \/ UNCHANGED vars
    <3>1. UNCHANGED pc
      BY <2>3, OthersMoveNothing
    <3> QED
      BY <3>1 DEF Excl
  <2> QED
    BY <2>1, <2>2, <2>3 DEF Next, Ended
<1> QED
  BY ExclInit, TypeCorrect, <1>1, PTL DEF Spec

\* The shared packet buffer, remote_cmd and main_socket, which no lock guards,
\* are never worked on by two threads while the user leaves the program alone
\* during a dump: what the "Client busy" test cannot guarantee (it is not atomic)
\* the callers' order does.
THEOREM OneCommandCorrect == Spec => []OneCommand
<1>1. Excl => OneCommand
  BY ConstantsAssumption DEF Excl, OneCommand, Comms
<1> QED
  BY ExclCorrect, <1>1, PTL

-----------------------------------------------------------------------------
(* remote_cmd is released.                                                 *)

\* The statements between the assignment of remote_cmd and its release, on the
\* success path and on the error path.
Holding == {"send", "ack", "recv", "parse", "bar", "reply", "bar2", "rel", "box", "err"}

\* The strengthening of NeverStuckBusy: a command that remote_cmd names has a
\* thread that will release it, whoever set it.
BusyHasHolder == remote_cmd # NONE => \E t \in Threads : pc[t] \in Holding

\* A command keeps Holder.
LEMMA HolderSendReceive ==
  ASSUME TypeOK, BusyHasHolder, NEW t \in Threads, SendReceive(t)
  PROVE  BusyHasHolder'
<1>a. pc \in [Threads -> Labels]
  BY DEF TypeOK, ThreadType
<1> SUFFICES ASSUME remote_cmd' # NONE PROVE \E u \in Threads : pc'[u] \in Holding
  BY DEF BusyHasHolder
<1> USE DEF Goto, Holding
<1>1. CASE remote_cmd' # remote_cmd
  <2>1. Claim(t)
    BY <1>1 DEF SendReceive, WriteHeader, CheckBusy, Claim, SendRequest, ReceiveAck,
       ReceivePacket, ParsePacket, StepBar, Reply, Release, DismissBox, ErrorRelease,
       ErrorClose, ShutdownAsk, ShutdownAnswer, ShutdownKill, SpawnClient, ntpb
  <2> QED
    BY <1>a, <2>1 DEF Claim
<1>2. CASE remote_cmd' = remote_cmd /\ pc[t] \notin Holding
  <2>1. PICK u \in Threads : pc[u] \in Holding
    BY <1>2 DEF BusyHasHolder
  <2>2. \E l : pc' = [pc EXCEPT ![t] = l]
    BY SendReceiveMoves
  <2> QED
    BY <1>2, <1>a, <2>1, <2>2
<1>3. CASE remote_cmd' = remote_cmd /\ pc[t] \in Holding
  <2>1. \E l \in Holding : pc' = [pc EXCEPT ![t] = l]
    <3>1. CASE SendRequest(t)
      BY <3>1 DEF SendRequest, Transmit
    <3>2. CASE ReceiveAck(t) \/ ReceivePacket(t)
      BY <3>2 DEF ReceiveAck, ReceivePacket, Receive
    <3>3. CASE ParsePacket(t)
      BY <3>3 DEF ParsePacket, StoreBlock, EndTransmit, OtherPacket
    <3>4. CASE StepBar(t, "bar", "reply") \/ StepBar(t, "bar2", "rel") \/ DismissBox(t)
      BY <3>4 DEF StepBar, DismissBox
    <3>5. CASE Reply(t)
      BY <3>5 DEF Reply, Transmit
    <3>6. ~(Release(t) \/ ErrorRelease(t))
      BY <1>3 DEF Release, ErrorRelease
    <3>7. ~(WriteHeader(t) \/ CheckBusy(t) \/ Claim(t) \/ StepBar(t, "bar3", "close"))
      BY <1>3 DEF WriteHeader, CheckBusy, Claim, StepBar
    <3>8. ~(ErrorClose(t) \/ ShutdownAsk(t) \/ ShutdownAnswer(t) \/ ShutdownKill(t) \/ SpawnClient(t))
      BY <1>3 DEF ErrorClose, ShutdownAsk, ShutdownAnswer, ShutdownKill, SpawnClient
    <3> QED
      BY <3>1, <3>2, <3>3, <3>4, <3>5, <3>6, <3>7, <3>8 DEF SendReceive
  <2> QED
    BY <1>a, <2>1
<1> QED
  BY <1>1, <1>2, <1>3

\* The GUI thread keeps Holder.
LEMMA HolderGui ==
  ASSUME TypeOK, BusyHasHolder, User \/ GuiStep
  PROVE  BusyHasHolder'
<1>a. pc \in [Threads -> Labels] /\ GUI \in Threads /\ IoThreads \subseteq Threads
  BY DEF TypeOK, ThreadType
<1>1. remote_cmd' \in {remote_cmd, NONE}
  BY DEF User, UserHaltResume, UserReadMem, UserSearch, UserDump, UserReconnect, UserClose,
         UserExit, SysHalt, GuiStep, DumpRAMClear, DumpRAMRefuse, DumpRAMStart, DisableTab,
         HandleContinue, GuiReturn, ntpb
<1>2. \A t \in Threads : pc[t] \in Holding => pc'[t] = pc[t]
  <2> USE DEF Goto, Holding
  <2>1. CASE User
    BY <1>a, <2>1, UserMoves
  <2>2. CASE DumpRAMClear \/ DumpRAMRefuse \/ DisableTab \/ GuiReturn
    BY <1>a, <2>2 DEF DumpRAMClear, DumpRAMRefuse, DisableTab, GuiReturn
  <2>3. CASE DumpRAMStart
    BY <1>a, <2>3 DEF DumpRAMStart
  <2>4. CASE HandleContinue
    BY <1>a, <2>4 DEF HandleContinue
  <2> QED
    BY <2>1, <2>2, <2>3, <2>4 DEF GuiStep
<1> QED
  BY <1>1, <1>2 DEF BusyHasHolder

\* However the threads overlap, and whatever the link does, the client does not
\* stay busy once nobody is in a command: every path of SendReceiveThread that
\* sets remote_cmd, the error paths included, comes past a reset of it.
THEOREM NeverStuckBusyCorrect == Spec => []NeverStuckBusy
<1>1. Init => BusyHasHolder
  BY DEF Init, BusyHasHolder
<1>2. TypeOK /\ BusyHasHolder /\ [Next]_vars => BusyHasHolder'
  <2> SUFFICES ASSUME TypeOK, BusyHasHolder, [Next]_vars PROVE BusyHasHolder'
    OBVIOUS
  <2>1. CASE \E t \in Threads : SendReceive(t)
    BY <2>1, HolderSendReceive
  <2>2. CASE User \/ GuiStep
    BY <2>2, HolderGui
  <2>3. CASE \/ \E c \in ClientThreads : ClientStep(c) \/ NetlogPacket(c)
             \/ PS2Step \/ LinkFault \/ UNCHANGED vars
    <3>1. UNCHANGED <<pc, remote_cmd>>
      BY <2>3, OthersMoveNothing
    <3> QED
      BY <3>1 DEF BusyHasHolder
  <2> QED
    BY <2>1, <2>2, <2>3 DEF Next, Ended
<1>3. BusyHasHolder => NeverStuckBusy
  BY DEF BusyHasHolder, NeverStuckBusy, Holding, Comms, Labels
<1> QED
  BY TypeCorrect, <1>1, <1>2, <1>3, PTL DEF Spec

-----------------------------------------------------------------------------
(* The search tab is unlocked.                                             *)

\* The strengthening of LockedTabHasWaker: the thread that will unlock the tab
\* exists from the moment DO_SEARCH_CMD is about to lock it.
Waker ==
  Patient /\ (tabDisabled \/ pc[GUI] = "disable") =>
    dumpInfo.notify /\ \E t \in IoThreads : pc[t] # "idle"

\* A command keeps Waker.
LEMMA WakerSendReceive ==
  ASSUME TypeOK, Excl, Waker, NEW t \in Threads, SendReceive(t)
  PROVE  Waker'
<1> USE ConstantsAssumption
<1>1. PICK l \in Comms \cup {Leave(t), "ret", "idle"} :
        /\ pc' = [pc EXCEPT ![t] = l]
        /\ t # GUI => l \in Comms \cup {Leave(t)}
        /\ t = GUI => l \in Comms \cup {"ret", "idle"}
  BY SendReceiveMoves
<1>2. /\ pc[t] \in Comms /\ pc \in [Threads -> Labels]
      /\ UNCHANGED <<dumpInfo, tabDisabled>>
  BY SendReceiveMoves DEF TypeOK, ThreadType
<1> SUFFICES ASSUME Patient, tabDisabled' \/ pc'[GUI] = "disable"
             PROVE  dumpInfo.notify /\ \E u \in IoThreads : pc'[u] # "idle"
  BY <1>2 DEF Waker
<1>3. "disable" \notin Comms \cup {"ret", "idle"}
  BY DEF Comms
<1>4. tabDisabled \/ pc[GUI] = "disable"
  BY <1>1, <1>2, <1>3
<1>5. dumpInfo.notify /\ \E u \in IoThreads : pc[u] # "idle"
  BY <1>4 DEF Waker
<1>6. t # GUI
  BY <1>2, <1>5 DEF Excl
<1>7. Leave(t) = "notify"
  BY <1>5, <1>6 DEF Leave
<1>8. pc'[t] # "idle" /\ t \in IoThreads
  BY <1>1, <1>2, <1>6, <1>7 DEF Comms
<1> QED
  BY <1>5, <1>8

\* The GUI thread keeps Waker.
LEMMA WakerGui ==
  ASSUME TypeOK, Excl, Waker, User \/ GuiStep
  PROVE  Waker'
<1> USE ConstantsAssumption
<1> SUFFICES ASSUME Patient PROVE Waker'
  BY DEF Waker
<1>a. /\ pc \in [Threads -> Labels] /\ GUI \in Threads /\ IoThreads \subseteq Threads
      /\ tabDisabled \in BOOLEAN
  BY DEF TypeOK, ThreadType, GuiType
<1> USE DEF Goto
<1>1. CASE User
  <2>1. ~tabDisabled'
    BY <1>1, UserMoves DEF Waker
  <2>2. pc'[GUI] # "disable"
    BY <1>1, <1>a, UserMoves
  <2> QED
    BY <2>1, <2>2 DEF Waker
<1>2. CASE DumpRAMClear \/ DumpRAMRefuse \/ GuiReturn
  <2>1. ~tabDisabled /\ UNCHANGED tabDisabled
    BY <1>2 DEF DumpRAMClear, DumpRAMRefuse, GuiReturn, Waker, Excl, gui
  <2>2. pc'[GUI] # "disable"
    BY <1>2, <1>a DEF DumpRAMClear, DumpRAMRefuse, GuiReturn
  <2> QED
    BY <2>1, <2>2 DEF Waker
<1>3. CASE DumpRAMStart
  <2>1. ~tabDisabled'
    BY <1>3 DEF DumpRAMStart, Waker, Excl
  <2>2. PICK t \in IoThreads :
          /\ pc' = [pc EXCEPT ![GUI] = IF task = "search" THEN "disable" ELSE "idle",
                              ![t] = "hdr"]
          /\ dumpInfo' = [cmd |-> "DUMP", notify |-> task = "search", fh |-> t]
    BY <1>3 DEF DumpRAMStart
  <2>3. pc'[t] = "hdr" /\ (pc'[GUI] = "disable" => task = "search")
    BY <1>a, <2>2
  <2> QED
    BY <2>1, <2>2, <2>3 DEF Waker
<1>4. CASE DisableTab
  <2>1. pc[GUI] = "disable" /\ pc' = [pc EXCEPT ![GUI] = "idle"] /\ UNCHANGED dumpInfo
    BY <1>4 DEF DisableTab, dump
  <2>2. \A t \in IoThreads : pc'[t] = pc[t]
    BY <1>a, <2>1
  <2> QED
    BY <2>1, <2>2 DEF Waker
<1>5. CASE HandleContinue
  <2>1. ~tabDisabled' /\ pc[GUI] # "disable"
    BY <1>5 DEF HandleContinue, Pumps
  <2>2. pc'[GUI] # "disable"
    BY <1>5, <1>a, <2>1 DEF HandleContinue, AfterNotify
  <2> QED
    BY <2>1, <2>2 DEF Waker
<1> QED
  BY <1>1, <1>2, <1>3, <1>4, <1>5 DEF GuiStep

\* While the user leaves the program alone during a dump, a locked search tab
\* always has a dump thread that will send SEARCH_CONTINUE_VCMD and unlock it,
\* although DumpRAM's struct is static, the tab is locked only after the thread
\* was started, and the dump may end before that.
THEOREM LockedTabHasWakerCorrect == Spec => [](Patient => LockedTabHasWaker)
<1>1. Init => Waker
  BY DEF Init, Waker
<1>2. TypeOK /\ Excl /\ Waker /\ [Next]_vars => Waker'
  <2> SUFFICES ASSUME TypeOK, Excl, Waker, [Next]_vars PROVE Waker'
    OBVIOUS
  <2>1. CASE \E t \in Threads : SendReceive(t)
    BY <2>1, WakerSendReceive
  <2>2. CASE User \/ GuiStep
    BY <2>2, WakerGui
  <2>3. CASE \/ \E c \in ClientThreads : ClientStep(c) \/ NetlogPacket(c)
             \/ PS2Step \/ LinkFault \/ UNCHANGED vars
    <3>1. UNCHANGED <<pc, dumpInfo, tabDisabled>>
      BY <2>3, OthersMoveNothing
    <3> QED
      BY <3>1 DEF Waker
  <2> QED
    BY <2>1, <2>2, <2>3 DEF Next, Ended
<1>3. Waker => (Patient => LockedTabHasWaker)
  BY DEF Waker, LockedTabHasWaker
<1> QED
  BY TypeCorrect, ExclCorrect, <1>1, <1>2, <1>3, PTL DEF Spec
=============================================================================
