--------------------------- MODULE UsbDump_proofs ---------------------------
(***************************************************************************)
(* UsbDump implements MemDump for every region, buffer and packet size,    *)
(* every set of file descriptors and any number of dumps, provided that    *)
(* SifCallRpc does not fail on the EE side (Reliable).                     *)
(***************************************************************************)
EXTENDS UsbDump, SequenceTheorems, TLAPS

Reliable == CallMayFail = FALSE

\* The link of a session without a reset.
Linked == inited = TRUE /\ bound = usbserv

\* A dump file is a beginning of its region, and exists when it holds something.
FilesOK ==
  /\ made \subseteq Names
  /\ files \in [Names -> Seq(Nat)]
  /\ \A n \in Names :
       /\ \E m \in 0 .. NameSize[n] : files[n] = Region(0, m)
       /\ n \notin made => files[n] = <<>>
       /\ n \in made => n[2] < index[n[1]] \/ (n = cur /\ pc \notin {"game", "create"})

\* An open descriptor belongs to a file that exists, and to no other descriptor.
HandlesOK ==
  /\ handles \in [Fds -> {{}} \cup {{n} : n \in Names}]
  /\ \A f \in Fds : handles[f] \subseteq made
  /\ \A f, g \in Fds : handles[f] = handles[g] /\ handles[f] # {} => f = g

\* The registered command is the one the step waits for, and the call is its.
CallOK ==
  /\ currentCmd = CASE pc = "createSync" -> "open"
                    [] pc = "sendSync" -> "write"
                    [] pc = "closeSync" -> "close"
                    [] OTHER -> "none"
  /\ IF currentCmd = "none"
       THEN call = Idle
       ELSE /\ call \in [fno : {currentCmd}, name : {cur}, fd : {fd}, data : Seq(Nat),
                         ret : Int, st : {"sent", "served", "done"}]
  /\ currentCmd = "write" => call.data = Region(dpos + rpos, sndSize)

\* The numbers of the double loop.
LoopOK ==
  /\ dpos \in Nat /\ dumpSize \in Nat /\ rpos \in Nat /\ sndSize \in Nat
  /\ membuffer \in Seq(Nat)
  /\ pc = "copy" => dpos <= Total /\ dumpSize = Smaller(Total - dpos, BUF)
  /\ pc \in {"send", "sendSync"} =>
       /\ dpos + dumpSize <= Total
       /\ dumpSize = Smaller(Total - dpos, BUF)
       /\ membuffer = Region(dpos, dumpSize)
       /\ rpos < dumpSize
       /\ sndSize = Smaller(dumpSize - rpos, PKT)

\* What the step knows of the file that is being written.
FileOK ==
  /\ pc \in {"copy", "send", "sendSync", "close"} => fd \in Fds /\ handles[fd] = {cur}
  /\ pc = "createSync" =>
       \/ call.st = "sent" /\ cur \notin made
       \/ call.st # "sent" /\ call.ret = -1 /\ cur \notin made
       \/ /\ call.st # "sent" /\ call.ret \in Fds /\ handles[call.ret] = {cur}
          /\ cur \in made /\ files[cur] = <<>>
  /\ pc = "copy" => files[cur] = Region(0, dpos)
  /\ pc = "send" => files[cur] = Region(0, dpos + rpos)
  /\ pc = "sendSync" =>
       \/ call.st = "sent" /\ files[cur] = Region(0, dpos + rpos)
       \/ /\ call.st # "sent"
          /\ \E n \in 0 .. sndSize : /\ files[cur] = Region(0, dpos + rpos + n)
                                     /\ call.ret \in {-1, n}
  /\ pc \in {"close", "closeSync"} => files[cur] = Region(0, Total)
  /\ pc = "closeSync" =>
       \/ call.st = "sent" /\ fd \in Fds /\ handles[fd] = {cur}
       \/ call.st # "sent" /\ \A f \in Fds : handles[f] # {cur}
  /\ pc = "game" /\ result # 0 => \A f \in Fds : handles[f] # {cur}

Numbers ==
  /\ pc \in Steps
  /\ cur \in Names
  /\ index \in [Kinds -> 0 .. MaxIndex + 1]
  /\ pc # "game" => cur[2] = index[cur[1]]
  /\ fd \in Int /\ r \in Int
  /\ result \in Nat
  /\ bound \in Nat /\ usbserv \in Nat

IInv == Numbers /\ Linked /\ FilesOK /\ HandlesOK /\ CallOK /\ LoopOK /\ FileOK

-----------------------------------------------------------------------------
(* Regions.                                                                *)

\* A region of memory is a sequence of bytes.
LEMMA RegionSeq ==
  ASSUME NEW a \in Nat, NEW m \in Nat
  PROVE  /\ Region(a, m) \in Seq(Nat)
         /\ Len(Region(a, m)) = m
         /\ \A i \in 1 .. m : Region(a, m)[i] = a + i - 1
<1>1. Region(a, m) \in [1 .. m -> Nat]
  BY DEF Region
<1> QED
  BY <1>1 DEF Region

\* A region of no bytes is empty.
LEMMA RegionEmpty == ASSUME NEW a \in Nat PROVE Region(a, 0) = <<>>
<1>1. Region(a, 0) \in Seq(Nat) /\ Len(Region(a, 0)) = 0
  BY RegionSeq
<1> QED
  BY <1>1, EmptySeq

\* A packet cut out of the buffer is a region of its own.
LEMMA RegionSub ==
  ASSUME NEW a \in Nat, NEW m \in Nat, NEW p \in Nat, NEW s \in Nat, p + s <= m
  PROVE  SubSeq(Region(a, m), p + 1, p + s) = Region(a + p, s)
<1> DEFINE whole == Region(a, m)
           part == SubSeq(whole, p + 1, p + s)
<1>1. whole \in Seq(Nat) /\ Len(whole) = m /\ \A i \in 1 .. m : whole[i] = a + i - 1
  BY RegionSeq
<1> HIDE DEF whole
<1>2. \A i \in p + 1 .. p + s : whole[i] \in Nat
  BY <1>1
<1>3. /\ part \in Seq(Nat)
      /\ Len(part) = s
      /\ \A i \in 1 .. s : part[i] = whole[p + 1 + i - 1]
  <2>1. /\ part \in Seq(Nat)
        /\ Len(part) = IF p + 1 <= p + s THEN p + s - (p + 1) + 1 ELSE 0
        /\ \A i \in 1 .. p + s - (p + 1) + 1 : part[i] = whole[p + 1 + i - 1]
    <3>1. p + 1 \in Int /\ p + s \in Int
      OBVIOUS
    <3> HIDE DEF part
    <3> QED
      BY <1>2, <3>1, SubSeqProperties DEF part
  <2>2. p + s - (p + 1) + 1 = s
    OBVIOUS
  <2>3. (IF p + 1 <= p + s THEN p + s - (p + 1) + 1 ELSE 0) = s
    OBVIOUS
  <2> QED
    BY <2>1, <2>2, <2>3
<1> HIDE DEF part
<1>4. Region(a + p, s) \in Seq(Nat) /\ Len(Region(a + p, s)) = s
      /\ \A i \in 1 .. s : Region(a + p, s)[i] = (a + p) + i - 1
  <2>1. a + p \in Nat
    OBVIOUS
  <2> QED
    BY <2>1, RegionSeq
<1>5. \A i \in 1 .. s : part[i] = Region(a + p, s)[i]
  BY <1>1, <1>3, <1>4
<1>6. part = Region(a + p, s)
  BY <1>3, <1>4, <1>5, SeqEqual
<1> QED
  BY <1>6 DEF part, whole

\* What is appended to a beginning makes a longer beginning.
LEMMA RegionConcat ==
  ASSUME NEW m \in Nat, NEW k \in Nat
  PROVE  Region(0, m) \o Region(m, k) = Region(0, m + k)
<1> DEFINE a == Region(0, m)
           b == Region(m, k)
           c == Region(0, m + k)
<1>1. a \in Seq(Nat) /\ Len(a) = m /\ \A i \in 1 .. m : a[i] = 0 + i - 1
  BY RegionSeq
<1>2. b \in Seq(Nat) /\ Len(b) = k /\ \A i \in 1 .. k : b[i] = m + i - 1
  BY RegionSeq
<1>3. c \in Seq(Nat) /\ Len(c) = m + k /\ \A i \in 1 .. m + k : c[i] = 0 + i - 1
  BY RegionSeq
<1> HIDE DEF a, b, c
<1>4. /\ a \o b \in Seq(Nat)
      /\ Len(a \o b) = m + k
      /\ \A i \in 1 .. m + k : (a \o b)[i] = IF i <= m THEN a[i] ELSE b[i - m]
  BY <1>1, <1>2, ConcatProperties
<1>5. \A i \in 1 .. m + k : (a \o b)[i] = c[i]
  BY <1>1, <1>2, <1>3, <1>4
<1>6. a \o b = c
  BY <1>3, <1>4, <1>5, SeqEqual
<1> QED
  BY <1>6 DEF a, b, c

\* What a write took of a packet makes the file a longer beginning.
LEMMA RegionWrite ==
  ASSUME NEW at \in Nat, NEW len \in Nat, NEW n \in 0 .. len
  PROVE  Region(0, at) \o SubSeq(Region(at, len), 1, n) = Region(0, at + n)
<1>1. \A p \in Nat : p + n <= len => SubSeq(Region(at, len), p + 1, p + n) = Region(at + p, n)
  <2> SUFFICES ASSUME NEW p \in Nat, p + n <= len
               PROVE  SubSeq(Region(at, len), p + 1, p + n) = Region(at + p, n)
    OBVIOUS
  <2>1. at \in Nat /\ len \in Nat /\ p \in Nat /\ n \in Nat /\ p + n <= len
    OBVIOUS
  <2> HIDE DEF Region
  <2> QED
    BY ONLY <2>1, RegionSub, ZenonT(60)
<1>2. SubSeq(Region(at, len), 0 + 1, 0 + n) = Region(at + 0, n)
  BY <1>1, SMT
<1>3. n \in Nat /\ 0 + 1 = 1 /\ 0 + n = n /\ at + 0 = at
  OBVIOUS
<1> QED
  BY <1>2, <1>3, RegionConcat

-----------------------------------------------------------------------------
(* The invariant.                                                          *)

\* The sizes of the buffers.
LEMMA Sizes ==
  /\ Names # {}
  /\ \A n \in Names : n[1] \in Kinds /\ n[2] \in Nat /\ NameSize[n] = RegionSize[n[1]]
  /\ \A n \in Names : NameSize[n] \in Nat \ {0}
<1>1. Names # {}
  <2>1. PICK k \in Kinds : TRUE
    BY UsbDumpAssumption
  <2>2. <<k, 0>> \in Names
    BY <2>1, UsbDumpAssumption DEF Names
  <2> QED
    BY <2>2
<1> QED
  BY <1>1, UsbDumpAssumption DEF Names, NameSize

\* No dump is under way in the idle states.
LEMMA IdleFacts ==
  /\ Idle.name \in Names /\ Idle.st = "done" /\ Idle.fno = "none"
  /\ Idle.fd = -1 /\ Idle.ret = -1 /\ Idle.data = <<>>
BY Sizes DEF Idle

\* The inductive invariant holds at first.
LEMMA IInvInit == Reliable /\ Init => IInv
<1> SUFFICES ASSUME Reliable, Init PROVE IInv
  OBVIOUS
<1> USE UsbDumpAssumption DEF Init, Ready, EmptyStick
<1>1. Numbers /\ Linked
  BY IdleFacts DEF Numbers, Linked, Steps
<1>2. FilesOK
  <2>1. \A n \in Names : files[n] = Region(0, 0) /\ 0 \in 0 .. NameSize[n]
    BY RegionEmpty, Sizes
  <2>2. files \in [Names -> Seq(Nat)]
    BY EmptySeq
  <2> QED
    BY <2>1, <2>2 DEF FilesOK
<1>3. HandlesOK
  BY DEF HandlesOK
<1>4. CallOK
  BY DEF CallOK
<1>5. LoopOK
  BY EmptySeq DEF LoopOK
<1>6. FileOK
  BY DEF FileOK
<1> QED
  BY <1>1, <1>2, <1>3, <1>4, <1>5, <1>6 DEF IInv

\* StartDump keeps the inductive invariant.
LEMMA StartDumpIInv ==
  ASSUME Reliable, IInv, NEW k \in Kinds, StartDump(k)
  PROVE  IInv'
<1> USE UsbDumpAssumption DEF StartDump, loop, rpc, stick
<1>1. Numbers' /\ Linked'
  BY DEF IInv, Numbers, Linked, Steps, Garbage, Names
<1>2. FilesOK'
  BY Sizes DEF IInv, FilesOK
<1>3. HandlesOK'
  BY DEF IInv, HandlesOK
<1>4. CallOK'
  BY DEF IInv, CallOK
<1>5. LoopOK'
  BY DEF IInv, LoopOK
<1>6. FileOK'
  BY DEF IInv, FileOK
<1> QED
  BY <1>1, <1>2, <1>3, <1>4, <1>5, <1>6 DEF IInv

\* SendCreate keeps the inductive invariant.
LEMMA SendCreateIInv ==
  ASSUME Reliable, IInv, SendCreate
  PROVE  IInv'
<1> USE UsbDumpAssumption DEF SendCreate, loop, stick
<1>0. /\ currentCmd' = "open"
      /\ call' = [fno |-> "open", name |-> cur, fd |-> fd, data |-> <<>>, ret |-> -1, st |-> "sent"]
  BY DEF IssueCall, Request, Reliable, IInv, Linked
<1>1. Numbers' /\ Linked'
  BY DEF IInv, Numbers, Linked, Steps
<1>2. FilesOK'
  BY DEF IInv, FilesOK
<1>3. HandlesOK'
  BY DEF IInv, HandlesOK
<1>4. CallOK'
  <2>1. call' \in [fno : {"open"}, name : {cur}, fd : {fd}, data : Seq(Nat),
                   ret : Int, st : {"sent", "served", "done"}]
    BY <1>0, EmptySeq
  <2> QED
    BY <1>0, <2>1 DEF CallOK
<1>5. LoopOK'
  BY DEF IInv, LoopOK
<1>6. FileOK'
  <2>1. cur \notin made
    <3>1. cur \in Names /\ cur[1] \in Kinds /\ cur[2] = index[cur[1]] /\ cur[2] \in Nat
      BY Sizes DEF IInv, Numbers
    <3>2. ~(cur[2] < index[cur[1]])
      BY <3>1
    <3> QED
      BY <3>1, <3>2 DEF IInv, FilesOK
  <2>2. call'.st = "sent" /\ made' = made /\ cur' = cur /\ pc' = "createSync"
    BY <1>0
  <2> QED
    BY <2>1, <2>2 DEF FileOK
<1> QED
  BY <1>1, <1>2, <1>3, <1>4, <1>5, <1>6 DEF IInv

\* Every way out of sendDump.
LEMMA ReturnIInv ==
  ASSUME IInv, pc # "game", currentCmd' = "none", call' = Idle,
         UNCHANGED <<cur, inited, bound, usbserv, stick>>,
         NEW v \in Nat, Return(v), v # 0 => \A f \in Fds : handles[f] # {cur}
  PROVE  IInv'
<1> USE UsbDumpAssumption
<1>1. /\ pc' = "game" /\ result' = v /\ index' = [index EXCEPT ![cur[1]] = @ + 1]
      /\ fd' = -1 /\ r' = -1 /\ dpos' = 0 /\ dumpSize' = 0 /\ rpos' = 0 /\ sndSize' = 0
      /\ membuffer' = <<>> /\ made' = made /\ files' = files /\ handles' = handles
  BY DEF Return, LocalsGo, stick
<1>2. /\ cur \in Names /\ cur[1] \in Kinds /\ cur[2] = index[cur[1]]
      /\ index \in [Kinds -> 0 .. MaxIndex + 1] /\ cur[2] \in 0 .. MaxIndex
  BY DEF IInv, Numbers, Names
<1>3. Numbers' /\ Linked'
  <2>1. index' \in [Kinds -> 0 .. MaxIndex + 1]
    BY <1>1, <1>2
  <2> QED
    BY <1>1, <1>2, <2>1 DEF IInv, Numbers, Linked, Steps
<1>4. FilesOK'
  <2>1. \A n \in made : n[2] < index'[n[1]]
    <3> SUFFICES ASSUME NEW n \in made PROVE n[2] < index'[n[1]]
      OBVIOUS
    <3>1. n \in Names /\ n[1] \in Kinds /\ n[2] \in 0 .. MaxIndex
      BY DEF IInv, FilesOK, Names
    <3>2. n[2] < index[n[1]] \/ n = cur
      BY <3>1 DEF IInv, FilesOK
    <3> QED
      BY <1>1, <1>2, <3>1, <3>2
  <2> QED
    BY <1>1, <2>1 DEF IInv, FilesOK
<1>5. HandlesOK'
  BY <1>1 DEF IInv, HandlesOK
<1>6. CallOK'
  BY <1>1 DEF CallOK
<1>7. LoopOK'
  BY <1>1, EmptySeq DEF LoopOK
<1>8. FileOK'
  BY <1>1 DEF FileOK
<1> QED
  BY <1>3, <1>4, <1>5, <1>6, <1>7, <1>8 DEF IInv

\* SyncCreate keeps the inductive invariant.
LEMMA SyncCreateIInv ==
  ASSUME Reliable, IInv, SyncCreate
  PROVE  IInv'
<1> USE UsbDumpAssumption
<1>0. /\ pc = "createSync" /\ currentCmd = "open" /\ call.st = "done"
      /\ SyncValue(fd) = call.ret /\ call.ret \in Int
      /\ Total \in Nat \ {0} /\ cur \in Names /\ cur[1] \in Kinds
  BY DEF SyncCreate, SyncDone, SyncValue, IInv, CallOK, Numbers, Total, Names
<1>1. /\ currentCmd' = "none" /\ call' = Idle
      /\ UNCHANGED <<cur, inited, bound, usbserv, stick>>
  BY DEF SyncCreate, Collected
<1>2. CASE Return(0)
  BY <1>0, <1>1, <1>2, ReturnIInv
<1>3. CASE ~Return(0)
  <2>1. /\ call.ret >= 0 /\ pc' = "copy" /\ fd' = call.ret /\ dpos' = 0
        /\ dumpSize' = Smaller(Total, BUF)
        /\ UNCHANGED <<r, rpos, sndSize, membuffer, index, result>>
    BY <1>0, <1>3 DEF SyncCreate
  <2>2. /\ call.ret \in Fds /\ handles[call.ret] = {cur}
        /\ cur \in made /\ files[cur] = <<>>
    BY <1>0, <2>1 DEF IInv, FileOK
  <2>3. UNCHANGED <<made, files, handles>>
    BY <1>1 DEF stick
  <2>4. Numbers' /\ Linked'
    BY <1>0, <1>1, <2>1 DEF IInv, Numbers, Linked, Steps
  <2>5. FilesOK'
    BY <1>0, <1>1, <2>1, <2>3 DEF IInv, FilesOK
  <2>6. HandlesOK'
    BY <2>3 DEF IInv, HandlesOK
  <2>7. CallOK'
    BY <1>1, <2>1 DEF CallOK
  <2>8. LoopOK'
    <3>1. Total' = Total
      BY <1>1 DEF Total
    <3>2. dumpSize' = Smaller(Total - 0, BUF) /\ dumpSize' \in Nat
      BY <1>0, <2>1 DEF Smaller
    <3> QED
      BY <1>0, <2>1, <3>1, <3>2 DEF IInv, LoopOK
  <2>9. FileOK'
    BY <1>0, <1>1, <2>1, <2>2, <2>3, RegionEmpty DEF FileOK
  <2> QED
    BY <2>4, <2>5, <2>6, <2>7, <2>8, <2>9 DEF IInv
<1> QED
  BY <1>2, <1>3

\* CopyChunk keeps the inductive invariant.
LEMMA CopyChunkIInv ==
  ASSUME IInv, CopyChunk
  PROVE  IInv'
<1> USE UsbDumpAssumption DEF CopyChunk, rpc, stick
<1>0. /\ Total \in Nat \ {0} /\ Total' = Total
      /\ dpos \in Nat /\ dpos < Total /\ dumpSize = Smaller(Total - dpos, BUF)
  BY Sizes DEF IInv, Numbers, LoopOK, Total
<1>1. /\ dumpSize \in Nat \ {0} /\ dpos + dumpSize <= Total
      /\ Smaller(dumpSize, PKT) \in Nat /\ Smaller(dumpSize, PKT) = Smaller(dumpSize - 0, PKT)
  BY <1>0 DEF Smaller
<1>2. Numbers' /\ Linked'
  BY DEF IInv, Numbers, Linked, Steps
<1>3. FilesOK'
  BY DEF IInv, FilesOK
<1>4. HandlesOK'
  BY DEF IInv, HandlesOK
<1>5. CallOK'
  BY DEF IInv, CallOK
<1>6. LoopOK'
  <2>1. membuffer' \in Seq(Nat)
    BY <1>0, <1>1, RegionSeq
  <2> QED
    BY <1>0, <1>1, <2>1 DEF LoopOK
<1>7. FileOK'
  <2>1. dpos' + rpos' = dpos
    BY <1>0
  <2> QED
    BY <2>1 DEF IInv, FileOK
<1> QED
  BY <1>2, <1>3, <1>4, <1>5, <1>6, <1>7 DEF IInv

\* AllCopied keeps the inductive invariant.
LEMMA AllCopiedIInv ==
  ASSUME IInv, AllCopied
  PROVE  IInv'
<1> USE UsbDumpAssumption DEF AllCopied, loop, rpc, stick
<1>0. Total' = Total /\ dpos = Total
  BY Sizes DEF IInv, Numbers, LoopOK, Total
<1>2. Numbers' /\ Linked'
  BY DEF IInv, Numbers, Linked, Steps
<1>3. FilesOK'
  BY DEF IInv, FilesOK
<1>4. HandlesOK'
  BY DEF IInv, HandlesOK
<1>5. CallOK'
  BY DEF IInv, CallOK
<1>6. LoopOK'
  BY DEF IInv, LoopOK
<1>7. FileOK'
  BY <1>0 DEF IInv, FileOK
<1> QED
  BY <1>2, <1>3, <1>4, <1>5, <1>6, <1>7 DEF IInv

\* SendPacket keeps the inductive invariant.
LEMMA SendPacketIInv ==
  ASSUME Reliable, IInv, SendPacket
  PROVE  IInv'
<1> USE UsbDumpAssumption DEF SendPacket, loop, stick
<1> DEFINE packet == SubSeq(membuffer, rpos + 1, rpos + sndSize)
<1>0. /\ currentCmd' = "write"
      /\ call' = [fno |-> "write", name |-> cur, fd |-> fd, data |-> packet, ret |-> -1, st |-> "sent"]
  BY DEF IssueCall, Request, Reliable, IInv, Linked
<1>1. packet = Region(dpos + rpos, sndSize) /\ packet \in Seq(Nat)
  <2>1. /\ dpos \in Nat /\ dumpSize \in Nat /\ rpos \in Nat /\ sndSize \in Nat
        /\ membuffer = Region(dpos, dumpSize) /\ rpos < dumpSize
        /\ sndSize = Smaller(dumpSize - rpos, PKT)
    BY DEF IInv, LoopOK
  <2>2. rpos + sndSize <= dumpSize /\ dpos + rpos \in Nat
    BY <2>1 DEF Smaller
  <2>3. SubSeq(Region(dpos, dumpSize), rpos + 1, rpos + sndSize) = Region(dpos + rpos, sndSize)
    BY ONLY <2>1, <2>2, RegionSub
  <2>4. packet = Region(dpos + rpos, sndSize)
    BY <2>1, <2>3
  <2>5. Region(dpos + rpos, sndSize) \in Seq(Nat)
    BY ONLY <2>1, <2>2, RegionSeq
  <2> QED
    BY <2>4, <2>5
<1>2. Numbers' /\ Linked'
  BY DEF IInv, Numbers, Linked, Steps
<1>3. FilesOK'
  BY DEF IInv, FilesOK
<1>4. HandlesOK'
  BY DEF IInv, HandlesOK
<1>5. CallOK'
  <2>1. call' \in [fno : {"write"}, name : {cur}, fd : {fd}, data : Seq(Nat),
                   ret : Int, st : {"sent", "served", "done"}]
    <3> HIDE DEF packet
    <3> QED
      BY <1>0, <1>1
  <2>2. call'.data = Region(dpos + rpos, sndSize)
    BY <1>0, <1>1
  <2> QED
    BY <1>0, <2>1, <2>2 DEF CallOK
<1>6. LoopOK'
  BY DEF IInv, LoopOK, Total
<1>7. FileOK'
  <2>1. call'.st = "sent"
    BY <1>0
  <2> QED
    BY <2>1 DEF IInv, FileOK
<1> QED
  BY <1>2, <1>3, <1>4, <1>5, <1>6, <1>7 DEF IInv

\* SyncPacket keeps the inductive invariant.
LEMMA SyncPacketIInv ==
  ASSUME IInv, SyncPacket
  PROVE  IInv'
<1> USE UsbDumpAssumption
<1>0. /\ pc = "sendSync" /\ currentCmd = "write" /\ call.st = "done"
      /\ SyncValue(r) = call.ret /\ call.ret \in Int
      /\ Total \in Nat \ {0} /\ cur \in Names
  BY Sizes DEF SyncPacket, Taken, SyncDone, SyncValue, IInv, CallOK, Numbers, Total
<1>1. /\ currentCmd' = "none" /\ call' = Idle
      /\ UNCHANGED <<cur, inited, bound, usbserv, stick>>
  BY DEF SyncPacket, Taken, Collected
<1>2. CASE Return(0)
  BY <1>0, <1>1, <1>2, ReturnIInv
<1>3. CASE ~Return(0)
  <2>1. /\ call.ret = sndSize /\ r' = sndSize /\ rpos' = rpos + sndSize
        /\ sndSize' = Smaller(dumpSize - rpos', sndSize)
        /\ \/ rpos' < dumpSize /\ pc' = "send" /\ UNCHANGED <<dpos, dumpSize>>
           \/ /\ rpos' >= dumpSize /\ pc' = "copy" /\ dpos' = dpos + dumpSize
              /\ dumpSize' = Smaller(Total - dpos', dumpSize)
        /\ UNCHANGED <<fd, membuffer, index, result>>
    BY <1>0, <1>3 DEF SyncPacket, Taken
  <2>2. UNCHANGED <<made, files, handles>>
    BY <1>1 DEF stick
  <2>3. /\ dpos \in Nat /\ dumpSize \in Nat /\ rpos \in Nat /\ sndSize \in Nat
        /\ dpos + dumpSize <= Total /\ dumpSize = Smaller(Total - dpos, BUF)
        /\ membuffer = Region(dpos, dumpSize) /\ membuffer \in Seq(Nat)
        /\ rpos < dumpSize /\ sndSize = Smaller(dumpSize - rpos, PKT)
    BY <1>0 DEF IInv, LoopOK
  <2>4. files[cur] = Region(0, dpos + rpos + sndSize) /\ fd \in Fds /\ handles[fd] = {cur}
    <3>1. PICK n \in 0 .. sndSize : files[cur] = Region(0, dpos + rpos + n) /\ call.ret \in {-1, n}
      BY <1>0 DEF IInv, FileOK
    <3>2. n = sndSize
      BY <2>1, <2>3, <3>1
    <3> QED
      BY <1>0, <3>1, <3>2 DEF IInv, FileOK
  <2>5. sndSize \in Nat \ {0} /\ rpos + sndSize <= dumpSize
    BY <2>3 DEF Smaller
  <2>6. Numbers' /\ Linked'
    BY <1>0, <1>1, <2>1, <2>3 DEF IInv, Numbers, Linked, Steps
  <2>7. FilesOK'
    BY <1>0, <1>1, <2>1, <2>2 DEF IInv, FilesOK
  <2>8. HandlesOK'
    BY <2>2 DEF IInv, HandlesOK
  <2>9. CallOK'
    BY <1>1, <2>1 DEF CallOK
  <2>10. Total' = Total
    BY <1>1 DEF Total
  <2>11. CASE rpos' < dumpSize /\ pc' = "send" /\ UNCHANGED <<dpos, dumpSize>>
    <3>0. sndSize = PKT
      BY <2>1, <2>3, <2>11 DEF Smaller
    <3>a. sndSize' = Smaller(dumpSize - rpos', PKT)
      BY <2>1, <3>0, Zenon
    <3>c. rpos \in Nat /\ sndSize \in Nat /\ dumpSize \in Nat /\ rpos' = rpos + sndSize
      BY <2>1, <2>3, Zenon
    <3>d. rpos' < dumpSize
      BY <2>11, Zenon
    <3>b. rpos' \in Nat /\ dumpSize - rpos' \in Nat
      BY <3>c, <3>d
    <3>1. sndSize' = Smaller(dumpSize - rpos', PKT) /\ sndSize' \in Nat /\ rpos' \in Nat
      BY <3>a, <3>b, UsbDumpAssumption DEF Smaller
    <3>2. LoopOK'
      BY <2>1, <2>3, <2>10, <2>11, <3>1 DEF LoopOK
    <3>3. dpos' + rpos' = dpos + rpos + sndSize
      BY <2>1, <2>3, <2>11
    <3>4. FileOK'
      BY <1>1, <2>1, <2>2, <2>4, <2>11, <3>3 DEF FileOK
    <3> QED
      BY <2>6, <2>7, <2>8, <2>9, <3>2, <3>4 DEF IInv
  <2>12. CASE /\ rpos' >= dumpSize /\ pc' = "copy" /\ dpos' = dpos + dumpSize
              /\ dumpSize' = Smaller(Total - dpos', dumpSize)
    <3>0. rpos' = dumpSize
      BY <2>1, <2>3, <2>5, <2>12
    <3>a. dumpSize - rpos' = 0
      BY <2>3, <3>0
    <3>b. sndSize' = Smaller(0, sndSize)
      BY <2>1, <3>a
    <3>1. rpos' = dumpSize /\ rpos' \in Nat /\ sndSize' \in Nat
      BY <2>3, <2>5, <3>0, <3>b DEF Smaller
    <3>2. dpos' <= Total /\ dpos' \in Nat /\ dumpSize' = Smaller(Total - dpos', BUF) /\ dumpSize' \in Nat
      BY <1>0, <2>3, <2>12 DEF Smaller
    <3>3. LoopOK'
      BY <2>1, <2>3, <2>10, <2>12, <3>1, <3>2 DEF LoopOK
    <3>4. dpos' = dpos + rpos + sndSize
      BY <2>1, <2>3, <2>12, <3>1
    <3>5. FileOK'
      BY <1>1, <2>1, <2>2, <2>4, <2>12, <3>4 DEF FileOK
    <3> QED
      BY <2>6, <2>7, <2>8, <2>9, <3>3, <3>5 DEF IInv
  <2> QED
    BY <2>1, <2>11, <2>12
<1> QED
  BY <1>2, <1>3

\* SendClose keeps the inductive invariant.
LEMMA SendCloseIInv ==
  ASSUME Reliable, IInv, SendClose
  PROVE  IInv'
<1> USE UsbDumpAssumption DEF SendClose, loop, stick
<1>0. /\ currentCmd' = "close"
      /\ call' = [fno |-> "close", name |-> cur, fd |-> fd, data |-> <<>>, ret |-> -1, st |-> "sent"]
  BY DEF IssueCall, Request, Reliable, IInv, Linked
<1>2. Numbers' /\ Linked'
  BY DEF IInv, Numbers, Linked, Steps
<1>3. FilesOK'
  BY DEF IInv, FilesOK
<1>4. HandlesOK'
  BY DEF IInv, HandlesOK
<1>5. CallOK'
  <2>1. call' \in [fno : {"close"}, name : {cur}, fd : {fd}, data : Seq(Nat),
                   ret : Int, st : {"sent", "served", "done"}]
    BY <1>0, EmptySeq
  <2> QED
    BY <1>0, <2>1 DEF CallOK
<1>6. LoopOK'
  BY DEF IInv, LoopOK
<1>7. FileOK'
  <2>1. call'.st = "sent" /\ Total' = Total
    BY <1>0 DEF Total
  <2> QED
    BY <2>1 DEF IInv, FileOK
<1> QED
  BY <1>2, <1>3, <1>4, <1>5, <1>6, <1>7 DEF IInv

\* SyncClose keeps the inductive invariant.
LEMMA SyncCloseIInv ==
  ASSUME IInv, SyncClose
  PROVE  IInv'
<1>1. pc = "closeSync" /\ currentCmd = "close" /\ call.st = "done" /\ Total \in Nat
  BY Sizes DEF SyncClose, SyncDone, IInv, CallOK, Numbers, Total
<1>2. \A f \in Fds : handles[f] # {cur}
  BY <1>1 DEF IInv, FileOK
<1>3. /\ currentCmd' = "none" /\ call' = Idle
      /\ UNCHANGED <<cur, inited, bound, usbserv, stick>> /\ Return(Total)
  BY DEF SyncClose, Collected
<1> QED
  BY <1>1, <1>2, <1>3, ReturnIInv

\* The server's steps change the call's state, its answer, and the stick.
LEMMA ServerKeeps ==
  ASSUME IInv, unserved' = unserved, call.st # "done"
  PROVE  /\ Numbers' /\ Linked' /\ LoopOK'
         /\ UNCHANGED <<pc, cur, index, fd, r, dpos, dumpSize, rpos, sndSize, membuffer,
                        result, inited, bound, currentCmd, usbserv>>
         /\ currentCmd # "none" /\ pc \in {"createSync", "sendSync", "closeSync"}
         /\ cur \in Names /\ cur[1] \in Kinds /\ cur[2] = index[cur[1]] /\ Total' = Total
<1>1. UNCHANGED <<pc, cur, index, fd, r, dpos, dumpSize, rpos, sndSize, membuffer,
                  result, inited, bound, currentCmd, usbserv>>
  BY DEF unserved, loop
<1>2. Numbers' /\ Linked' /\ LoopOK' /\ Total' = Total
  BY <1>1 DEF IInv, Numbers, Linked, LoopOK, Total
<1>3. currentCmd # "none" /\ pc \in {"createSync", "sendSync", "closeSync"}
  BY IdleFacts DEF IInv, CallOK
<1> QED
  BY <1>1, <1>2, <1>3, Sizes DEF IInv, Numbers

\* What holds of the call that is being served.
LEMMA ServedCall ==
  ASSUME IInv, unserved' = unserved, call.st # "done",
         NEW st \in {"served", "done"}, NEW ret \in Int,
         call' = [call EXCEPT !.st = st, !.ret = ret]
  PROVE  CallOK' /\ call'.st = st /\ call'.ret = ret
<1>1. /\ UNCHANGED <<pc, cur, fd, dpos, rpos, sndSize, currentCmd>> /\ currentCmd # "none"
  BY ServerKeeps
<1>2. call \in [fno : {currentCmd}, name : {cur}, fd : {fd}, data : Seq(Nat),
               ret : Int, st : {"sent", "served", "done"}]
  BY <1>1 DEF IInv, CallOK
<1>3. /\ call' \in [fno : {currentCmd}, name : {cur}, fd : {fd}, data : Seq(Nat),
                    ret : Int, st : {"sent", "served", "done"}]
      /\ call'.st = st /\ call'.ret = ret /\ call'.data = call.data
  BY <1>2
<1> QED
  BY <1>1, <1>3 DEF IInv, CallOK

\* ServeOpen keeps the inductive invariant.
LEMMA ServeOpenIInv ==
  ASSUME IInv, ServeOpen
  PROVE  IInv'
<1>1. /\ call.st = "sent" /\ call.fno = "open" /\ unserved' = unserved
  BY DEF ServeOpen, Truncated, Serving
<1>2. /\ UNCHANGED <<pc, cur, index, fd, dpos, rpos, sndSize, result, currentCmd>>
      /\ Numbers' /\ Linked' /\ LoopOK' /\ Total' = Total
      /\ cur \in Names /\ cur[1] \in Kinds /\ cur[2] = index[cur[1]]
  BY <1>1, ServerKeeps
<1>3. pc = "createSync" /\ call.name = cur /\ cur \notin made
  <2>1. currentCmd = call.fno /\ call.name = cur
    BY <1>1, ServerKeeps DEF IInv, CallOK
  <2> QED
    BY <1>1, <2>1 DEF IInv, CallOK, FileOK
<1>4. ASSUME NEW f \in Fds, handles[f] = {},
             handles' = [handles EXCEPT ![f] = {call.name}],
             made' = made \cup {call.name},
             files' = [files EXCEPT ![call.name] = <<>>], Served(f)
      PROVE  IInv'
  <2>1. CallOK' /\ call'.st = "served" /\ call'.ret = f
    <3>1. f \in Int /\ call.st # "done" /\ call' = [call EXCEPT !.st = "served", !.ret = f]
      BY <1>1, <1>4, UsbDumpAssumption DEF Served
    <3> QED
      BY <1>1, <3>1, ServedCall
  <2>2. FilesOK'
    <3>1. made' \subseteq Names /\ files' \in [Names -> Seq(Nat)]
      BY <1>2, <1>3, <1>4, EmptySeq DEF IInv, FilesOK
    <3>2. ASSUME NEW n \in Names
          PROVE  /\ \E m \in 0 .. NameSize[n] : files'[n] = Region(0, m)
                 /\ n \notin made' => files'[n] = <<>>
                 /\ n \in made' => n[2] < index'[n[1]] \/ (n = cur' /\ pc' \notin {"game", "create"})
      <4>1. CASE n = cur
        <5>1. files'[n] = <<>> /\ n \in made'
          BY <1>3, <1>4, <4>1 DEF IInv, FilesOK
        <5>2. 0 \in 0 .. NameSize[n] /\ files'[n] = Region(0, 0)
          BY <5>1, Sizes, RegionEmpty
        <5> QED
          BY <1>2, <1>3, <4>1, <5>1, <5>2
      <4>2. CASE n # cur
        BY <1>2, <1>3, <1>4, <4>2 DEF IInv, FilesOK
      <4> QED
        BY <4>1, <4>2
    <3> QED
      BY <3>1, <3>2 DEF FilesOK
  <2>3. HandlesOK'
    <3>1. \A g \in Fds : handles'[g] = IF g = f THEN {cur} ELSE handles[g]
      BY <1>3, <1>4 DEF IInv, HandlesOK
    <3>2. handles' \in [Fds -> {{}} \cup {{n} : n \in Names}]
      BY <1>2, <1>3, <1>4 DEF IInv, HandlesOK
    <3>3. \A g \in Fds : handles[g] # {cur}
      BY <1>3 DEF IInv, HandlesOK
    <3>4. \A g \in Fds : handles'[g] \subseteq made'
      BY <1>3, <1>4, <3>1 DEF IInv, HandlesOK
    <3>5. \A g, h \in Fds : handles'[g] = handles'[h] /\ handles'[g] # {} => g = h
      BY <3>1, <3>3 DEF IInv, HandlesOK
    <3> QED
      BY <3>2, <3>4, <3>5 DEF HandlesOK
  <2>4. FileOK'
    <3>1. handles'[f] = {cur} /\ cur \in made' /\ files'[cur] = <<>>
      BY <1>2, <1>3, <1>4 DEF IInv, HandlesOK, FilesOK
    <3> QED
      BY <1>2, <1>3, <2>1, <3>1 DEF FileOK
  <2> QED
    BY <1>2, <2>1, <2>2, <2>3, <2>4 DEF IInv
<1>5. CASE Served(-1) /\ UNCHANGED stick
  <2>1. CallOK' /\ call'.st = "served" /\ call'.ret = -1
    <3>1. -1 \in Int /\ call.st # "done" /\ call' = [call EXCEPT !.st = "served", !.ret = -1]
      BY <1>1, <1>5 DEF Served
    <3> QED
      BY <1>1, <3>1, ServedCall
  <2>2. UNCHANGED <<made, files, handles>>
    BY <1>5 DEF stick
  <2>3. FilesOK' /\ HandlesOK'
    BY <1>2, <2>2 DEF IInv, FilesOK, HandlesOK
  <2>4. FileOK'
    BY <1>2, <1>3, <2>1, <2>2 DEF FileOK
  <2> QED
    BY <1>2, <2>1, <2>3, <2>4 DEF IInv
<1> QED
  BY <1>4, <1>5 DEF ServeOpen, Truncated, Truncated

\* A write, short or failed or not, adds the next bytes of the region.
LEMMA WriteExtends ==
  ASSUME IInv, ServeWrite
  PROVE  \E at \in Nat, n \in 0 .. sndSize, failed \in BOOLEAN :
           /\ at = dpos + rpos /\ at + n \in 0 .. NameSize[cur]
           /\ files[cur] = Region(0, at) /\ fd \in Fds /\ handles[fd] = {cur}
           /\ files' = [files EXCEPT ![cur] = Region(0, at + n)]
           /\ Served(IF failed THEN -1 ELSE n)
<1> USE UsbDumpAssumption
<1>1. /\ call.st = "sent" /\ call.fno = "write" /\ unserved' = unserved
      /\ made' = made /\ handles' = handles
  BY DEF ServeWrite, Serving
<1>2. /\ UNCHANGED <<pc, cur, index, fd, dpos, rpos, sndSize, result, currentCmd>>
      /\ Numbers' /\ Linked' /\ LoopOK' /\ Total' = Total
      /\ cur \in Names /\ cur[1] \in Kinds
  BY <1>1, ServerKeeps
<1>3. pc = "sendSync" /\ call.fd = fd /\ call.data = Region(dpos + rpos, sndSize)
  <2>1. currentCmd = call.fno /\ call.fd = fd
    BY <1>1, ServerKeeps DEF IInv, CallOK
  <2> QED
    BY <1>1, <2>1 DEF IInv, CallOK
<1>4. fd \in Fds /\ handles[fd] = {cur} /\ files[cur] = Region(0, dpos + rpos)
  BY <1>1, <1>3 DEF IInv, FileOK
<1>5. /\ dpos + rpos \in Nat /\ sndSize \in Nat /\ dpos + rpos + sndSize <= NameSize[cur]
      /\ NameSize[cur] \in Nat
  <2>1. /\ dpos \in Nat /\ rpos \in Nat /\ dumpSize \in Nat /\ sndSize \in Nat
        /\ dpos + dumpSize <= Total /\ rpos < dumpSize /\ sndSize = Smaller(dumpSize - rpos, PKT)
    BY <1>3 DEF IInv, LoopOK
  <2>2. Total = NameSize[cur] /\ Total \in Nat
    BY <1>2, Sizes DEF Total
  <2> QED
    BY <2>1, <2>2 DEF Smaller
<1>6. PICK n \in 0 .. sndSize, failed \in BOOLEAN :
        /\ files' = [files EXCEPT ![cur] = @ \o SubSeq(call.data, 1, n)]
        /\ Served(IF failed THEN -1 ELSE n)
  <2>1. Len(call.data) = sndSize
    BY <1>3, <1>5, RegionSeq
  <2> QED
    BY <1>3, <1>4, <2>1 DEF ServeWrite
<1>a. PICK at \in Nat : at = dpos + rpos
  BY <1>5
<1>b. n \in Nat /\ at + n \in Nat /\ 0 + n <= sndSize
  BY <1>5
<1>7. files' = [files EXCEPT ![cur] = Region(0, at + n)]
  <2>1. Region(0, at) \o SubSeq(Region(at, sndSize), 1, n) = Region(0, at + n)
    BY <1>5, RegionWrite
  <2> QED
    BY <1>3, <1>a, <1>4, <1>6, <2>1 DEF IInv, FilesOK
<1>8. at + n \in 0 .. NameSize[cur] /\ files[cur] = Region(0, at)
  BY <1>a, <1>b, <1>4, <1>5
<1> QED
  BY <1>a, <1>4, <1>6, <1>7, <1>8

\* ServeWrite keeps the inductive invariant.
LEMMA ServeWriteIInv ==
  ASSUME IInv, ServeWrite
  PROVE  IInv'
<1> USE UsbDumpAssumption
<1>1. /\ call.st = "sent" /\ call.fno = "write" /\ unserved' = unserved
      /\ made' = made /\ handles' = handles
  BY DEF ServeWrite, Serving
<1>2. /\ UNCHANGED <<pc, cur, index, fd, dpos, rpos, sndSize, result, currentCmd>>
      /\ Numbers' /\ Linked' /\ LoopOK' /\ Total' = Total
      /\ cur \in Names /\ cur[1] \in Kinds
  BY <1>1, ServerKeeps
<1>3. pc = "sendSync"
  <2>1. currentCmd = call.fno
    BY <1>1, ServerKeeps DEF IInv, CallOK
  <2> QED
    BY <1>1, <2>1 DEF IInv, CallOK
<1>5. PICK at \in Nat, n \in 0 .. sndSize, failed \in BOOLEAN :
           /\ at = dpos + rpos /\ at + n \in 0 .. NameSize[cur]
           /\ files[cur] = Region(0, at) /\ fd \in Fds /\ handles[fd] = {cur}
           /\ files' = [files EXCEPT ![cur] = Region(0, at + n)]
           /\ Served(IF failed THEN -1 ELSE n)
  BY WriteExtends
<1>8. /\ CallOK' /\ call'.st = "served" /\ call'.ret \in {-1, n}
  <2> DEFINE ret == IF failed THEN -1 ELSE n
  <2>1. ret \in Int /\ call.st # "done" /\ call' = [call EXCEPT !.st = "served", !.ret = ret]
    BY <1>1, <1>5 DEF Served
  <2>2. CallOK' /\ call'.st = "served" /\ call'.ret = ret
    BY <1>1, <2>1, ServedCall
  <2> QED
    BY <2>2
<1>9. FilesOK'
  <2>1. Region(0, at + n) \in Seq(Nat)
    <3>1. at + n \in Nat /\ 0 \in Nat
      BY <1>5
    <3> QED
      BY ONLY <3>1, RegionSeq
  <2>2. cur \in made
    BY <1>5 DEF IInv, HandlesOK
  <2>3. files' \in [Names -> Seq(Nat)]
    BY <1>2, <1>5, <2>1 DEF IInv, FilesOK
  <2>4. \A m \in Names : files'[m] = IF m = cur THEN Region(0, at + n) ELSE files[m]
    BY <1>2, <1>5 DEF IInv, FilesOK
  <2> QED
    BY <1>1, <1>2, <1>5, <2>1, <2>2, <2>3, <2>4 DEF IInv, FilesOK
<1>10. HandlesOK'
  BY <1>1 DEF IInv, HandlesOK
<1>11. FileOK'
  <2>1. files'[cur] = Region(0, at + n)
    BY <1>2, <1>5 DEF IInv, FilesOK
  <2> QED
    BY <1>1, <1>2, <1>3, <1>5, <1>8, <2>1 DEF FileOK
<1> QED
  BY <1>2, <1>8, <1>9, <1>10, <1>11 DEF IInv

\* ServeClose keeps the inductive invariant.
LEMMA ServeCloseIInv ==
  ASSUME IInv, ServeClose
  PROVE  IInv'
<1> USE UsbDumpAssumption
<1>1. /\ call.st = "sent" /\ call.fno = "close" /\ unserved' = unserved
      /\ made' = made /\ files' = files
  BY DEF ServeClose, Serving
<1>2. /\ UNCHANGED <<pc, cur, index, fd, dpos, rpos, sndSize, result, currentCmd>>
      /\ Numbers' /\ Linked' /\ LoopOK' /\ Total' = Total
  BY <1>1, ServerKeeps
<1>3. pc = "closeSync" /\ call.fd = fd
  <2>1. currentCmd = call.fno /\ call.fd = fd
    BY <1>1, ServerKeeps DEF IInv, CallOK
  <2> QED
    BY <1>1, <2>1 DEF IInv, CallOK
<1>4. fd \in Fds /\ handles[fd] = {cur} /\ files[cur] = Region(0, Total)
  BY <1>1, <1>3 DEF IInv, FileOK
<1>5. handles' = [handles EXCEPT ![fd] = {}] /\ \E failed \in BOOLEAN :
                                                    Served(IF failed THEN -1 ELSE 0)
  BY <1>3, <1>4 DEF ServeClose
<1>6. CallOK' /\ call'.st = "served"
  <2>1. PICK ret \in {-1, 0} : Served(ret)
    BY <1>5
  <2>2. ret \in Int /\ call.st # "done" /\ call' = [call EXCEPT !.st = "served", !.ret = ret]
    BY <1>1, <2>1 DEF Served
  <2> QED
    BY <1>1, <2>2, ServedCall
<1>7. \A f \in Fds : handles'[f] = IF f = fd THEN {} ELSE handles[f]
  BY <1>4, <1>5 DEF IInv, HandlesOK
<1>8. FilesOK'
  BY <1>1, <1>2 DEF IInv, FilesOK
<1>9. HandlesOK'
  <2>1. handles' \in [Fds -> {{}} \cup {{n} : n \in Names}]
    BY <1>5 DEF IInv, HandlesOK
  <2> QED
    BY <1>1, <1>7, <2>1 DEF IInv, HandlesOK
<1>10. FileOK'
  <2>1. \A f \in Fds : handles'[f] # {cur}
    BY <1>4, <1>7 DEF IInv, HandlesOK
  <2> QED
    BY <1>1, <1>2, <1>3, <1>4, <1>6, <2>1 DEF FileOK
<1> QED
  BY <1>2, <1>6, <1>8, <1>9, <1>10 DEF IInv

\* Reply keeps the inductive invariant.
LEMMA ReplyIInv ==
  ASSUME IInv, Reply
  PROVE  IInv'
<1>1. /\ call.st = "served" /\ unserved' = unserved /\ UNCHANGED <<made, files, handles>>
  BY DEF Reply, stick
<1>2. /\ UNCHANGED <<pc, cur, index, fd, dpos, rpos, sndSize, result, currentCmd>>
      /\ Numbers' /\ Linked' /\ LoopOK' /\ Total' = Total /\ currentCmd # "none"
  BY <1>1, ServerKeeps
<1>3. CallOK' /\ call'.st = "done" /\ call'.ret = call.ret
  <2>1. call.ret \in Int /\ call.st # "done"
        /\ call \in [fno : {currentCmd}, name : {cur}, fd : {fd}, data : Seq(Nat),
                     ret : Int, st : {"sent", "served", "done"}]
    BY <1>1, <1>2 DEF IInv, CallOK
  <2>2. call' = [call EXCEPT !.st = "done", !.ret = call.ret]
    BY <2>1 DEF Reply
  <2> QED
    BY <1>1, <2>1, <2>2, ServedCall
<1>4. FilesOK' /\ HandlesOK'
  BY <1>1, <1>2 DEF IInv, FilesOK, HandlesOK
<1>5. FileOK'
  BY <1>1, <1>2, <1>3 DEF IInv, FileOK
<1> QED
  BY <1>2, <1>3, <1>4, <1>5 DEF IInv

\* A stuttering step keeps the inductive invariant.
LEMMA StutterIInv == ASSUME IInv, UNCHANGED vars PROVE IInv'
<1> USE DEF vars, loop, rpc, stick
<1>1. Numbers' /\ Linked' /\ FilesOK' /\ HandlesOK'
  BY DEF IInv, Numbers, Linked, FilesOK, HandlesOK
<1>2. CallOK'
  BY DEF IInv, CallOK
<1>3. LoopOK'
  BY DEF IInv, LoopOK, Total
<1>4. FileOK'
  BY DEF IInv, FileOK, Total
<1> QED
  BY <1>1, <1>2, <1>3, <1>4 DEF IInv

\* Every step keeps the inductive invariant.
LEMMA IInvNext == ASSUME Reliable, IInv, [Next]_vars PROVE IInv'
<1>1. CASE \E k \in Kinds : StartDump(k)
  BY <1>1, StartDumpIInv
<1>2. CASE Dump
  BY <1>2, SendCreateIInv, SyncCreateIInv, CopyChunkIInv, AllCopiedIInv, SendPacketIInv,
     SyncPacketIInv, SendCloseIInv, SyncCloseIInv DEF Dump
<1>3. CASE Server
  BY <1>3, ServeOpenIInv, ServeWriteIInv, ServeCloseIInv, ReplyIInv DEF Server
<1>4. CASE Stopped \/ UNCHANGED vars
  BY <1>4, StutterIInv DEF Stopped
<1> QED
  BY <1>1, <1>2, <1>3, <1>4 DEF Next

\* The inductive invariant.
LEMMA IInvCorrect == ASSUME Reliable PROVE Spec => []IInv
<1>1. Init => IInv
  BY IInvInit
<1>2. IInv /\ [Next]_vars => IInv'
  BY IInvNext
<1> QED
  BY <1>1, <1>2, PTL DEF Spec

-----------------------------------------------------------------------------
(* Types, for every session: linked or not, reliable or not.               *)

CallType == [fno : Cmds, name : Names, fd : Int, data : Seq(Nat), ret : Int,
             st : {"sent", "served", "lost", "done"}]

\* The types of the dump's variables, with what keeps them: the numbers of the
\* double loop, which do not depend on the server's answers.
Typed ==
  /\ Numbers
  /\ inited \in BOOLEAN
  /\ currentCmd \in Cmds
  /\ call \in CallType
  /\ made \subseteq Names
  /\ files \in [Names -> Seq(Nat)]
  /\ handles \in [Fds -> {{}} \cup {{n} : n \in Names}]
  /\ LoopOK

\* The idle request is a request.
LEMMA IdleType == Idle \in CallType
<1>1. Idle.data \in Seq(Nat)
  BY IdleFacts, EmptySeq
<1> QED
  BY <1>1, Sizes DEF Idle, CallType, Cmds

\* The types hold when the console has been switched on.
LEMMA TypedReady ==
  ASSUME Ready, inited \in BOOLEAN, bound \in Nat, usbserv \in Nat,
         made \subseteq Names, files \in [Names -> Seq(Nat)]
  PROVE  Typed
<1> USE UsbDumpAssumption DEF Ready
<1>1. Numbers
  BY IdleFacts DEF Numbers, Steps
<1>2. LoopOK
  BY EmptySeq DEF LoopOK
<1>3. call \in CallType /\ currentCmd \in Cmds
  BY IdleType DEF Cmds
<1>4. handles \in [Fds -> {{}} \cup {{n} : n \in Names}]
  OBVIOUS
<1> QED
  BY <1>1, <1>2, <1>3, <1>4 DEF Typed

\* A request keeps the types of the client's variables.
LEMMA IssueType ==
  ASSUME Typed, NEW fno \in Cmds, NEW data \in Seq(Nat), IssueCall(fno, data)
  PROVE  currentCmd' \in Cmds /\ call' \in CallType
<1>1. Request(fno, data) \in CallType
  BY DEF Request, CallType, Typed, Numbers
<1> QED
  BY <1>1 DEF IssueCall, Typed

\* Every way out of sendDump keeps the types.
LEMMA ReturnTyped ==
  ASSUME Typed, pc # "game", currentCmd' = "none", call' = Idle,
         UNCHANGED <<cur, inited, bound, usbserv, stick>>, NEW v \in Nat, Return(v)
  PROVE  Typed'
<1> USE UsbDumpAssumption
<1>1. /\ pc' = "game" /\ result' = v /\ index' = [index EXCEPT ![cur[1]] = @ + 1]
      /\ fd' = -1 /\ r' = -1 /\ dpos' = 0 /\ dumpSize' = 0 /\ rpos' = 0 /\ sndSize' = 0
      /\ membuffer' = <<>> /\ made' = made /\ files' = files /\ handles' = handles
  BY DEF Return, LocalsGo, stick
<1>2. /\ cur \in Names /\ cur[1] \in Kinds /\ cur[2] = index[cur[1]]
      /\ index \in [Kinds -> 0 .. MaxIndex + 1] /\ cur[2] \in 0 .. MaxIndex
  BY DEF Typed, Numbers, Names
<1>3. Numbers'
  <2>1. index' \in [Kinds -> 0 .. MaxIndex + 1]
    BY <1>1, <1>2
  <2> QED
    BY <1>1, <1>2, <2>1 DEF Typed, Numbers, Steps
<1>4. LoopOK'
  BY <1>1, EmptySeq DEF LoopOK
<1>5. call' \in CallType /\ currentCmd' \in Cmds
  BY IdleType DEF Cmds
<1> QED
  BY <1>1, <1>3, <1>4, <1>5 DEF Typed

\* StartDump keeps the types.
LEMMA StartDumpTyped == ASSUME Typed, NEW k \in Kinds, StartDump(k) PROVE Typed'
<1> USE UsbDumpAssumption DEF StartDump, loop, rpc, stick
<1>1. Numbers'
  BY DEF Typed, Numbers, Steps, Garbage, Names
<1>2. LoopOK'
  BY DEF Typed, LoopOK
<1> QED
  BY <1>1, <1>2 DEF Typed

\* The three steps that send a request keep the types.
LEMMA SendTyped == ASSUME Typed, SendCreate \/ SendPacket \/ SendClose PROVE Typed'
<1> USE UsbDumpAssumption DEF loop, stick
<1>1. UNCHANGED <<cur, index, fd, r, dpos, dumpSize, rpos, sndSize, membuffer, result,
                  inited, bound, usbserv, made, files, handles>>
  BY DEF SendCreate, SendPacket, SendClose
<1>2. currentCmd' \in Cmds /\ call' \in CallType
  <2> DEFINE packet == SubSeq(membuffer, rpos + 1, rpos + sndSize)
  <2>1. {"open", "write", "close"} \subseteq Cmds /\ <<>> \in Seq(Nat)
    BY EmptySeq DEF Cmds
  <2>2. CASE SendCreate \/ SendClose
    BY <2>1, <2>2, IssueType DEF SendCreate, SendClose
  <2>3. CASE SendPacket
    <3>1. pc = "send" /\ IssueCall("write", packet)
      BY <2>3 DEF SendPacket
    <3>2. /\ dpos \in Nat /\ dumpSize \in Nat /\ rpos \in Nat /\ sndSize \in Nat
          /\ membuffer = Region(dpos, dumpSize) /\ rpos < dumpSize
          /\ sndSize = Smaller(dumpSize - rpos, PKT)
      BY <3>1 DEF Typed, LoopOK
    <3>3. rpos + sndSize <= dumpSize /\ dpos + rpos \in Nat
      BY <3>2 DEF Smaller
    <3>4. packet = Region(dpos + rpos, sndSize)
      <4>1. SubSeq(Region(dpos, dumpSize), rpos + 1, rpos + sndSize) = Region(dpos + rpos, sndSize)
        BY ONLY <3>2, <3>3, RegionSub
      <4> QED
        BY <3>2, <4>1
    <3>5. Region(dpos + rpos, sndSize) \in Seq(Nat)
      BY ONLY <3>2, <3>3, RegionSeq
    <3>6. packet \in Seq(Nat)
      BY <3>4, <3>5
    <3> HIDE DEF packet
    <3> QED
      BY <2>1, <3>1, <3>6, IssueType
  <2> QED
    BY <2>2, <2>3
<1>3. Numbers'
  BY <1>1 DEF Typed, Numbers, Steps, SendCreate, SendPacket, SendClose
<1>4. LoopOK'
  BY <1>1 DEF Typed, LoopOK, Total, SendCreate, SendPacket, SendClose
<1> QED
  BY <1>1, <1>2, <1>3, <1>4 DEF Typed

\* What a wait leaves in the variable it collects into is a number.
LEMMA SyncValueType == ASSUME Typed, NEW old \in Int PROVE SyncValue(old) \in Int
BY DEF SyncValue, Typed, CallType

\* SyncCreate keeps the types.
LEMMA SyncCreateTyped == ASSUME Typed, SyncCreate PROVE Typed'
<1> USE UsbDumpAssumption
<1>1. /\ pc = "createSync" /\ currentCmd' = "none" /\ call' = Idle
      /\ UNCHANGED <<cur, inited, bound, usbserv, stick>>
  BY DEF SyncCreate, Collected
<1>2. CASE Return(0)
  BY <1>1, <1>2, ReturnTyped
<1>3. CASE ~Return(0)
  <2>1. /\ fd' = SyncValue(fd) /\ pc' = "copy" /\ dpos' = 0 /\ dumpSize' = Smaller(Total, BUF)
        /\ UNCHANGED <<r, rpos, sndSize, membuffer, index, result>>
    BY <1>3 DEF SyncCreate
  <2>2. /\ Total' = Total /\ Total \in Nat \ {0} /\ UNCHANGED <<made, files, handles>>
        /\ SyncValue(fd) \in Int
    BY <1>1, Sizes, SyncValueType DEF Total, Typed, Numbers, stick
  <2>3. Numbers'
    BY <1>1, <2>1, <2>2 DEF Typed, Numbers, Steps
  <2>4. LoopOK'
    <3>1. dumpSize' = Smaller(Total - 0, BUF) /\ dumpSize' \in Nat
      BY <2>1, <2>2 DEF Smaller
    <3> QED
      BY <2>1, <2>2, <3>1 DEF Typed, LoopOK
  <2> QED
    BY <1>1, <2>2, <2>3, <2>4, IdleType DEF Typed, Cmds
<1> QED
  BY <1>2, <1>3

\* CopyChunk and AllCopied keep the types.
LEMMA CopyTyped == ASSUME Typed, CopyChunk \/ AllCopied PROVE Typed'
<1> USE UsbDumpAssumption DEF rpc, stick, loop
<1>0. /\ Total \in Nat \ {0} /\ Total' = Total
      /\ dpos \in Nat /\ dpos <= Total /\ dumpSize = Smaller(Total - dpos, BUF)
  BY Sizes DEF Typed, Numbers, LoopOK, Total, CopyChunk, AllCopied
<1>1. Numbers'
  BY DEF Typed, Numbers, Steps, CopyChunk, AllCopied
<1>2. LoopOK'
  <2>1. CASE CopyChunk
    <3>1. /\ dumpSize \in Nat \ {0} /\ dpos + dumpSize <= Total
          /\ Smaller(dumpSize, PKT) \in Nat /\ Smaller(dumpSize, PKT) = Smaller(dumpSize - 0, PKT)
      BY <1>0, <2>1 DEF Smaller, CopyChunk
    <3>2. membuffer' \in Seq(Nat)
      BY <1>0, <2>1, <3>1, RegionSeq DEF CopyChunk
    <3> QED
      BY <1>0, <2>1, <3>1, <3>2 DEF LoopOK, CopyChunk
  <2>2. CASE AllCopied
    BY <2>2 DEF Typed, LoopOK, AllCopied
  <2> QED
    BY <2>1, <2>2
<1> QED
  BY <1>1, <1>2 DEF Typed, CopyChunk, AllCopied

\* SyncPacket keeps the types.
LEMMA SyncPacketTyped == ASSUME Typed, SyncPacket PROVE Typed'
<1> USE UsbDumpAssumption
<1>1. /\ pc = "sendSync" /\ currentCmd' = "none" /\ call' = Idle
      /\ UNCHANGED <<cur, inited, bound, usbserv, stick>>
  BY DEF SyncPacket, Taken, Collected
<1>2. CASE Return(0)
  BY <1>1, <1>2, ReturnTyped
<1>3. CASE ~Return(0)
  <2>1. /\ r' = sndSize /\ rpos' = rpos + sndSize
        /\ sndSize' = Smaller(dumpSize - rpos', sndSize)
        /\ \/ rpos' < dumpSize /\ pc' = "send" /\ UNCHANGED <<dpos, dumpSize>>
           \/ /\ rpos' >= dumpSize /\ pc' = "copy" /\ dpos' = dpos + dumpSize
              /\ dumpSize' = Smaller(Total - dpos', dumpSize)
        /\ UNCHANGED <<fd, membuffer, index, result>>
    BY <1>3 DEF SyncPacket, Taken
  <2>2. UNCHANGED <<made, files, handles>> /\ Total' = Total /\ Total \in Nat \ {0}
    BY <1>1, Sizes DEF stick, Total, Typed, Numbers
  <2>3. /\ dpos \in Nat /\ dumpSize \in Nat /\ rpos \in Nat /\ sndSize \in Nat
        /\ dpos + dumpSize <= Total /\ dumpSize = Smaller(Total - dpos, BUF)
        /\ membuffer = Region(dpos, dumpSize) /\ membuffer \in Seq(Nat)
        /\ rpos < dumpSize /\ sndSize = Smaller(dumpSize - rpos, PKT)
    BY <1>1 DEF Typed, LoopOK
  <2>4. sndSize \in Nat \ {0} /\ rpos + sndSize <= dumpSize
    BY <2>3 DEF Smaller
  <2>5. Numbers'
    <3>1. pc' \in Steps
      BY <2>1 DEF Steps
    <3>2. r' \in Int /\ fd' = fd /\ index' = index /\ result' = result
      BY <2>1, <2>3
    <3> QED
      BY <1>1, <3>1, <3>2 DEF Typed, Numbers
  <2>6. rpos' \in Nat /\ rpos' <= dumpSize
    <3>1. rpos' = rpos + sndSize
      BY <2>1, Zenon
    <3> QED
      BY <2>3, <2>4, <3>1
  <2>7. CASE rpos' < dumpSize /\ pc' = "send" /\ UNCHANGED <<dpos, dumpSize>>
    <3>0. sndSize = PKT
      BY <2>1, <2>3, <2>7 DEF Smaller
    <3>a. sndSize' = Smaller(dumpSize - rpos', PKT)
      BY <2>1, <3>0, Zenon
    <3>d. rpos' < dumpSize
      BY <2>7, Zenon
    <3>b. dumpSize - rpos' \in Nat
      BY <2>3, <2>6, <3>d
    <3>1. sndSize' \in Nat
      BY <3>a, <3>b, UsbDumpAssumption DEF Smaller
    <3>2. LoopOK'
      BY <2>1, <2>2, <2>3, <2>6, <2>7, <3>1, <3>a DEF LoopOK
    <3> QED
      BY <1>1, <2>2, <2>5, <3>2, IdleType DEF Typed, Cmds
  <2>8. CASE /\ rpos' >= dumpSize /\ pc' = "copy" /\ dpos' = dpos + dumpSize
             /\ dumpSize' = Smaller(Total - dpos', dumpSize)
    <3>1. rpos' = dumpSize
      BY <2>3, <2>6, <2>8
    <3>a. dumpSize - rpos' = 0
      BY <2>3, <3>1
    <3>b. sndSize' = Smaller(0, sndSize)
      BY <2>1, <3>a
    <3>c. sndSize' \in Nat
      BY <2>3, <3>b DEF Smaller
    <3>2. dpos' <= Total /\ dpos' \in Nat /\ dumpSize' = Smaller(Total - dpos', BUF) /\ dumpSize' \in Nat
      BY <2>2, <2>3, <2>8 DEF Smaller
    <3>3. LoopOK'
      BY <2>1, <2>2, <2>3, <2>6, <2>8, <3>c, <3>2 DEF LoopOK
    <3> QED
      BY <1>1, <2>2, <2>5, <3>3, IdleType DEF Typed, Cmds
  <2> QED
    BY <2>1, <2>7, <2>8
<1> QED
  BY <1>2, <1>3

\* SyncClose keeps the types.
LEMMA SyncCloseTyped == ASSUME Typed, SyncClose PROVE Typed'
<1>1. /\ pc = "closeSync" /\ currentCmd' = "none" /\ call' = Idle
      /\ UNCHANGED <<cur, inited, bound, usbserv, stick>> /\ Return(Total)
  BY DEF SyncClose, Collected
<1>2. Total \in Nat
  BY Sizes DEF Total, Typed, Numbers
<1> QED
  BY <1>1, <1>2, ReturnTyped

\* The server's steps keep the types.
LEMMA ServerTyped == ASSUME Typed, Server PROVE Typed'
<1> USE UsbDumpAssumption
<1>1. /\ UNCHANGED <<pc, cur, index, fd, r, dpos, dumpSize, rpos, sndSize, membuffer,
                     result, inited, bound, currentCmd, usbserv>>
  BY DEF Server, ServeOpen, ServeWrite, ServeClose, Reply, unserved, loop
<1>2. Numbers' /\ LoopOK' /\ inited' \in BOOLEAN /\ currentCmd' \in Cmds
  BY <1>1 DEF Typed, Numbers, LoopOK, Total
<1>3. call.name \in Names /\ call.data \in Seq(Nat) /\ call.ret \in Int /\ call \in CallType
  BY DEF Typed, CallType
<1>4. ASSUME NEW ret \in Int, Served(ret) PROVE call' \in CallType
  BY <1>3, <1>4 DEF Served, CallType
<1>5. CASE ServeOpen
  <2>1. call' \in CallType
    BY <1>4, <1>5 DEF ServeOpen
  <2>2. CASE UNCHANGED stick
    BY <1>2, <2>1, <2>2 DEF Typed, stick
  <2>3. ASSUME NEW f \in Fds, handles' = [handles EXCEPT ![f] = {call.name}],
               made' = made \cup {call.name}, files' = [files EXCEPT ![call.name] = <<>>]
        PROVE  Typed'
    <3>1. made' \subseteq Names /\ files' \in [Names -> Seq(Nat)]
      BY <1>3, <2>3, EmptySeq DEF Typed
    <3>2. handles' \in [Fds -> {{}} \cup {{n} : n \in Names}]
      BY <1>3, <2>3 DEF Typed
    <3> QED
      BY <1>2, <2>1, <3>1, <3>2 DEF Typed
  <2> QED
    BY <1>5, <2>2, <2>3 DEF ServeOpen, Truncated
<1>6. CASE ServeWrite
  <2>1. call' \in CallType
    <3>1. ASSUME NEW n \in 0 .. Len(call.data), NEW failed \in BOOLEAN,
                 Served(IF failed THEN -1 ELSE n)
          PROVE  call' \in CallType
      <4>1. (IF failed THEN -1 ELSE n) \in Int
        OBVIOUS
      <4> QED
        BY ONLY <1>4, <3>1, <4>1
    <3>2. ASSUME Served(-1) PROVE call' \in CallType
      BY <1>4, <3>2
    <3> QED
      BY <1>6, <3>1, <3>2 DEF ServeWrite
  <2>2. files' \in [Names -> Seq(Nat)]
    <3>1. CASE files' = files
      BY <3>1 DEF Typed
    <3>2. ASSUME NEW name \in Names, NEW n \in 0 .. Len(call.data),
                 files' = [files EXCEPT ![name] = @ \o SubSeq(call.data, 1, n)]
          PROVE  files' \in [Names -> Seq(Nat)]
      <4>1. SubSeq(call.data, 1, n) \in Seq(Nat)
        <5>1. \A i \in 1 .. n : call.data[i] \in Nat
          BY <1>3
        <5>2. 1 \in Int /\ n \in Int
          OBVIOUS
        <5> QED
          BY <5>1, <5>2, SubSeqProperties
      <4>2. files[name] \o SubSeq(call.data, 1, n) \in Seq(Nat)
        BY <4>1, ConcatProperties DEF Typed
      <4> QED
        BY <3>2, <4>2 DEF Typed
    <3>3. ASSUME NEW f \in Fds PROVE handles[f] \subseteq Names
      <4>1. handles[f] \in {{}} \cup {{n} : n \in Names}
        BY DEF Typed
      <4> QED
        BY <4>1
    <3> QED
      BY <1>6, <3>1, <3>2, <3>3 DEF ServeWrite
  <2>3. UNCHANGED <<made, handles>>
    BY <1>6 DEF ServeWrite
  <2> QED
    BY <1>2, <2>1, <2>2, <2>3 DEF Typed
<1>7. CASE ServeClose
  <2>1. call' \in CallType
    BY <1>4, <1>7 DEF ServeClose
  <2>2. UNCHANGED <<made, files>> /\ handles' \in [Fds -> {{}} \cup {{n} : n \in Names}]
    BY <1>7 DEF ServeClose, Typed
  <2> QED
    BY <1>2, <2>1, <2>2 DEF Typed
<1>8. CASE Reply
  <2>1. call' \in CallType /\ UNCHANGED <<made, files, handles>>
    BY <1>3, <1>8 DEF Reply, CallType, stick
  <2> QED
    BY <1>2, <2>1 DEF Typed
<1> QED
  BY <1>5, <1>6, <1>7, <1>8 DEF Server

\* A step that leaves the dump's variables alone keeps their types.
LEMMA StutterTyped == ASSUME Typed, UNCHANGED vars PROVE Typed'
BY DEF Typed, vars, loop, rpc, stick, Numbers, LoopOK, Total

\* Every step of a dump keeps the types.
LEMMA DumpTyped == ASSUME Typed, Dump PROVE Typed'
BY SendTyped, SyncCreateTyped, CopyTyped, SyncPacketTyped, SyncCloseTyped DEF Dump

\* What is typed has the types the runs check.
LEMMA TypedTypeOK == Typed => TypeOK
BY DEF Typed, TypeOK, Numbers, LoopOK, CallType

-----------------------------------------------------------------------------
(* Theorems.                                                               *)

\* Every variable of the dump keeps its type, for every size of the regions,
\* of the buffer and of the packets, whatever calls fail on either side.
THEOREM TypeCorrect == Spec => []TypeOK
<1>1. Init => Typed
  <2> SUFFICES ASSUME Init PROVE Typed
    OBVIOUS
  <2>1. files \in [Names -> Seq(Nat)] /\ made \subseteq Names /\ Ready
    BY EmptySeq DEF Init, EmptyStick
  <2> QED
    BY <2>1, TypedReady DEF Init
<1>2. Typed /\ [Next]_vars => Typed'
  BY StartDumpTyped, DumpTyped, ServerTyped, StutterTyped DEF Next, Stopped
<1> QED
  BY <1>1, <1>2, TypedTypeOK, PTL DEF Spec

\* A dump that returns its length has closed its file.
THEOREM DoneIsClosedCorrect == ASSUME Reliable PROVE Spec => []DoneIsClosed
<1>1. IInv => DoneIsClosed
  BY DEF IInv, FileOK, DoneIsClosed
<1> QED
  BY <1>1, IInvCorrect, PTL

\* The file of a dump that has returned is never touched again.
THEOREM FinishedFrozenCorrect == ASSUME Reliable PROVE Spec => FinishedFrozen
<1>1. IInv /\ [Next]_vars => [\A n \in Names : n[2] < index[n[1]] => files'[n] = files[n]]_vars
  <2> SUFFICES ASSUME IInv, Next, NEW n \in Names, n[2] < index[n[1]]
               PROVE  files'[n] = files[n]
    OBVIOUS
  <2>1. files \in [Names -> Seq(Nat)]
    BY DEF IInv, FilesOK
  <2>2. CASE ServeOpen
    <3>1. call.st = "sent" /\ unserved' = unserved
      BY <2>2 DEF ServeOpen, Truncated, Serving
    <3>2. currentCmd # "none" /\ cur \in Names /\ cur[1] \in Kinds /\ cur[2] = index[cur[1]]
      BY <3>1, ServerKeeps
    <3>3. call.name = cur /\ n # cur
      BY <3>2, Sizes DEF IInv, CallOK
    <3> QED
      BY <2>1, <2>2, <3>3 DEF ServeOpen, Truncated, stick
  <2>3. CASE ServeWrite
    <3>1. call.st = "sent" /\ call.fno = "write" /\ unserved' = unserved
      BY <2>3 DEF ServeWrite, Serving
    <3>2. currentCmd # "none" /\ cur \in Names /\ cur[1] \in Kinds /\ cur[2] = index[cur[1]]
      BY <3>1, ServerKeeps
    <3>3. call.fd = fd /\ pc = "sendSync" /\ n # cur
      BY <3>1, <3>2, Sizes DEF IInv, CallOK
    <3>4. handles[call.fd] = {cur}
      BY <3>3 DEF IInv, FileOK
    <3> QED
      BY <2>1, <2>3, <3>3, <3>4 DEF ServeWrite
  <2>4. CASE ~ServeOpen /\ ~ServeWrite
    BY <2>4 DEF Next, StartDump, Dump, SendCreate, SyncCreate, CopyChunk, AllCopied, SendPacket,
       SyncPacket, Taken, SendClose, SyncClose, Server, ServeClose, Reply, Stopped, stick, vars
  <2> QED
    BY <2>2, <2>3, <2>4
<1> QED
  BY <1>1, IInvCorrect, PTL DEF Spec, FinishedFrozen

-----------------------------------------------------------------------------
(* UsbDump implements MemDump.                                             *)

AbsRunning == IF pc = "game" THEN {} ELSE {cur}

\* The initial states are those of MemDump.
LEMMA AbsInit == Init => Abs!Init
BY DEF Init, Ready, EmptyStick, Abs!Init

\* What Abs!Next asks of a step that is none of its actions.
LEMMA AbsStutter ==
  ASSUME UNCHANGED <<made, files, result>>, AbsRunning' = AbsRunning
  PROVE  UNCHANGED Abs!vars
BY DEF Abs!vars, AbsRunning

\* Begin is a step of MemDump, or none.
LEMMA AbsBegin ==
  ASSUME IInv, NEW k \in Kinds, StartDump(k)
  PROVE  Abs!Next
<1>1. /\ pc = "game" /\ pc' = "create" /\ cur' = <<k, index[k]>>
      /\ UNCHANGED <<made, files, result>> /\ index[k] \in 0 .. MaxIndex
  BY DEF StartDump, stick, IInv, Numbers
<1>2. cur' \in Names /\ cur'[1] = k /\ cur'[2] = index[k] /\ index[k] \in Nat
  BY <1>1, UsbDumpAssumption DEF Names
<1>3. ~(cur'[2] < index[cur'[1]])
  BY <1>2
<1>4. cur' \notin made
  BY <1>1, <1>2, <1>3 DEF IInv, FilesOK
<1>5. Abs!Begin(cur')
  BY <1>1, <1>4 DEF Abs!Begin
<1> QED
  BY <1>2, <1>5 DEF Abs!Next

\* Return is a step of MemDump, or none.
LEMMA AbsReturn ==
  ASSUME IInv, pc # "game", UNCHANGED stick, Return(0)
  PROVE  Abs!Next
<1>1. Abs!GiveUp(cur)
  BY DEF Return, stick, Abs!GiveUp
<1>2. cur \in Names
  BY DEF IInv, Numbers
<1> QED
  BY <1>1, <1>2 DEF Abs!Next

\* SyncClose is a step of MemDump, or none.
LEMMA AbsSyncClose ==
  ASSUME IInv, SyncClose
  PROVE  Abs!Next
<1>1. /\ pc = "closeSync" /\ pc' = "game" /\ result' = Total /\ UNCHANGED <<made, files>>
  BY DEF SyncClose, Return, stick
<1>2. cur \in Names /\ NameSize[cur] = Total /\ files[cur] = Region(0, Total)
  BY <1>1, Sizes DEF IInv, Numbers, FileOK, Total
<1>3. files[cur] # <<>>
  <2>1. Total \in Nat \ {0}
    BY <1>2, Sizes
  <2>2. Len(Region(0, Total)) = Total
    BY <2>1, RegionSeq
  <2> QED
    BY <1>2, <2>1, <2>2, EmptySeq
<1>4. cur \in made
  BY <1>2, <1>3 DEF IInv, FilesOK
<1>5. Abs!Beginning(Total) = Region(0, Total)
  <2>1. Total \in Nat
    BY <1>2, Sizes
  <2> QED
    BY <2>1 DEF Abs!Beginning, Region
<1>6. Abs!Finish(cur)
  BY <1>1, <1>2, <1>4, <1>5 DEF Abs!Finish
<1> QED
  BY <1>2, <1>6 DEF Abs!Next

\* ServeOpen is a step of MemDump, or none.
LEMMA AbsServeOpen ==
  ASSUME IInv, ServeOpen
  PROVE  [Abs!Next]_Abs!vars
<1>1. /\ call.st = "sent" /\ call.fno = "open" /\ unserved' = unserved
  BY DEF ServeOpen, Truncated, Serving
<1>2. /\ UNCHANGED <<pc, cur, result>> /\ cur \in Names /\ currentCmd # "none"
  BY <1>1, ServerKeeps
<1>3. pc = "createSync" /\ call.name = cur /\ cur \notin made
  <2>1. currentCmd = call.fno /\ call.name = cur
    BY <1>1, <1>2 DEF IInv, CallOK
  <2> QED
    BY <1>1, <2>1 DEF IInv, CallOK, FileOK
<1>4. CASE UNCHANGED stick
  BY <1>2, <1>4, AbsStutter DEF AbsRunning, stick
<1>5. CASE made' = made \cup {call.name} /\ files' = [files EXCEPT ![call.name] = <<>>]
  <2>1. files[cur] = <<>> /\ files \in [Names -> Seq(Nat)]
    BY <1>2, <1>3 DEF IInv, FilesOK
  <2>2. files' = files
    BY <1>2, <1>3, <1>5, <2>1
  <2>3. Abs!Create(cur)
    BY <1>2, <1>3, <1>5, <2>2 DEF Abs!Create
  <2> QED
    BY <1>2, <2>3 DEF Abs!Next
<1> QED
  BY <1>4, <1>5 DEF ServeOpen, Truncated, Truncated

\* ServeWrite is a step of MemDump, or none.
LEMMA AbsServeWrite ==
  ASSUME IInv, ServeWrite
  PROVE  Abs!Next
<1>1. /\ call.st = "sent" /\ call.fno = "write" /\ unserved' = unserved /\ made' = made
  BY DEF ServeWrite, Serving
<1>2. UNCHANGED <<pc, cur, result>> /\ cur \in Names /\ pc # "game"
  BY <1>1, ServerKeeps
<1>3. PICK at \in Nat, n \in 0 .. sndSize :
        /\ at + n \in 0 .. NameSize[cur] /\ files[cur] = Region(0, at)
        /\ fd \in Fds /\ handles[fd] = {cur}
        /\ files' = [files EXCEPT ![cur] = Region(0, at + n)]
  BY WriteExtends
<1>4. cur \in made
  BY <1>3 DEF IInv, HandlesOK
<1>5. PICK m \in at .. NameSize[cur] : m = at + n
  <2>1. sndSize \in Nat
    BY DEF IInv, LoopOK
  <2> QED
    BY <1>2, <1>3, <2>1, Sizes
<1>6. Len(files[cur]) = at /\ Abs!Beginning(m) = Region(0, m)
  <2>1. Len(files[cur]) = at
    BY <1>3, RegionSeq
  <2>2. m \in Nat
    BY <1>5
  <2> QED
    BY <2>1, <2>2 DEF Abs!Beginning, Region
<1>7. Abs!Extend(cur)
  BY <1>1, <1>2, <1>3, <1>4, <1>5, <1>6 DEF Abs!Extend
<1> QED
  BY <1>2, <1>7 DEF Abs!Next

\* Every step of the dump is a step of MemDump or leaves its variables alone.
LEMMA AbsStep ==
  ASSUME IInv, [Next]_vars
  PROVE  [Abs!Next]_Abs!vars
<1>1. CASE \E k \in Kinds : StartDump(k)
  BY <1>1, AbsBegin
<1>2. CASE SyncCreate \/ SyncPacket
  <2>1. CASE Return(0)
    BY <1>2, <2>1, AbsReturn DEF SyncCreate, SyncPacket, Taken, Taken
  <2>2. CASE ~Return(0)
    BY <1>2, <2>2, AbsStutter DEF SyncCreate, SyncPacket, Taken, AbsRunning, stick
  <2> QED
    BY <2>1, <2>2
<1>3. CASE SyncClose
  BY <1>3, AbsSyncClose
<1>4. CASE ServeOpen
  BY <1>4, AbsServeOpen
<1>5. CASE ServeWrite
  BY <1>5, AbsServeWrite
<1>6. CASE SendCreate \/ CopyChunk \/ AllCopied \/ SendPacket \/ SendClose
  BY <1>6, AbsStutter DEF SendCreate, CopyChunk, AllCopied, SendPacket, SendClose, AbsRunning, stick
<1>7. CASE ServeClose \/ Reply \/ Stopped \/ UNCHANGED vars
  BY <1>7, AbsStutter DEF ServeClose, Reply, Stopped, unserved, vars, AbsRunning, stick
<1> QED
  BY <1>1, <1>2, <1>3, <1>4, <1>5, <1>6, <1>7 DEF Next, Dump, Server

\* The dump implements its promise: for every region, buffer and packet size,
\* and whatever open and write answer, the file is a beginning of the region
\* and a dump that returns its length has written the whole of it.
THEOREM ImplementsMemDumpCorrect == ASSUME Reliable PROVE Spec => ImplementsMemDump
<1>1. Init => Abs!Init
  BY AbsInit
<1>2. IInv /\ [Next]_vars => [Abs!Next]_Abs!vars
  BY AbsStep
<1> QED
  BY <1>1, <1>2, IInvCorrect, PTL DEF Spec, ImplementsMemDump, Abs!Spec
=============================================================================
