---------------------------- MODULE InGame_proofs ----------------------------
(***************************************************************************)
(* The dumps of a running game across IOP resets, other executables, lost  *)
(* servers and power cycles, for any number of each, every memory layout,  *)
(* every set of libraries and combinations of buttons.                     *)
(*                                                                         *)
(* Three invariants, each used by the next: Hooks (the resets and the      *)
(* game's calls), Typed of UsbDump_proofs (the dump's variables), and      *)
(* Honest (what the stick holds), which needs that SifCallRpc does not     *)
(* fail on the EE side (Reliable).                                         *)
(***************************************************************************)
EXTENDS InGame, UsbDump_proofs

\* HookSifSetReg counts while the game makes the calls of its own reset, and
\* HookIopReset works before the first of them: neither runs within a dump.
Hooks ==
  /\ unhookAfter \in BOOLEAN /\ hooked \in BOOLEAN
  /\ set_reg_hook \in 0 .. 4 /\ setRegs \in 0 .. 4
  /\ hpc \in HookSteps /\ arg \in Args
  /\ iop \in {"up", "booting"}
  /\ lib \in Libs /\ reads \in {"plain", "hooked"}
  /\ scePadRead_style \in {1, 2}
  /\ old_pad \subseteq Buttons /\ pad \subseteq Buttons
  /\ resets \in 0 .. MaxResets /\ cycles \in 0 .. MaxPowerCycles
  /\ set_reg_hook > 0 => hooked /\ set_reg_hook = setRegs
  /\ hpc # "none" => hooked /\ setRegs = 0
  /\ pc # "game" => ~Resetting /\ iop = "up"

\* The client is bound to the server that runs.
Alive == inited /\ bound = usbserv

\* The registered command is the one the step waits for, and the call is its.
\* Without a client nothing is registered and nothing is sent.
Waits ==
  /\ currentCmd = CASE inited /\ pc = "createSync" -> "open"
                    [] inited /\ pc = "sendSync" -> "write"
                    [] inited /\ pc = "closeSync" -> "close"
                    [] OTHER -> "none"
  /\ currentCmd = "none" => call = Idle
  /\ currentCmd # "none" =>
       /\ call.fno = currentCmd /\ call.name = cur /\ call.fd = fd
       /\ call.st = "lost" <=> bound # usbserv
  /\ currentCmd = "write" => call.data = Region(dpos + rpos, sndSize)
  /\ pc # "game" /\ inited /\ bound # usbserv => pc \in {"create", "createSync"}

\* What the step knows of the file it writes through a server that runs.
Written ==
  /\ pc \in {"copy", "send", "sendSync", "close"} => fd \in Fds /\ handles[fd] = {cur}
  /\ pc = "createSync" =>
       \/ call.st = "sent"
       \/ call.ret = -1
       \/ call.ret \in Fds /\ handles[call.ret] = {cur} /\ files[cur] = <<>>
  /\ pc = "copy" => files[cur] = Region(0, dpos)
  /\ pc = "send" => files[cur] = Region(0, dpos + rpos)
  /\ pc = "sendSync" =>
       \/ call.st = "sent" /\ files[cur] = Region(0, dpos + rpos)
       \/ /\ call.st # "sent"
          /\ \E n \in 0 .. sndSize : /\ files[cur] = Region(0, dpos + rpos + n)
                                     /\ call.ret \in {-1, n}
  /\ pc \in {"close", "closeSync"} => files[cur] = Region(0, Total)

\* Every file is a beginning of its region.
Beginnings == \A n \in Names : \E m \in 0 .. NameSize[n] : files[n] = Region(0, m)

Honest == Waits /\ Beginnings /\ (Alive => Written)

-----------------------------------------------------------------------------
(* What the steps of a game do to the dump's variables.                    *)

\* A game's own step leaves the dump alone.
LEMMA GameAlone ==
  ASSUME Player \/ Boot \/ FindImage \/ SetReg \/ LoadExecutable
  PROVE  UNCHANGED vars
BY DEF Player, Boot, FindImage, SetReg, LoadExecutable

\* A step that resets the IOP, loads its modules or binds the client happens
\* outside of a dump, and changes what is on the IOP or the client's binding.
LEMMA IopSteps ==
  ASSUME Hooks, Typed,
         \/ \E a \in Args : ResetPacket(a)
         \/ PlainReset \/ PatchImage \/ SendImage \/ LoadDrivers \/ Bind \/ BindFails
  PROVE  /\ pc = "game" /\ UNCHANGED otherDump
         /\ inited' \in BOOLEAN /\ bound' \in Nat /\ usbserv' \in Nat
         /\ handles' \in {handles, [f \in Fds |-> {}]}
<1> USE InGameAssumption DEF RebootIop
<1>1. pc = "game"
  BY DEF Hooks, Resetting, ResetPacket, Playing, PlainReset, PatchImage, SendImage, LoadDrivers,
     Bind, BindFails
<1>2. UNCHANGED otherDump
  BY DEF ResetPacket, PlainReset, PatchImage, SendImage, LoadDrivers, Bind, BindFails
<1>3. inited' \in BOOLEAN /\ bound' \in Nat /\ usbserv' \in Nat
  <2>0. inited \in BOOLEAN /\ bound \in Nat /\ usbserv \in Nat /\ \A u \in Addresses : u \in Nat
    BY DEF Typed, Numbers
  <2>1. usbserv' \in {0, usbserv} \cup Addresses
    BY DEF ResetPacket, PlainReset, PatchImage, SendImage, LoadDrivers, Bind, BindFails
  <2>2. inited' \in {TRUE, inited} /\ bound' \in {bound, usbserv}
    BY DEF ResetPacket, PlainReset, PatchImage, SendImage, LoadDrivers, Bind, BindFails
  <2>3. usbserv' \in Nat /\ bound' \in Nat
    BY ONLY <2>0, <2>1, <2>2
  <2>4. inited' \in BOOLEAN
    BY ONLY <2>0, <2>2, Zenon
  <2> QED
    BY <2>3, <2>4
<1>4. handles' \in {handles, [f \in Fds |-> {}]}
  BY DEF ResetPacket, PlainReset, PatchImage, SendImage, LoadDrivers, Bind, BindFails
<1> QED
  BY <1>1, <1>2, <1>3, <1>4

\* The steps of a game, by what they do to the dump.
LEMMA GameSteps ==
  ASSUME Hooks, Typed, [GameNext]_gvars
  PROVE  \/ UNCHANGED vars
         \/ /\ pc = "game" /\ UNCHANGED otherDump
            /\ inited' \in BOOLEAN /\ bound' \in Nat /\ usbserv' \in Nat
            /\ handles' \in {handles, [f \in Fds |-> {}]}
         \/ \E k \in Kinds : StartDump(k)
         \/ Dump \/ Server
         \/ PowerCycle
BY GameAlone, IopSteps DEF GameNext, gvars, HookStep, HookGoes, PadRead

-----------------------------------------------------------------------------
(* The resets.                                                             *)

\* The hooks' variables when the game has been started.
LEMMA HooksInit == GameInit => Hooks
BY InGameAssumption DEF GameInit, Started, Ready, Hooks, HookSteps, Args, Buttons

\* A poll of the pad and the player keep the invariant of the hooks.
LEMMA HooksPad == ASSUME Hooks, PadRead \/ Player PROVE Hooks'
<1>1. UNCHANGED <<hook, iop, lib, reads, scePadRead_style, bounds>> /\ Playing
  BY DEF PadRead, Player
<1>2. old_pad' \subseteq Buttons /\ pad' \subseteq Buttons
  <2>1. CASE PadRead
    <3>1. PadData \subseteq SUBSET Buttons
      BY DEF PadData, Hooks
    <3> QED
      BY <2>1, <3>1 DEF PadRead, Hooks
  <2>2. CASE Player
    BY <2>2 DEF Player, Hooks
  <2> QED
    BY <2>1, <2>2
<1> QED
  BY <1>1, <1>2 DEF Hooks, Playing, Resetting, hook, bounds

\* The game's reset packet keeps the invariant of the hooks.
LEMMA HooksReset == ASSUME Hooks, NEW a \in Args, ResetPacket(a) PROVE Hooks'
<1> USE InGameAssumption
<1>1. /\ pc = "game" /\ pc' = "game" /\ hpc = "none" /\ setRegs = 0 /\ set_reg_hook = 0
      /\ UNCHANGED <<hooked, set_reg_hook, lib, reads, scePadRead_style, old_pad, pad,
                     unhookAfter, cycles>>
      /\ iop' = "booting"
  BY DEF ResetPacket, Playing, Resetting, Hooks, otherDump, otherGame, RebootIop
<1>2. resets' \in 0 .. MaxResets
  BY DEF ResetPacket, Hooks
<1>3. \/ hooked /\ hpc' = "cleaned" /\ arg' = a /\ setRegs' = 0
      \/ setRegs' = 4 /\ hpc' = "none" /\ arg' = arg
  BY <1>1 DEF ResetPacket
<1> QED
  BY <1>1, <1>2, <1>3 DEF Hooks, HookSteps

\* The steps of HookIopReset keep the invariant of the hooks.
LEMMA HooksHook == ASSUME Hooks, HookStep PROVE Hooks'
<1>1. /\ hpc # "none" /\ pc = "game" /\ pc' = "game"
      /\ UNCHANGED <<hooked, lib, reads, scePadRead_style, old_pad, pad, bounds>>
  BY DEF HookStep, HookGoes, PlainReset, FindImage, PatchImage, SendImage, LoadDrivers,
     Bind, BindFails, Hooks,
     Resetting, otherDump, otherGame, game, vars
<1>2. iop' \in {"up", "booting"}
  BY DEF HookStep, HookGoes, PlainReset, FindImage, PatchImage, SendImage, LoadDrivers,
     Bind, BindFails, RebootIop,
     Hooks, game
<1>3. \/ ReturnFromHook
      \/ hpc' \in HookSteps /\ UNCHANGED <<arg, set_reg_hook, setRegs>>
  BY DEF HookStep, HookGoes, PlainReset, FindImage, PatchImage, SendImage, LoadDrivers,
     Bind, BindFails, HookSteps
<1> QED
  BY <1>1, <1>2, <1>3 DEF Hooks, ReturnFromHook, HookSteps, Args, bounds

\* The game's four calls keep the invariant of the hooks.
LEMMA HooksSetReg == ASSUME Hooks, SetReg PROVE Hooks'
<1>1. /\ hpc = "none" /\ hpc' = "none" /\ setRegs > 0 /\ setRegs' = setRegs - 1
      /\ pc' = pc /\ pc = "game"
      /\ UNCHANGED <<arg, iop, lib, old_pad, pad, bounds>>
  BY DEF SetReg, vars, Hooks, Resetting
<1>2. setRegs' \in 0 .. 4
  BY <1>1 DEF Hooks
<1>3. reads' \in {"plain", "hooked"} /\ scePadRead_style' \in {1, 2}
  BY DEF SetReg, PostReset, PatchPadRead, Hooks
<1>4. /\ set_reg_hook' \in 0 .. 4 /\ hooked' \in BOOLEAN
      /\ set_reg_hook' > 0 => hooked' /\ set_reg_hook' = setRegs'
  <2>1. CASE hooked /\ set_reg_hook > 0
    <3>1. set_reg_hook' = set_reg_hook - 1 /\ set_reg_hook = setRegs
      <4>1. set_reg_hook' = set_reg_hook - 1
        <5>1. \/ hooked /\ set_reg_hook > 0 /\ set_reg_hook' = set_reg_hook - 1
              \/ (~hooked \/ set_reg_hook = 0) /\ UNCHANGED set_reg_hook
          BY DEF SetReg
        <5>2. set_reg_hook # 0 /\ hooked
          BY <2>1
        <5> QED
          BY <5>1, <5>2, Zenon
      <4>2. set_reg_hook = setRegs
        BY <2>1 DEF Hooks
      <4> QED
        BY <4>1, <4>2
    <3>2. \/ set_reg_hook' = 0 /\ hooked' = (hooked /\ ~unhookAfter)
          \/ set_reg_hook' > 0 /\ hooked' = hooked
      BY <2>1 DEF SetReg, PostReset
    <3>3. hooked' \in BOOLEAN
      BY <3>2 DEF Hooks
    <3>4. set_reg_hook' \in 0 .. 4 /\ set_reg_hook' = setRegs'
      BY <1>1, <3>1 DEF Hooks
    <3>5. set_reg_hook' = 0 \/ hooked'
      BY <2>1, <3>2, Zenon
    <3>6. set_reg_hook' > 0 => hooked'
      BY <3>5
    <3> QED
      BY ONLY <3>3, <3>4, <3>6
  <2>2. CASE ~(hooked /\ set_reg_hook > 0)
    <3>1. set_reg_hook' = set_reg_hook /\ hooked' = hooked
      BY <2>2 DEF SetReg
    <3>2. set_reg_hook = 0
      BY <2>2 DEF Hooks
    <3> QED
      BY <3>1, <3>2 DEF Hooks
  <2> QED
    BY <2>1, <2>2
<1> QED
  BY <1>1, <1>2, <1>3, <1>4 DEF Hooks, bounds

\* Every step keeps the invariant of the hooks.
LEMMA HooksNext == ASSUME Hooks, [GameNext]_gvars PROVE Hooks'
<1> USE InGameAssumption
<1>1. CASE PadRead \/ Player
  BY <1>1, HooksPad
<1>2. CASE \E a \in Args : ResetPacket(a)
  BY <1>2, HooksReset
<1>3. CASE HookStep
  BY <1>3, HooksHook
<1>4. CASE SetReg
  BY <1>4, HooksSetReg
<1>5. CASE Boot
  BY <1>5 DEF Boot, Hooks, vars, hook, otherGame, bounds, Resetting
<1>6. CASE LoadExecutable
  BY <1>6 DEF LoadExecutable, Hooks, vars, hook, bounds, Playing, Resetting
<1>7. CASE PowerCycle
  <2>1. cycles' \in 0 .. MaxPowerCycles
    BY <1>7 DEF PowerCycle, Hooks
  <2>2. /\ hooked' = TRUE /\ set_reg_hook' = 0 /\ hpc' = "none" /\ arg' = "other" /\ setRegs' = 0
        /\ iop' = "up" /\ lib' \in Libs /\ reads' = "plain" /\ scePadRead_style' = 1
        /\ old_pad' = {} /\ pad' = {} /\ resets' = 0 /\ pc' = "game" /\ unhookAfter' = unhookAfter
    BY <1>7 DEF PowerCycle
  <2> QED
    BY <2>1, <2>2 DEF Hooks, HookSteps, Args
<1>8. CASE (Dump \/ Server) /\ gameUnchanged
  <2>1. pc # "game" \/ pc' = pc
    BY <1>8 DEF Dump, SendCreate, SyncCreate, CopyChunk, AllCopied, SendPacket, SyncPacket,
       SendClose, SyncClose, Server, ServeOpen, ServeWrite, ServeClose, Reply, unserved
  <2>2. UNCHANGED <<hook, game, bounds>>
    BY <1>8 DEF gameUnchanged
  <2> QED
    BY <2>1, <2>2 DEF Hooks, hook, game, bounds, Resetting
<1>9. CASE UNCHANGED gvars
  BY <1>9 DEF gvars, vars, hook, game, bounds, Hooks, Resetting
<1> QED
  BY <1>1, <1>2, <1>3, <1>4, <1>5, <1>6, <1>7, <1>8, <1>9 DEF GameNext

\* The invariant of the hooks.
LEMMA HooksCorrect == GameSpec => []Hooks
BY HooksInit, HooksNext, PTL DEF GameSpec

\* HookSifSetReg swallows the calls of the reset it belongs to and no other,
\* however many resets there are and whichever builds unhook after the first.
THEOREM SwallowsTheResetsCorrect == GameSpec => []SwallowsTheResets
<1>1. Hooks => SwallowsTheResets
  BY DEF Hooks, SwallowsTheResets
<1> QED
  BY <1>1, HooksCorrect, PTL

-----------------------------------------------------------------------------
(* The types.                                                              *)

\* Every step keeps the types of the dump's variables.
LEMMA TypedNext == ASSUME Hooks, Typed, [GameNext]_gvars PROVE Typed'
<1>1. CASE UNCHANGED vars
  BY <1>1, StutterTyped
<1>2. CASE /\ pc = "game" /\ UNCHANGED otherDump
           /\ inited' \in BOOLEAN /\ bound' \in Nat /\ usbserv' \in Nat
           /\ handles' \in {handles, [f \in Fds |-> {}]}
  <2>1. Numbers' /\ LoopOK'
    BY <1>2 DEF Typed, Numbers, LoopOK, Total, otherDump, loop
  <2>2. handles' \in [Fds -> {{}} \cup {{n} : n \in Names}]
    BY <1>2 DEF Typed
  <2> QED
    BY <1>2, <2>1, <2>2 DEF Typed, otherDump
<1>3. CASE (\E k \in Kinds : StartDump(k)) \/ Dump \/ Server
  BY <1>3, StartDumpTyped, DumpTyped, ServerTyped
<1>4. CASE PowerCycle
  <2>1. /\ pc' = "game" /\ cur' = Idle.name /\ index' = [k \in Kinds |-> 0]
        /\ fd' = -1 /\ r' = -1 /\ dpos' = 0 /\ dumpSize' = 0 /\ rpos' = 0 /\ sndSize' = 0
        /\ membuffer' = <<>> /\ result' = 0
        /\ inited' = FALSE /\ bound' = 0 /\ currentCmd' = "none" /\ call' = Idle
        /\ usbserv' = 0 /\ handles' = [f \in Fds |-> {}]
        /\ UNCHANGED <<made, files>>
    BY <1>4 DEF PowerCycle, LocalsGo
  <2>2. Numbers'
    BY <2>1, IdleFacts, UsbDumpAssumption DEF Numbers, Steps
  <2>3. LoopOK'
    BY <2>1, EmptySeq DEF LoopOK
  <2>4. call' \in CallType /\ currentCmd' \in Cmds
    BY <2>1, IdleType DEF Cmds
  <2>5. handles' \in [Fds -> {{}} \cup {{n} : n \in Names}]
    BY <2>1
  <2> QED
    BY <2>1, <2>2, <2>3, <2>4, <2>5 DEF Typed
<1> QED
  BY <1>1, <1>2, <1>3, <1>4, GameSteps

\* The types of the dump's variables, across the resets.
LEMMA TypedCorrect == GameSpec => []Typed
<1>1. GameInit => Typed
  <2> SUFFICES ASSUME GameInit PROVE Typed
    OBVIOUS
  <2>1. files \in [Names -> Seq(Nat)] /\ made \subseteq Names
    BY EmptySeq DEF GameInit, EmptyStick
  <2> QED
    BY <2>1, TypedReady DEF GameInit, Started
<1>2. Hooks /\ Typed /\ [GameNext]_gvars => Typed'
  BY TypedNext
<1> QED
  BY <1>1, <1>2, HooksCorrect, PTL DEF GameSpec

\* Every variable of the hooks, the game and the dump keeps its type, whatever
\* the player, the game and the IOP do.
THEOREM GameTypeCorrect == GameSpec => []GameTypeOK
<1>1. Hooks /\ Typed => GameTypeOK
  BY TypedTypeOK DEF Hooks, GameTypeOK
<1> QED
  BY <1>1, HooksCorrect, TypedCorrect, PTL

-----------------------------------------------------------------------------
(* What the stick holds.                                                   *)

\* A step outside of a dump keeps what the stick holds.
LEMMA HonestOutside ==
  ASSUME Honest, pc = "game", UNCHANGED otherDump
  PROVE  Honest'
<1>1. UNCHANGED <<pc, cur, fd, currentCmd, call, files>>
  BY DEF otherDump
<1>2. currentCmd = "none" /\ call = Idle
  BY DEF Honest, Waits
<1>3. Waits'
  BY <1>1, <1>2 DEF Waits
<1>4. Beginnings'
  BY <1>1 DEF Honest, Beginnings
<1>5. Written'
  BY <1>1 DEF Written
<1> QED
  BY <1>3, <1>4, <1>5 DEF Honest

\* Every way out of a dump, and the power switch.
LEMMA HonestLeft ==
  ASSUME Honest, pc' = "game", currentCmd' = "none", call' = Idle, files' = files
  PROVE  Honest'
<1>1. Waits'
  BY DEF Waits
<1>2. Beginnings'
  BY DEF Honest, Beginnings
<1>3. Written'
  BY DEF Written
<1> QED
  BY <1>1, <1>2, <1>3 DEF Honest

\* A dump that starts knows nothing of its file yet.
LEMMA HonestStart == ASSUME Honest, NEW k \in Kinds, StartDump(k) PROVE Honest'
<1>1. /\ pc = "game" /\ pc' = "create"
      /\ UNCHANGED <<inited, bound, usbserv, currentCmd, call, files>>
  BY DEF StartDump, rpc, stick
<1>2. currentCmd = "none" /\ call = Idle
  BY <1>1 DEF Honest, Waits
<1>3. Waits'
  BY <1>1, <1>2 DEF Waits
<1>4. Beginnings'
  BY <1>1 DEF Honest, Beginnings
<1>5. Written'
  BY <1>1 DEF Written
<1> QED
  BY <1>3, <1>4, <1>5 DEF Honest

\* The client's state after a request: registered and sent, or nothing at all.
LEMMA Issued ==
  ASSUME Reliable, Honest, NEW fno, NEW data, IssueCall(fno, data),
         pc \in {"create", "send", "close"}
  PROVE  \/ /\ inited /\ currentCmd' = fno /\ call' = Request(fno, data)
         \/ /\ ~inited /\ currentCmd' = "none" /\ call' = Idle
<1>1. currentCmd = "none" /\ call = Idle
  BY DEF Honest, Waits
<1> QED
  BY <1>1 DEF IssueCall, Reliable

\* SendCreate keeps what the stick holds.
LEMMA HonestSendCreate == ASSUME Reliable, Typed, Honest, SendCreate PROVE Honest'
<1>1. /\ pc = "create" /\ pc' = "createSync"
      /\ UNCHANGED <<cur, fd, inited, bound, usbserv, files, handles>>
  BY DEF SendCreate, stick
<1>2. \/ /\ inited /\ currentCmd' = "open" /\ call' = Request("open", <<>>)
      \/ /\ ~inited /\ currentCmd' = "none" /\ call' = Idle
  BY <1>1, Issued DEF SendCreate
<1>3. Waits'
  BY <1>1, <1>2 DEF Waits, Request
<1>4. Beginnings'
  BY <1>1 DEF Honest, Beginnings
<1>5. Alive' => Written'
  BY <1>1, <1>2 DEF Alive, Written, Request
<1> QED
  BY <1>3, <1>4, <1>5 DEF Honest

\* SendPacket keeps what the stick holds.
LEMMA HonestSendPacket == ASSUME Reliable, Typed, Honest, SendPacket PROVE Honest'
<1> DEFINE packet == SubSeq(membuffer, rpos + 1, rpos + sndSize)
<1>1. /\ pc = "send" /\ pc' = "sendSync"
      /\ UNCHANGED <<cur, fd, dpos, rpos, sndSize, inited, bound, usbserv, files, handles>>
  BY DEF SendPacket, loop, stick
<1>2. \/ /\ inited /\ currentCmd' = "write" /\ call' = Request("write", packet)
      \/ /\ ~inited /\ currentCmd' = "none" /\ call' = Idle
  BY <1>1, Issued DEF SendPacket
<1>3. packet = Region(dpos + rpos, sndSize)
  <2>1. /\ dpos \in Nat /\ dumpSize \in Nat /\ rpos \in Nat /\ sndSize \in Nat
        /\ membuffer = Region(dpos, dumpSize) /\ rpos < dumpSize
        /\ sndSize = Smaller(dumpSize - rpos, PKT)
    BY <1>1 DEF Typed, LoopOK
  <2>2. rpos + sndSize <= dumpSize
    BY <2>1, UsbDumpAssumption DEF Smaller
  <2>3. SubSeq(Region(dpos, dumpSize), rpos + 1, rpos + sndSize) = Region(dpos + rpos, sndSize)
    BY ONLY <2>1, <2>2, RegionSub
  <2> QED
    BY <2>1, <2>3
<1> HIDE DEF packet
<1>4. inited => bound = usbserv
  BY <1>1 DEF Honest, Waits
<1>5. Waits'
  BY <1>1, <1>2, <1>3, <1>4 DEF Waits, Request
<1>6. Beginnings'
  BY <1>1 DEF Honest, Beginnings
<1>7. Alive' => Written'
  BY <1>1, <1>2 DEF Honest, Alive, Written, Request
<1> QED
  BY <1>5, <1>6, <1>7 DEF Honest

\* SendClose keeps what the stick holds.
LEMMA HonestSendClose == ASSUME Reliable, Typed, Honest, SendClose PROVE Honest'
<1>1. /\ pc = "close" /\ pc' = "closeSync"
      /\ UNCHANGED <<cur, fd, inited, bound, usbserv, files, handles>> /\ Total' = Total
  BY DEF SendClose, stick, Total
<1>2. \/ /\ inited /\ currentCmd' = "close" /\ call' = Request("close", <<>>)
      \/ /\ ~inited /\ currentCmd' = "none" /\ call' = Idle
  BY <1>1, Issued DEF SendClose
<1>3. inited => bound = usbserv
  BY <1>1 DEF Honest, Waits
<1>4. Waits'
  BY <1>1, <1>2, <1>3 DEF Waits, Request
<1>5. Beginnings'
  BY <1>1 DEF Honest, Beginnings
<1>6. Alive' => Written'
  BY <1>1 DEF Honest, Alive, Written
<1> QED
  BY <1>4, <1>5, <1>6 DEF Honest

\* SyncCreate keeps what the stick holds.
LEMMA HonestSyncCreate == ASSUME Typed, Honest, SyncCreate PROVE Honest'
<1>1. /\ pc = "createSync" /\ SyncDone /\ currentCmd' = "none" /\ call' = Idle
      /\ UNCHANGED <<cur, inited, bound, usbserv, files, handles>>
  BY DEF SyncCreate, Collected, stick
<1>2. CASE Return(0)
  BY <1>1, <1>2, HonestLeft DEF Return
<1>3. CASE ~Return(0)
  <2>1. pc' = "copy" /\ dpos' = 0 /\ fd' = SyncValue(fd) /\ SyncValue(fd) >= 0
    BY <1>3 DEF SyncCreate
  <2>2. inited => /\ bound = usbserv /\ SyncValue(fd) = call.ret /\ call.st = "done"
    BY <1>1 DEF Honest, Waits, SyncDone, SyncValue
  <2>3. Waits'
    BY <1>1, <2>1, <2>2 DEF Waits
  <2>4. Beginnings'
    BY <1>1 DEF Honest, Beginnings
  <2>5. Alive' => Written'
    <3> SUFFICES ASSUME Alive PROVE Written'
      BY <1>1 DEF Alive
    <3>1. call.ret \in Fds /\ handles[call.ret] = {cur} /\ files[cur] = <<>>
      BY <1>1, <2>1, <2>2 DEF Honest, Alive, Written
    <3> QED
      BY <1>1, <2>1, <2>2, <3>1, RegionEmpty DEF Written, Alive
  <2> QED
    BY <2>3, <2>4, <2>5 DEF Honest
<1> QED
  BY <1>2, <1>3

\* CopyChunk and AllCopied keep what the stick holds.
LEMMA HonestCopy == ASSUME Typed, Honest, CopyChunk \/ AllCopied PROVE Honest'
<1>1. /\ pc = "copy" /\ dpos' = dpos /\ Total' = Total
      /\ UNCHANGED <<cur, fd, inited, bound, usbserv, currentCmd, call, files, handles>>
  BY DEF CopyChunk, AllCopied, rpc, stick, loop, Total
<1>2. \/ pc' = "send" /\ rpos' = 0
      \/ pc' = "close" /\ dpos >= Total
  BY DEF CopyChunk, AllCopied
<1>3. /\ dpos \in Nat /\ Total \in Nat /\ dpos <= Total
  BY <1>1, Sizes DEF Typed, Numbers, LoopOK, Total
<1>4. dpos + 0 = dpos /\ (dpos >= Total => dpos = Total)
  BY <1>3
<1>5. currentCmd = "none" /\ call = Idle /\ (inited => bound = usbserv)
  BY <1>1 DEF Honest, Waits
<1>6. Waits'
  BY <1>1, <1>2, <1>5 DEF Waits
<1>7. Beginnings'
  BY <1>1 DEF Honest, Beginnings
<1>8. Alive' => Written'
  <2> SUFFICES ASSUME Alive PROVE Written'
    BY <1>1 DEF Alive
  <2>1. fd \in Fds /\ handles[fd] = {cur} /\ files[cur] = Region(0, dpos)
    BY <1>1 DEF Honest, Written
  <2> QED
    BY <1>1, <1>2, <1>4, <2>1 DEF Written
<1> QED
  BY <1>6, <1>7, <1>8 DEF Honest

\* SyncPacket keeps what the stick holds.
LEMMA HonestSyncPacket == ASSUME Typed, Honest, SyncPacket PROVE Honest'
<1>1. /\ pc = "sendSync" /\ SyncDone /\ currentCmd' = "none" /\ call' = Idle
      /\ UNCHANGED <<cur, inited, bound, usbserv, files, handles>>
  BY DEF SyncPacket, Collected, stick
<1>2. CASE Return(0)
  BY <1>1, <1>2, HonestLeft DEF Return
<1>3. CASE ~Return(0)
  <2>1. /\ Taken /\ fd' = fd /\ rpos' = rpos + sndSize
        /\ \/ rpos' < dumpSize /\ pc' = "send" /\ dpos' = dpos
           \/ rpos' >= dumpSize /\ pc' = "copy" /\ dpos' = dpos + dumpSize
    BY <1>3 DEF SyncPacket
  <2>2. inited => /\ bound = usbserv /\ call.st = "done" /\ call.ret = sndSize
    BY <1>1, <2>1 DEF Honest, Waits, SyncDone, SyncValue, Taken
  <2>3. Waits'
    BY <1>1, <2>1, <2>2 DEF Waits
  <2>4. Beginnings'
    BY <1>1 DEF Honest, Beginnings
  <2>5. Alive' => Written'
    <3> SUFFICES ASSUME Alive PROVE Written'
      BY <1>1 DEF Alive
    <3>1. /\ dpos \in Nat /\ dumpSize \in Nat /\ rpos \in Nat /\ sndSize \in Nat
          /\ rpos < dumpSize /\ sndSize = Smaller(dumpSize - rpos, PKT)
      BY <1>1 DEF Typed, LoopOK
    <3>2. rpos + sndSize <= dumpSize /\ sndSize # -1
      BY <3>1, UsbDumpAssumption DEF Smaller
    <3>3. fd \in Fds /\ handles[fd] = {cur} /\ files[cur] = Region(0, dpos + rpos + sndSize)
      <4>1. PICK n \in 0 .. sndSize : files[cur] = Region(0, dpos + rpos + n) /\ call.ret \in {-1, n}
        BY <1>1, <2>2 DEF Honest, Written, Alive
      <4>2. n = sndSize
        BY <2>2, <3>2, <4>1 DEF Alive
      <4> QED
        BY <1>1, <4>1, <4>2 DEF Honest, Written
    <3>4. CASE rpos' < dumpSize /\ pc' = "send" /\ dpos' = dpos
      <4>1. dpos' + rpos' = dpos + rpos + sndSize
        BY <2>1, <3>1, <3>4
      <4> QED
        BY <1>1, <2>1, <3>3, <3>4, <4>1 DEF Written
    <3>5. CASE rpos' >= dumpSize /\ pc' = "copy" /\ dpos' = dpos + dumpSize
      <4>0. rpos' = rpos + sndSize
        BY <2>1, Zenon
      <4>1. dpos' = dpos + rpos + sndSize
        BY <3>1, <3>2, <3>5, <4>0
      <4> QED
        BY <1>1, <2>1, <3>3, <3>5, <4>1 DEF Written
    <3> QED
      BY <2>1, <3>4, <3>5
  <2> QED
    BY <2>3, <2>4, <2>5 DEF Honest
<1> QED
  BY <1>2, <1>3

\* SyncClose keeps what the stick holds.
LEMMA HonestSyncClose == ASSUME Honest, SyncClose PROVE Honest'
BY HonestLeft DEF SyncClose, Collected, Return, stick

\* A call the server sees was sent by the step that waits for it, through a
\* client that is bound to this server.
LEMMA ServedIsOurs ==
  ASSUME Typed, Honest, call.st \in {"sent", "served"}
  PROVE  /\ Alive /\ Written /\ currentCmd = call.fno /\ call.name = cur /\ call.fd = fd
         /\ pc = CASE call.fno = "open" -> "createSync"
                   [] call.fno = "write" -> "sendSync"
                   [] OTHER -> "closeSync"
<1>1. currentCmd # "none"
  BY IdleFacts DEF Honest, Waits
<1>2. inited /\ bound = usbserv
  BY <1>1 DEF Honest, Waits
<1> QED
  BY <1>1, <1>2 DEF Honest, Waits, Alive

\* What an answer leaves of the client's state.
LEMMA WaitsServed ==
  ASSUME Typed, Honest, call.st \in {"sent", "served"}, unserved' = unserved,
         NEW st \in {"served", "done"}, NEW ret \in Int,
         call' = [call EXCEPT !.st = st, !.ret = ret]
  PROVE  Waits' /\ Alive' /\ call'.st = st /\ call'.ret = ret
<1>1. /\ UNCHANGED <<pc, cur, fd, dpos, rpos, sndSize, inited, bound, usbserv, currentCmd>>
      /\ Alive /\ currentCmd # "none"
  BY ServedIsOurs, IdleFacts DEF unserved, loop, Honest, Waits
<1>2. /\ call'.st = st /\ call'.ret = ret
      /\ call'.fno = call.fno /\ call'.name = call.name /\ call'.fd = call.fd /\ call'.data = call.data
  BY DEF Typed, CallType
<1> QED
  BY <1>1, <1>2 DEF Honest, Waits, Alive

\* ServeOpen keeps what the stick holds: a new file is an empty beginning.
LEMMA HonestServeOpen == ASSUME Typed, Honest, ServeOpen PROVE Honest'
<1>1. call.st = "sent" /\ call.fno = "open" /\ unserved' = unserved
  BY DEF ServeOpen, Serving
<1>2. /\ UNCHANGED <<pc, cur>> /\ pc = "createSync" /\ call.name = cur /\ cur \in Names
  BY <1>1, ServedIsOurs DEF unserved, Typed, Numbers
<1>3. ASSUME NEW ret \in Int, Served(ret) PROVE Waits' /\ Alive' /\ call'.ret = ret
  BY <1>1, <1>3, WaitsServed DEF Served
<1>4. CASE Served(-1) /\ UNCHANGED stick
  <2>1. Waits' /\ call'.ret = -1
    BY <1>3, <1>4
  <2>2. Written'
    BY <1>2, <2>1 DEF Written
  <2>3. Beginnings'
    BY <1>4 DEF Honest, Beginnings, stick
  <2> QED
    BY <2>1, <2>2, <2>3 DEF Honest
<1>5. ASSUME NEW f \in Fds, handles' = [handles EXCEPT ![f] = {call.name}],
             files' = [files EXCEPT ![call.name] = <<>>], Served(f)
      PROVE  Honest'
  <2>1. Waits' /\ call'.ret = f
    BY <1>3, <1>5, UsbDumpAssumption
  <2>2. handles'[f] = {cur} /\ files'[cur] = <<>>
    BY <1>2, <1>5 DEF Typed
  <2>3. Written'
    BY <1>2, <2>1, <2>2 DEF Written
  <2>4. Beginnings'
    <3>1. \A n \in Names : 0 \in 0 .. NameSize[n]
      BY Sizes
    <3> QED
      BY <1>2, <1>5, <3>1, RegionEmpty DEF Honest, Beginnings, Typed
  <2> QED
    BY <2>1, <2>3, <2>4 DEF Honest
<1> QED
  BY <1>4, <1>5 DEF ServeOpen, Truncated

\* ServeWrite keeps what the stick holds: short or failed or not, it adds the
\* next bytes of the region.
LEMMA HonestServeWrite == ASSUME Typed, Honest, ServeWrite PROVE Honest'
<1>1. call.st = "sent" /\ call.fno = "write" /\ unserved' = unserved /\ handles' = handles
  BY DEF ServeWrite, Serving
<1>2. /\ UNCHANGED <<pc, cur, fd, dpos, rpos, sndSize>>
      /\ pc = "sendSync" /\ call.fd = fd /\ cur \in Names /\ cur[1] \in Kinds
      /\ call.data = Region(dpos + rpos, sndSize)
  BY <1>1, ServedIsOurs, Sizes DEF unserved, loop, Typed, Numbers, Honest, Waits
<1>3. fd \in Fds /\ handles[fd] = {cur} /\ files[cur] = Region(0, dpos + rpos)
  BY <1>1, <1>2, ServedIsOurs DEF Written
<1>4. /\ dpos + rpos \in Nat /\ sndSize \in Nat /\ dpos + rpos + sndSize <= NameSize[cur]
      /\ NameSize[cur] \in Nat
  <2>1. /\ dpos \in Nat /\ rpos \in Nat /\ dumpSize \in Nat /\ sndSize \in Nat
        /\ dpos + dumpSize <= Total /\ rpos < dumpSize /\ sndSize = Smaller(dumpSize - rpos, PKT)
    BY <1>2 DEF Typed, LoopOK
  <2>2. Total = NameSize[cur] /\ Total \in Nat
    BY <1>2, Sizes DEF Total
  <2> QED
    BY <2>1, <2>2 DEF Smaller
<1>5. PICK n \in 0 .. sndSize, failed \in BOOLEAN :
        /\ files' = [files EXCEPT ![cur] = @ \o SubSeq(call.data, 1, n)]
        /\ Served(IF failed THEN -1 ELSE n)
  <2>1. Len(call.data) = sndSize
    BY <1>2, <1>4, RegionSeq
  <2> QED
    BY <1>2, <1>3, <2>1 DEF ServeWrite
<1>6. PICK at \in Nat : at = dpos + rpos
  BY <1>4
<1>7. files' = [files EXCEPT ![cur] = Region(0, at + n)]
  <2>1. Region(0, at) \o SubSeq(Region(at, sndSize), 1, n) = Region(0, at + n)
    BY <1>4, RegionWrite
  <2> QED
    BY <1>2, <1>3, <1>5, <1>6, <2>1
<1>8. Waits' /\ call'.st = "served" /\ call'.ret \in {-1, n}
  <2> DEFINE ret == IF failed THEN -1 ELSE n
  <2>1. ret \in Int /\ call' = [call EXCEPT !.st = "served", !.ret = ret]
    BY <1>5 DEF Served
  <2>2. Waits' /\ call'.st = "served" /\ call'.ret = ret
    BY <1>1, <2>1, WaitsServed
  <2> QED
    BY <2>2
<1>9. Beginnings'
  <2>1. at + n \in 0 .. NameSize[cur]
    BY <1>4, <1>6
  <2> QED
    BY <1>2, <1>7, <2>1 DEF Honest, Beginnings, Typed
<1>10. Written'
  <2>1. files'[cur] = Region(0, at + n)
    BY <1>2, <1>7 DEF Typed
  <2> QED
    BY <1>1, <1>2, <1>3, <1>6, <1>8, <2>1 DEF Written
<1> QED
  BY <1>8, <1>9, <1>10 DEF Honest

\* ServeClose and Reply keep what the stick holds.
LEMMA HonestAnswer == ASSUME Typed, Honest, ServeClose \/ Reply PROVE Honest'
<1>1. /\ unserved' = unserved /\ files' = files /\ call.st \in {"sent", "served"}
      /\ UNCHANGED <<pc, cur, fd, dpos, rpos, sndSize>> /\ Total' = Total
  BY DEF ServeClose, Reply, Serving, stick, unserved, loop, Total
<1>2. Beginnings'
  BY <1>1 DEF Honest, Beginnings
<1>3. CASE ServeClose
  <2>1. PICK ret \in Int : Served(ret)
    BY <1>3 DEF ServeClose
  <2>2. Waits'
    BY <1>1, <2>1, WaitsServed DEF Served
  <2>3. pc = "closeSync" /\ Written
    BY <1>1, <1>3, ServedIsOurs DEF ServeClose, Serving
  <2>4. Written'
    BY <1>1, <2>3 DEF Written
  <2> QED
    BY <1>2, <2>2, <2>4 DEF Honest
<1>4. CASE Reply
  <2>1. call.st = "served" /\ handles' = handles /\ call.ret \in Int
        /\ call' = [call EXCEPT !.st = "done", !.ret = call.ret]
    BY <1>4 DEF Reply, stick, Typed, CallType
  <2>2. Waits' /\ call'.st = "done" /\ call'.ret = call.ret
    BY <1>1, <2>1, WaitsServed
  <2>3. Written'
    BY <1>1, <2>1, <2>2, ServedIsOurs DEF Written
  <2> QED
    BY <1>2, <2>2, <2>3 DEF Honest
<1> QED
  BY <1>3, <1>4

\* Every step of a dump keeps what the stick holds.
LEMMA HonestDump == ASSUME Reliable, Typed, Honest, Dump PROVE Honest'
BY HonestSendCreate, HonestSyncCreate, HonestCopy, HonestSendPacket, HonestSyncPacket,
   HonestSendClose, HonestSyncClose DEF Dump

\* Every step keeps what the stick holds.
LEMMA HonestNext == ASSUME Reliable, Hooks, Typed, Honest, [GameNext]_gvars PROVE Honest'
<1>1. CASE UNCHANGED vars
  BY <1>1 DEF vars, loop, rpc, stick, Honest, Waits, Beginnings, Alive, Written, Total
<1>2. CASE pc = "game" /\ UNCHANGED otherDump
  BY <1>2, HonestOutside
<1>3. CASE \E k \in Kinds : StartDump(k)
  BY <1>3, HonestStart
<1>4. CASE Dump
  BY <1>4, HonestDump
<1>5. CASE Server
  BY <1>5, HonestServeOpen, HonestServeWrite, HonestAnswer DEF Server
<1>6. CASE PowerCycle
  BY <1>6, HonestLeft DEF PowerCycle
<1> QED
  BY <1>1, <1>2, <1>3, <1>4, <1>5, <1>6, GameSteps

\* The invariant of the stick.
LEMMA HonestCorrect == ASSUME Reliable PROVE GameSpec => []Honest
<1>1. GameInit => Honest
  <2> SUFFICES ASSUME GameInit PROVE Honest
    OBVIOUS
  <2>1. pc = "game" /\ currentCmd = "none" /\ call = Idle
    BY DEF GameInit, Started, Ready
  <2>2. Beginnings
    <3>1. \A n \in Names : files[n] = Region(0, 0) /\ 0 \in 0 .. NameSize[n]
      BY RegionEmpty, Sizes DEF GameInit, EmptyStick
    <3> QED
      BY <3>1 DEF Beginnings
  <2> QED
    BY <2>1, <2>2 DEF Honest, Waits, Written
<1>2. Hooks /\ Typed /\ Honest /\ [GameNext]_gvars => Honest'
  BY HonestNext
<1> QED
  BY <1>1, <1>2, HooksCorrect, TypedCorrect, PTL DEF GameSpec

\* Across resets, other executables, dumps that never return and the power
\* switch, every file on the stick is a beginning of its region.
THEOREM FilesHonestCorrect == ASSUME Reliable PROVE GameSpec => []FilesHonest
<1>1. Honest => FilesHonest
  <2> SUFFICES ASSUME Honest, NEW n \in Names
               PROVE  Len(files[n]) <= NameSize[n] /\ files[n] = Region(0, Len(files[n]))
    BY DEF FilesHonest
  <2>1. PICK m \in 0 .. NameSize[n] : files[n] = Region(0, m)
    BY DEF Honest, Beginnings
  <2>2. m \in Nat /\ Len(files[n]) = m
    BY <2>1, RegionSeq, Sizes
  <2> QED
    BY <2>1, <2>2, Sizes
<1> QED
  BY <1>1, HonestCorrect, PTL

\* With the client bound, a dump that returns its length has written it all.
THEOREM DoneIsWholeCorrect == ASSUME Reliable PROVE GameSpec => DoneIsWhole
<1> DEFINE A == pc # "game" /\ pc' = "game" /\ result' # 0 /\ inited /\ cycles' = cycles
                  => files[cur] = Region(0, Total)
<1>1. Hooks /\ Typed /\ Honest /\ [GameNext]_gvars => [A]_gvars
  <2> SUFFICES ASSUME Hooks, Typed, Honest, [GameNext]_gvars, pc # "game", pc' = "game",
                      result' # 0, inited, cycles' = cycles
               PROVE  files[cur] = Region(0, Total)
    OBVIOUS
  <2>1. ~PowerCycle
    <3>1. cycles \in Nat
      BY InGameAssumption DEF Hooks
    <3> QED
      BY <3>1 DEF PowerCycle
  <2>2. CASE UNCHANGED pc
    BY <2>2
  <2>3. CASE Dump
    <3>1. pc = "closeSync"
      BY <2>3 DEF Dump, SendCreate, SyncCreate, CopyChunk, AllCopied, SendPacket, SyncPacket,
         SendClose, SyncClose, Return
    <3>2. Alive
      BY <3>1 DEF Honest, Waits, Alive
    <3> QED
      BY <3>1, <3>2 DEF Honest, Written
  <2> QED
    BY <2>1, <2>2, <2>3, GameSteps DEF Server, ServeOpen, ServeWrite, ServeClose, Reply,
       unserved, vars, otherDump, StartDump
<1> QED
  BY <1>1, HooksCorrect, TypedCorrect, HonestCorrect, PTL DEF GameSpec, DoneIsWhole
=============================================================================
