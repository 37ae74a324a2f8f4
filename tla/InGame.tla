------------------------------- MODULE InGame -------------------------------
(***************************************************************************)
(* IGmassdumper's core inside a running game (core/core.c, iopcontrol.c):  *)
(* the hooks on SifSetDma and SifSetReg catch the game's IOP resets,       *)
(* HookIopReset does the reset itself and loads the USB modules again,     *)
(* PostReset_Hook patches the game's calls of its pad library, and the     *)
(* patched pad read starts the dumps of UsbDump.tla.                       *)
(*                                                                         *)
(* The game is external: it polls its pad, resets the IOP (one packet and  *)
(* four SifSetReg calls, as the library function it was linked with does)  *)
(* and loads another of its executables.  So are the IOP's boot, the pad   *)
(* and the player, and the power switch.                                   *)
(***************************************************************************)
EXTENDS UsbDump

CONSTANTS
  Combo,         \* Combo[k]: the three buttons that dump kind k
  Libs,          \* the pad libraries of the game's executables
  Addresses,     \* where usbserv's server structure can lie in IOP memory
  MaxResets,     \* bound: IOP resets of one session
  MaxPowerCycles \* bound: times the console is switched off

Buttons == UNION {Combo[k] : k \in Kinds}
Args == {"ioprp", "update", "other"}
HookSteps == {"none", "cleaned", "image", "patched", "udnl", "bind", "hang"}

ASSUME InGameAssumption ==
  /\ Libs \subseteq {"none", "libpad", "libpad2"} /\ Libs # {}
  /\ Addresses \subseteq Nat \ {0} /\ Addresses # {}
  /\ MaxResets \in Nat /\ MaxPowerCycles \in Nat

VARIABLES
  unhookAfter,     \* the build has DISABLE_AFTER_IOPRESET
  hooked,          \* the two system calls point to HookSifSetDma and HookSifSetReg
  set_reg_hook,
  hpc,             \* the step of HookIopReset, "none" outside
  arg,             \* what HookIopReset found in the reset packet's argument
  setRegs,         \* SifSetReg calls the game's reset still has to make
  iop,             \* "up", or "booting" until the IOP sets the 0x40000 flag
  lib,             \* the pad library of the executable in memory
  reads,           \* whether its calls of the pad read are patched
  scePadRead_style,
  old_pad,
  pad,             \* the buttons that are down
  resets, cycles   \* counted against the bounds

hook == <<hooked, set_reg_hook, hpc, arg, setRegs>>
game == <<iop, lib, reads, scePadRead_style, old_pad, pad>>
bounds == <<unhookAfter, resets, cycles>>
gvars == <<vars, hook, game, bounds>>

Resetting == hpc # "none" \/ setRegs > 0

\* The game's own code runs: neither hook holds its thread, and it is not
\* waiting for the IOP it has reset.
Playing == pc = "game" /\ ~Resetting /\ iop = "up"

-----------------------------------------------------------------------------
(* The pad read: Hook_scePadRead, Hook_scePad2Read and padReadHook_job.    *)

\* With the wrong style the hook takes an argument that is no pointer to the
\* buttons, and reads whatever it finds there.
PadData ==
  IF (scePadRead_style = 2) = (lib = "libpad2") THEN {pad} ELSE SUBSET Buttons

\* padReadHook_job: buttons that were up in the poll before and are down in this.
PadRead ==
  /\ Playing
  /\ reads = "hooked"
  /\ \E paddata \in PadData :
       /\ old_pad' = paddata
       /\ \/ \E k \in Kinds : paddata \ old_pad = Combo[k] /\ StartDump(k)
          \/ /\ \A k \in Kinds : paddata \ old_pad # Combo[k]
             /\ UNCHANGED vars
  /\ UNCHANGED <<hook, iop, lib, reads, scePadRead_style, pad, bounds>>

Player ==
  /\ Playing
  /\ \E b \in Buttons : pad' = IF b \in pad THEN pad \ {b} ELSE pad \cup {b}
  /\ UNCHANGED <<vars, hook, iop, lib, reads, scePadRead_style, old_pad, bounds>>

-----------------------------------------------------------------------------
(* The reset: HookSifSetDma and HookIopReset.                              *)

\* A reset of the IOP ends every module on it and closes its files.
RebootIop ==
  /\ iop' = "booting"
  /\ usbserv' = 0
  /\ handles' = [f \in Fds |-> {}]

otherDump == <<pc, cur, index, fd, r, loop, result, currentCmd, call, made, files>>
otherGame == <<lib, reads, scePadRead_style, old_pad, pad>>

\* The game sends its reset packet.  Hooked, HookIopReset resets the IOP once
\* without an argument before it looks at the game's.
ResetPacket(a) ==
  /\ Playing
  /\ resets < MaxResets
  /\ resets' = resets + 1
  /\ RebootIop
  /\ \/ /\ hooked
        /\ hpc' = "cleaned"
        /\ arg' = a
        /\ UNCHANGED setRegs
     \/ /\ ~hooked
        /\ setRegs' = 4
        /\ UNCHANGED <<hpc, arg>>
  /\ UNCHANGED <<hooked, set_reg_hook, otherDump, inited, bound, otherGame, unhookAfter, cycles>>

\* IopSync waits for this.
Boot ==
  /\ iop = "booting"
  /\ iop' = "up"
  /\ UNCHANGED <<vars, hook, otherGame, bounds>>

ReturnFromHook_Bug ==
  /\ hpc' = "none"
  /\ arg' = "other"
  /\ set_reg_hook' = 5
  /\ setRegs' = 4

\* The end of HookIopReset: the game goes on with the reset it believes it does.
ReturnFromHook ==
  /\ hpc' = "none"
  /\ arg' = "other"
  /\ set_reg_hook' = 4
  /\ setRegs' = 4

\* Any other argument: the game's reset as it is, without waiting for its end.
PlainReset ==
  /\ hpc = "cleaned"
  /\ iop = "up"
  /\ arg # "ioprp"
  /\ RebootIop
  /\ ReturnFromHook
  /\ UNCHANGED <<hooked, otherDump, inited, bound, otherGame, bounds>>

FindImage ==
  /\ hpc = "cleaned"
  /\ iop = "up"
  /\ arg = "ioprp"
  /\ hpc' = "image"
  /\ UNCHANGED <<vars, hooked, set_reg_hook, arg, setRegs, game, bounds>>

\* Open and read the image, put the new EESYNC into it, reset without argument.
PatchImage ==
  /\ hpc = "image"
  /\ \/ /\ hpc' = "patched"
        /\ RebootIop
     \/ /\ hpc' = "hang"
        /\ UNCHANGED <<iop, usbserv, handles>>
  /\ UNCHANGED <<hooked, set_reg_hook, arg, setRegs, otherDump, inited, bound, otherGame, bounds>>

\* The image goes to IOP memory, and UDNL reboots the IOP from it.  Without memory
\* on the IOP the hook stands still; so it does when memdisk or UDNL does not load,
\* which nobody looks at: no boot follows that IopSync and SifInitRpc wait for.
SendImage ==
  /\ hpc = "patched"
  /\ iop = "up"
  /\ \/ /\ hpc' = "udnl"
        /\ RebootIop
     \/ /\ hpc' = "hang"
        /\ UNCHANGED <<iop, usbserv, handles>>
  /\ UNCHANGED <<hooked, set_reg_hook, arg, setRegs, otherDump, inited, bound, otherGame, bounds>>

LoadDrivers_Bug ==
  /\ hpc = "udnl"
  /\ iop = "up"
  /\ hpc' = "bind"
  /\ UNCHANGED <<hooked, set_reg_hook, arg, setRegs, otherDump, inited, bound, usbserv, handles, game, bounds>>

\* usbd, usb_mass and usbserv; a module that does not load stops everything.
LoadDrivers ==
  /\ hpc = "udnl"
  /\ iop = "up"
  /\ \/ /\ hpc' = "bind"
        /\ usbserv' \in Addresses
     \/ /\ hpc' = "hang"
        /\ UNCHANGED usbserv
  /\ UNCHANGED <<hooked, set_reg_hook, arg, setRegs, otherDump, inited, bound, handles, game, bounds>>

\* rpcUSBInit binds once in the life of the core, and waits for a server then.
Bind ==
  /\ hpc = "bind"
  /\ \/ inited /\ UNCHANGED <<inited, bound>>
     \/ /\ ~inited
        /\ usbserv # 0
        /\ inited' = TRUE
        /\ bound' = usbserv
  /\ ReturnFromHook
  /\ UNCHANGED <<hooked, otherDump, usbserv, handles, game, bounds>>

\* SifBindRpc may fail: rpcUSBInit returns an error that HookIopReset ignores.
BindFails ==
  /\ hpc = "bind" /\ ~inited
  /\ ReturnFromHook
  /\ UNCHANGED <<hooked, otherDump, inited, bound, usbserv, handles, game, bounds>>

-----------------------------------------------------------------------------
(* The game's four SifSetReg calls: HookSifSetReg and PostReset_Hook.      *)

\* patch_padRead looks for the library and patches every call of it; a library
\* whose calls it does not find has set the style all the same.
PatchPadRead ==
  \/ /\ lib = "none"
     /\ UNCHANGED <<reads, scePadRead_style>>
  \/ /\ lib # "none"
     /\ reads' \in {reads, "hooked"}
     /\ scePadRead_style' = IF lib = "libpad2" THEN 2 ELSE scePadRead_style

PostReset ==
  /\ PatchPadRead
  /\ hooked' = (hooked /\ ~unhookAfter)

SetReg ==
  /\ hpc = "none"
  /\ setRegs > 0
  /\ setRegs' = setRegs - 1
  /\ \/ /\ hooked /\ set_reg_hook > 0
        /\ set_reg_hook' = set_reg_hook - 1
        /\ \/ set_reg_hook' = 0 /\ PostReset
           \/ set_reg_hook' > 0 /\ UNCHANGED <<hooked, reads, scePadRead_style>>
     \/ /\ ~hooked \/ set_reg_hook = 0
        /\ UNCHANGED <<hooked, set_reg_hook, reads, scePadRead_style>>
  /\ UNCHANGED <<vars, hpc, arg, iop, lib, old_pad, pad, bounds>>

-----------------------------------------------------------------------------
\* The game loads another of its executables over the one that runs.
LoadExecutable ==
  /\ Playing
  /\ lib' \in Libs
  /\ reads' = "plain"
  /\ UNCHANGED <<vars, hook, iop, scePadRead_style, old_pad, pad, bounds>>

\* What the core's main and Hook_Syscalls leave when the game starts.
Started ==
  /\ hooked = TRUE /\ set_reg_hook = 0 /\ hpc = "none" /\ arg = "other" /\ setRegs = 0
  /\ iop = "up" /\ reads = "plain" /\ scePadRead_style = 1
  /\ old_pad = {} /\ pad = {} /\ resets = 0
  /\ Ready
  /\ inited = FALSE /\ bound = 0 /\ usbserv = 0

\* The console is switched off, and on again: only the stick remembers.
PowerCycle ==
  /\ cycles < MaxPowerCycles
  /\ cycles' = cycles + 1
  /\ hooked' = TRUE /\ set_reg_hook' = 0 /\ hpc' = "none" /\ arg' = "other" /\ setRegs' = 0
  /\ iop' = "up" /\ lib' \in Libs /\ reads' = "plain" /\ scePadRead_style' = 1
  /\ old_pad' = {} /\ pad' = {} /\ resets' = 0
  /\ pc' = "game" /\ cur' = Idle.name /\ index' = [k \in Kinds |-> 0]
  /\ LocalsGo /\ result' = 0
  /\ inited' = FALSE /\ bound' = 0 /\ currentCmd' = "none" /\ call' = Idle
  /\ usbserv' = 0 /\ handles' = [f \in Fds |-> {}]
  /\ UNCHANGED <<made, files, unhookAfter>>

GameInit ==
  /\ Started /\ lib \in Libs
  /\ EmptyStick
  /\ cycles = 0 /\ unhookAfter \in BOOLEAN

gameUnchanged == UNCHANGED <<hook, game, bounds>>
HookGoes == PlainReset \/ FindImage \/ PatchImage \/ SendImage \/ LoadDrivers \/ Bind
HookStep == HookGoes \/ BindFails

GameNext ==
  \/ PadRead \/ Player
  \/ \E a \in Args : ResetPacket(a)
  \/ Boot \/ HookStep \/ SetReg
  \/ LoadExecutable \/ PowerCycle
  \/ Dump /\ gameUnchanged
  \/ Server /\ gameUnchanged

\* The hooks run on the game's thread and spin while they wait; the IOP boots;
\* a game that has begun its reset finishes it.  No call has to fail.
GameFairness ==
  /\ WF_gvars(Dump /\ gameUnchanged) /\ WF_gvars(Server /\ gameUnchanged)
  /\ WF_gvars(Boot) /\ WF_gvars(HookGoes) /\ WF_gvars(SetReg)

GameSpec == GameInit /\ [][GameNext]_gvars /\ GameFairness

-----------------------------------------------------------------------------
(* Properties.                                                             *)

\* The variables of the hooks and of the game have their types.
GameTypeOK ==
  /\ TypeOK
  /\ unhookAfter \in BOOLEAN /\ hooked \in BOOLEAN
  /\ set_reg_hook \in 0 .. 4 /\ setRegs \in 0 .. 4
  /\ hpc \in HookSteps /\ arg \in Args
  /\ iop \in {"up", "booting"}
  /\ lib \in Libs /\ reads \in {"plain", "hooked"}
  /\ scePadRead_style \in {1, 2}
  /\ old_pad \subseteq Buttons /\ pad \subseteq Buttons
  /\ resets \in 0 .. MaxResets /\ cycles \in 0 .. MaxPowerCycles

\* HookSifSetReg swallows the calls of the reset it belongs to and no other:
\* while it counts, the game is in that reset and has as many calls left.
SwallowsTheResets == set_reg_hook > 0 => set_reg_hook = setRegs

\* Across resets, other executables, dumps that never return and the power
\* switch, every file on the stick is a beginning of its region.
FilesHonest ==
  \A n \in Names :
    /\ Len(files[n]) <= NameSize[n]
    /\ files[n] = Region(0, Len(files[n]))

\* With the client bound, a dump that returns its length has written it all.
DoneIsWhole ==
  [][pc # "game" /\ pc' = "game" /\ result' # 0 /\ inited /\ cycles' = cycles
       => files[cur] = Region(0, Total)]_gvars

\* A dump only hangs the game when the client's server has gone: no answer of
\* open, write or close, and no failed call, does.
OnlyLostServerHangs ==
  pc # "game" /\ ~(inited /\ bound # usbserv) ~> pc = "game"

\* Every reset of the game ends, or stands still because the image could not be
\* opened, the heap was full or a module (UDNL, usbd, ...) did not load.
ResetEnds == Resetting ~> ~Resetting \/ hpc = "hang"

\* README.txt: when the in-game reset is hooked, it does the expected job and
\* reloads a few modules.  A hooked game that plays has a server to dump with.
ResetReloads == Playing /\ reads = "hooked" => usbserv # 0
=============================================================================
