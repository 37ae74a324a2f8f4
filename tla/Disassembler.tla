---------------------------- MODULE Disassembler ----------------------------
(***************************************************************************)
(* src/Disassembler: a program that shows one instruction of the EE's      *)
(* memory at a time.  UP and DOWN step, RIGHT follows the target of a jump *)
(* and remembers where from, LEFT goes back.  Each of the 270 functions of *)
(* disassembler.c fills the fields of the one global oppPacket that it     *)
(* cares about and leaves the others as an earlier instruction left them.  *)
(* The functions are grouped by the fields they write; the packet keeps,   *)
(* for each field, the address of the instruction that wrote it.  The      *)
(* emulated registers and u32Result are left out.                          *)
(***************************************************************************)
EXTENDS Naturals, Sequences

CONSTANTS
  Top,        \* the last instruction address; addresses count instructions
  Low,        \* the address 0x00100000: LEFT goes to no address up to it
  Start,      \* 0x0010013c
  Programs,   \* what the memory may hold
  MaxCount,   \* a bound on history's cells: further ones lie outside its block
  NoAddress

Addresses == 0 .. Top

-----------------------------------------------------------------------------
(* The functions of disassembler.c, by what they write.                    *)

\* With $zero as the destination these return at once (cfc1 too).
ImmediateOps == {"ADDI", "ADDIU", "DADDI", "DADDIU", "ANDI", "ORI", "XORI", "SLTI", "SLTIU"}
AddOps == {"ADD", "ADDU", "DADD", "DADDU", "SUB", "SUBU", "DSUB", "DSUBU"}
LogicOps == {"AND", "OR", "XOR", "NOR", "SLT", "SLTU"}
MultiplyOps == {"MULT", "MULTU"}
MoveFromOps == {"LUI", "MFHI", "MFLO"}
ShiftOps == {"SLL", "DSLL", "DSLL32", "SRA", "DSRA", "DSRA32", "SRL", "DSRL", "DSRL32"}
ShiftVariableOps == {"SLLV", "SRAV", "SRLV", "DSLLV", "DSRAV", "DSRLV"}
UnalignedLoadOps == {"LWL", "LWR"}
UnalignedDoubleOps == {"LDL", "LDR"}
MoveIfOps == {"MOVZ", "MOVN"}
MoveFromSaOps == {"MFSA"}
PlzcwOps == {"PLZCW"}
Pipeline1FromOps == {"MFHI1", "MFLO1"}
MoveFromFpuOps == {"MFC1"}
MoveFromCop0Ops == {"MFC0"}
\* So do these for a control register the FPU does not have.
FpuControlOps == {"CFC1", "CTC1"}

\* These write whatever their registers.
DivideOps == {"DIV", "DIVU"}
MoveToOps == {"MTHI", "MTLO"}
LoadOps == {"LB", "LBU", "LH", "LHU", "LW", "LWU"}
DoubleLoadOps == {"LD"}
QuadLoadOps == {"LQ"}
StoreOps == {"SB", "SH", "SW", "SWL", "SWR"}
WideStoreOps == {"SD", "SDL", "SDR", "SQ"}
SaOps == {"MTSA", "SYNC", "PREF"}
SaImmediateOps == {"MTSAB", "MTSAH"}
TrapOps == {"TGE", "TGEU", "TLT", "TLTU", "TEQ", "TNE"}
TrapImmediateOps == {"TGEI", "TGEIU", "TLTI", "TLTIU", "TEQI", "TNEI"}
MultiplyAddOps == {"MADD", "MADDU"}
MultiplyAdd1Ops == {"MADD1", "MADDU1"}
Pipeline1Ops == {"MTHI1", "MTLO1", "MULT1", "MULTU1", "DIV1", "DIVU1"}
FpuMemoryOps == {"LWC1", "SWC1"}
FpuMoveOps == {"MTC1"}
CompareOps == {"C_F", "C_EQ", "C_LT", "C_LE"}
FpuOps == {"ADD_S", "SUB_S", "MUL_S", "MOV_S", "NEG_S", "ADDA_S", "SUBA_S", "MULA_S",
           "MADD_S", "MSUB_S", "MADDA_S"}
FpuMoreOps == {"MSUBA_S", "ABS_S", "MAX_S", "MIN_S", "DIV_S", "SQRT_S", "CVT_W", "RSQRT_S"}
CacheOps == {"CACHE"}
ZeroWord == {"nop"}

BranchOps == {"BEQ", "BNE", "BGEZ", "BGEZAL", "BGTZ", "BLEZ", "BLTZ", "BLTZAL"}
LikelyOps == {"BEQL", "BNEL", "BLEZL", "BGTZL", "BLTZL", "BGEZL", "BLTZALL", "BGEZALL"}
FpuBranchOps == {"BC1F", "BC1T", "BC1FL", "BC1TL"}
JumpOps == {"J", "JAL"}
Cop0BranchOps == {"BC0F", "BC0T", "BC0FL", "BC0TL"}
RegisterJumpOps == {"JR", "JALR"}
SyscallOps == {"SYSCALL"}
BreakOps == {"BREAK"}
Cop0MoveOps == {"MTC0", "TLBR"}

\* These run the emulated registers, or nothing, and write no field.
UnknownOps == {"UnknownOpcode"}
EmptyOps == {"COP2", "TLBWI", "TLBWR", "TLBP", "ERET", "_EI", "_DI", "LQC2", "SQC2",
             "MMI_Unknown", "COP0_Unknown", "COP1_Unknown"}
ShiftMmiOps == {"PMFHL", "PMTHL", "PSLLH", "PSRLH", "PSRAH", "PSLLW", "PSRLW", "PSRAW"}
Mmi0AddOps == {"PADDW", "PSUBW", "PCGTW", "PMAXW", "PADDH", "PSUBH", "PCGTH", "PMAXH",
               "PADDB", "PSUBB", "PCGTB"}
Mmi0PackOps == {"PADDSW", "PSUBSW", "PEXTLW", "PPACW", "PADDSH", "PSUBSH", "PEXTLH", "PPACH"}
Mmi0ByteOps == {"PADDSB", "PSUBSB", "PEXTLB", "PPACB", "PEXT5", "PPAC5"}
Mmi1Ops == {"PABSW", "PCEQW", "PMINW", "PADSBH", "PABSH", "PCEQH", "PMINH", "PCEQB",
            "PADDUW", "PSUBUW", "PEXTUW"}
Mmi1MoreOps == {"PADDUH", "PSUBUH", "PEXTUH", "PADDUB", "PSUBUB", "PEXTUB", "QFSRV"}
Mmi2Ops == {"PMADDW", "PSLLVW", "PSRLVW", "PMSUBW", "PMFHI", "PMFLO", "PINTH", "PMULTW",
            "PDIVW", "PCPYLD", "PMADDH"}
Mmi2MoreOps == {"PHMADH", "PAND", "PXOR", "PMSUBH", "PHMSBH", "PEXEH", "PREVH"}
Mmi2LastOps == {"PMULTH", "PDIVBW", "PEXEW", "PROT3W"}
Mmi3Ops == {"PMADDUW", "PSRAVW", "PMTHI", "PMTLO", "PINTEH", "PMULTUW", "PDIVUW", "PCPYUD",
            "POR", "PNOR", "PEXCH", "PCPYH", "PEXCW"}

\* Int_COP1WPrintTable has no entries: cvt.s calls a null pointer.
NullEntries == {"COP1_W"}


ZeroGuarded ==
  UNION {ImmediateOps, AddOps, LogicOps, MultiplyOps, MoveFromOps, ShiftOps, ShiftVariableOps,
         UnalignedLoadOps, UnalignedDoubleOps, MoveIfOps, MoveFromSaOps, PlzcwOps,
         Pipeline1FromOps, MoveFromFpuOps, MoveFromCop0Ops, FpuControlOps}

\* The name and all four strings of the line.
TextOps ==
  (ZeroGuarded \ MoveFromCop0Ops)
    \cup UNION {DivideOps, MoveToOps, LoadOps, DoubleLoadOps, QuadLoadOps, StoreOps,
                WideStoreOps, SaOps, SaImmediateOps, TrapOps, TrapImmediateOps, MultiplyAddOps,
                MultiplyAdd1Ops, Pipeline1Ops, FpuMemoryOps, FpuMoveOps, CompareOps, FpuOps,
                FpuMoreOps, CacheOps, ZeroWord}

NameOps == MoveFromCop0Ops \cup Cop0MoveOps
TargetOps == BranchOps \cup LikelyOps
FollowOps == JumpOps \cup Cop0BranchOps
KeepingOps == RegisterJumpOps \cup SyscallOps

SilentOps ==
  UNION {UnknownOps, EmptyOps, ShiftMmiOps, Mmi0AddOps, Mmi0PackOps, Mmi0ByteOps, Mmi1Ops,
         Mmi1MoreOps, Mmi2Ops, Mmi2MoreOps, Mmi2LastOps, Mmi3Ops}

\* What the tables of opcodes lead to.
Ops ==
  UNION {TextOps, NameOps, TargetOps, FollowOps, FpuBranchOps, KeepingOps, BreakOps, SilentOps,
         NullEntries}

\* An instruction: its function, whether the register that it checks is one it
\* returns for ($zero as the destination, no such control register), and its
\* target or offset.
Words == [op : Ops, zero : BOOLEAN, field : Addresses]

ASSUME DisassemblerAssumption ==
  /\ Top \in Nat /\ Low \in Addresses /\ Start \in Addresses
  /\ Programs \subseteq [Addresses -> Words]
  /\ MaxCount \in Nat \ {0}
  /\ NoAddress \notin Addresses

-----------------------------------------------------------------------------
VARIABLES
  code,      \* the memory, which nothing changes
  address,   \* the instruction on the screen
  packet,    \* oppPacket
  count, history,
  lost,      \* a null pointer was called
  trail      \* the addresses RIGHT was pressed at and LEFT has not returned to

vars == <<code, address, packet, count, history, lost, trail>>

\* Origins: the instruction that wrote the name, the strings, the target, the flag;
\* and the one whose target the strings show.
Origins == Addresses \cup {NoAddress}
Packets == [name : Origins, text : Origins, shown : Origins, isTargetUsed : BOOLEAN,
            usedBy : Origins, target : Addresses, targetBy : Origins]

ZeroPacket ==
  [name |-> NoAddress, text |-> NoAddress, shown |-> NoAddress, isTargetUsed |-> FALSE,
   usedBy |-> NoAddress, target |-> 0, targetBy |-> NoAddress]

Plus4(a) == IF a = Top THEN 0 ELSE a + 1
Minus4(a) == IF a = 0 THEN Top ELSE a - 1

BranchTarget_Bug(w, a) == a + w.field
BranchTarget(w, a) == IF a + w.field <= Top THEN a + w.field ELSE a + w.field - (Top + 1)
JumpTarget(w) == w.field

\* The name and the strings of a line, without a target among them.
Line(p, a) == [p EXCEPT !.name = a, !.text = a, !.shown = NoAddress]
Plain_Bug(p, a) == Line(p, a)
Plain(p, a) == [Line(p, a) EXCEPT !.isTargetUsed = FALSE]
NameOnly(p, a) == [p EXCEPT !.name = a, !.isTargetUsed = FALSE]
Aim(p, a, t) == [p EXCEPT !.target = t, !.targetBy = a, !.shown = a]

Branch_Bug(p, a, t) == Aim(Line(p, a), a, t)     \* no isTargetUsed = 0
Branch(p, a, t) == Aim(Plain(p, a), a, t)
Jump(p, a, t) == [Aim(Line(p, a), a, t) EXCEPT !.isTargetUsed = TRUE, !.usedBy = a]

\* bc1f and its kin print whatever target is there.
FpuBranch(p, a) == [Plain(p, a) EXCEPT !.shown = p.targetBy]

\* break prints into the string its predecessor's name points to.
Break(p, a) == [p EXCEPT !.text = a, !.shown = NoAddress]

Returns(w) == w.op \in SilentOps \cup NullEntries \/ (w.op \in ZeroGuarded /\ w.zero)

execOp(p, a) ==
  LET w == code[a]
  IN IF Returns(w) THEN p
     ELSE IF w.op \in TextOps THEN Plain(p, a)
     ELSE IF w.op \in NameOps THEN NameOnly(p, a)
     ELSE IF w.op \in TargetOps THEN Branch(p, a, BranchTarget(w, a))
     ELSE IF w.op \in FollowOps THEN Jump(p, a, JumpTarget(w))
     ELSE IF w.op \in FpuBranchOps THEN FpuBranch(p, a)
     ELSE IF w.op \in KeepingOps THEN Line(p, a)
     ELSE Break(p, a)

Show(a) ==
  /\ address' = a
  /\ packet' = execOp(packet, a)
  /\ lost' = (code[a].op \in NullEntries)

\* history is a block for one address, of which nothing is ever set; RIGHT stores
\* at history[count] after count++, one past the end of the block it asked for.
Init ==
  /\ code \in Programs
  /\ address = Start
  /\ packet = execOp(ZeroPacket, Start)
  /\ lost = (code[Start].op \in NullEntries)
  /\ count = 1
  /\ history \in [1 .. MaxCount -> Addresses]
  /\ \A i \in 2 .. MaxCount : history[i] = 0
  /\ trail = <<>>

Up ==
  /\ ~lost
  /\ Show(Plus4(address))
  /\ UNCHANGED <<code, count, history, trail>>

Down ==
  /\ ~lost
  /\ Show(Minus4(address))
  /\ UNCHANGED <<code, count, history, trail>>

Push_Bug(h) == [h EXCEPT ![count + 1] = packet.target]    \* stored after the move
Push(h) == [h EXCEPT ![count + 1] = address]

Right ==
  /\ ~lost
  /\ packet.isTargetUsed
  /\ count < MaxCount
  /\ count' = count + 1
  /\ history' = Push(history)
  /\ trail' = Append(trail, address)
  /\ Show(packet.target)
  /\ UNCHANGED code

\* From an address up to Low there is no way back; without a jump before it, LEFT
\* goes to whatever the block held.
Left ==
  /\ ~lost
  /\ history[count] > Low
  /\ count' = IF count > 1 THEN count - 1 ELSE 1
  /\ trail' = IF trail = <<>> THEN trail ELSE SubSeq(trail, 1, Len(trail) - 1)
  /\ Show(history[count])
  /\ UNCHANGED <<code, history>>

\* A poll that sees no new press.  When padRead fails, new_pad keeps the last
\* press, and the step is taken again.
Wait == UNCHANGED vars

Next == Up \/ Down \/ Right \/ Left \/ Wait

Spec == Init /\ [][Next]_vars

-----------------------------------------------------------------------------
(* Properties.                                                             *)

\* The shape of the state.
TypeOK ==
  /\ code \in [Addresses -> Words]
  /\ address \in Addresses
  /\ packet \in Packets
  /\ count \in 1 .. MaxCount
  /\ history \in [1 .. MaxCount -> Addresses]
  /\ lost \in BOOLEAN
  /\ trail \in Seq(Addresses)

\* The target RIGHT would follow is the one of the jump that set isTargetUsed, and
\* when the line shows a target, it shows that one - although branches write the
\* target too, bc1f shows it, and many functions write neither.
RightFollowsShown ==
  packet.isTargetUsed =>
    /\ packet.targetBy = packet.usedBy
    /\ code[packet.usedBy].op \in FollowOps
    /\ packet.target = JumpTarget(code[packet.usedBy])
    /\ packet.shown \in {packet.usedBy, NoAddress}

\* isTargetUsed outlives its jump only over the functions that never clear it: a
\* line that is not the jump's own is a jr, jalr, syscall or break.
FlagOutlives ==
  packet.isTargetUsed =>
    /\ packet.text # packet.usedBy => code[packet.text].op \in KeepingOps \cup BreakOps
    /\ packet.name # packet.usedBy => code[packet.name].op \in KeepingOps

\* LEFT takes back the last RIGHT that it has not taken back yet.
LeftUndoesRight ==
  [][Left /\ trail # <<>> => address' = trail[Len(trail)]]_vars
=============================================================================
