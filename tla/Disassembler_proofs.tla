------------------------ MODULE Disassembler_proofs ------------------------
(***************************************************************************)
(* What Disassembler shows for every memory it may walk over, and why LEFT *)
(* undoes RIGHT.  An instruction is known only by the group its function   *)
(* belongs to, so no proof looks into the groups.                          *)
(***************************************************************************)
EXTENDS Disassembler, TLAPS

\* What RightFollowsShown and FlagOutlives say of a packet.
Honest(p) ==
  p.isTargetUsed =>
    /\ p.targetBy = p.usedBy
    /\ p.usedBy \in Addresses
    /\ code[p.usedBy].op \in FollowOps
    /\ p.target = JumpTarget(code[p.usedBy])
    /\ p.shown \in {p.usedBy, NoAddress}
    /\ p.text # p.usedBy => code[p.text].op \in KeepingOps \cup BreakOps
    /\ p.name # p.usedBy => code[p.name].op \in KeepingOps

Memory == code \in [Addresses -> Words]

\* The cells RIGHT has written hold the addresses it was pressed at.
Remembers ==
  /\ count = Len(trail) + 1
  /\ \A i \in 1 .. Len(trail) : history[i + 1] = trail[i]

IInv == TypeOK /\ Honest(packet) /\ Remembers

\* Both targets are addresses: a branch wraps around the end of the memory.
LEMMA TargetsAreAddresses ==
  ASSUME NEW w \in Words, NEW a \in Addresses
  PROVE  BranchTarget(w, a) \in Addresses /\ JumpTarget(w) \in Addresses
<1>1. w.field \in Addresses
  BY DEF Words
<1>2. QED
  BY <1>1, DisassemblerAssumption DEF BranchTarget, JumpTarget, Addresses

\* Every function of disassembler.c, run on an honest packet, leaves an honest one
\* (disassembler.c:95-4662).
LEMMA ExecHonest ==
  ASSUME Memory, NEW p \in Packets, Honest(p), NEW a \in Addresses
  PROVE  execOp(p, a) \in Packets /\ Honest(execOp(p, a))
<1> DEFINE w == code[a]
           z == w.op \in ZeroGuarded /\ w.zero
<1>1. /\ w \in Words /\ w.op \in Ops
      /\ BranchTarget(w, a) \in Addresses /\ JumpTarget(w) \in Addresses
      /\ a \in Origins /\ NoAddress \in Origins
  BY TargetsAreAddresses DEF Memory, Words, Origins
<1>2. \/ w.op \in TextOps \/ w.op \in NameOps \/ w.op \in TargetOps \/ w.op \in FollowOps
      \/ w.op \in FpuBranchOps \/ w.op \in KeepingOps \/ w.op \in BreakOps
      \/ w.op \in SilentOps \cup NullEntries
  BY <1>1 DEF Ops
<1>3. \/ execOp(p, a) = p
      \/ execOp(p, a) = Plain(p, a)
      \/ execOp(p, a) = NameOnly(p, a)
      \/ execOp(p, a) = Branch(p, a, BranchTarget(w, a))
      \/ w.op \in FollowOps /\ execOp(p, a) = Jump(p, a, JumpTarget(w))
      \/ execOp(p, a) = FpuBranch(p, a)
      \/ w.op \in KeepingOps /\ execOp(p, a) = Line(p, a)
      \/ w.op \in BreakOps /\ execOp(p, a) = Break(p, a)
  BY <1>2 DEF execOp, Returns
<1>4. CASE execOp(p, a) = p
  BY <1>4
<1>5. CASE execOp(p, a) = Plain(p, a)
  BY <1>1, <1>5 DEF Plain, Line, Packets, Honest
<1>6. CASE execOp(p, a) = NameOnly(p, a)
  BY <1>1, <1>6 DEF NameOnly, Packets, Honest
<1>7. CASE execOp(p, a) = Branch(p, a, BranchTarget(w, a))
  <2>1. Branch(p, a, BranchTarget(w, a)) \in Packets
    BY <1>1 DEF Branch, Aim, Plain, Line, Packets
  <2>2. ~Branch(p, a, BranchTarget(w, a)).isTargetUsed
    BY <1>1 DEF Branch, Aim, Plain, Line, Packets
  <2>3. QED
    BY <1>7, <2>1, <2>2 DEF Honest
<1>8. CASE w.op \in FollowOps /\ execOp(p, a) = Jump(p, a, JumpTarget(w))
  <2>1. Jump(p, a, JumpTarget(w)) \in Packets
    BY <1>1 DEF Jump, Aim, Line, Packets
  <2>2. LET q == Jump(p, a, JumpTarget(w))
        IN /\ q.name = a /\ q.text = a /\ q.shown = a /\ q.usedBy = a
           /\ q.target = JumpTarget(w) /\ q.targetBy = a
    BY <1>1 DEF Jump, Aim, Line, Packets
  <2>3. QED
    BY <1>8, <2>1, <2>2 DEF Honest
<1>9. CASE execOp(p, a) = FpuBranch(p, a)
  <2>1. FpuBranch(p, a) \in Packets
    BY <1>1 DEF FpuBranch, Plain, Line, Packets
  <2>2. ~FpuBranch(p, a).isTargetUsed
    BY <1>1 DEF FpuBranch, Plain, Line, Packets
  <2>3. QED
    BY <1>9, <2>1, <2>2 DEF Honest
<1>10. CASE w.op \in KeepingOps /\ execOp(p, a) = Line(p, a)
  <2>1. Line(p, a) \in Packets
    BY <1>1 DEF Line, Packets
  <2>2. LET q == Line(p, a)
        IN /\ q.name = a /\ q.text = a /\ q.shown = NoAddress
           /\ q.isTargetUsed = p.isTargetUsed /\ q.usedBy = p.usedBy
           /\ q.target = p.target /\ q.targetBy = p.targetBy
    BY <1>1 DEF Line, Packets
  <2>3. QED
    BY <1>10, <2>1, <2>2 DEF Honest
<1>11. CASE w.op \in BreakOps /\ execOp(p, a) = Break(p, a)
  <2>1. Break(p, a) \in Packets
    BY <1>1 DEF Break, Packets
  <2>2. LET q == Break(p, a)
        IN /\ q.name = p.name /\ q.text = a /\ q.shown = NoAddress
           /\ q.isTargetUsed = p.isTargetUsed /\ q.usedBy = p.usedBy
           /\ q.target = p.target /\ q.targetBy = p.targetBy
    BY <1>1 DEF Break, Packets
  <2>3. QED
    BY <1>11, <2>1, <2>2 DEF Honest
<1>12. QED
  BY <1>3, <1>4, <1>5, <1>6, <1>7, <1>8, <1>9, <1>10, <1>11

\* The instruction shown next, wherever it is (disassembler.c:4645-4662).
LEMMA ShowHonest ==
  ASSUME IInv, NEW a \in Addresses, Show(a), code' = code
  PROVE  /\ address' \in Addresses /\ packet' \in Packets /\ lost' \in BOOLEAN
         /\ Honest(packet)'
<1>1. execOp(packet, a) \in Packets /\ Honest(execOp(packet, a))
  BY ExecHonest DEF IInv, TypeOK, Memory
<1>2. packet' = execOp(packet, a) /\ address' = a /\ lost' \in BOOLEAN
  BY DEF Show
<1>3. QED
  BY <1>1, <1>2 DEF Honest

\* The inductive invariant holds at first.
LEMMA InitIInv == Init => IInv
<1> SUFFICES ASSUME Init PROVE IInv
  OBVIOUS
<1>1. code \in [Addresses -> Words] /\ Start \in Addresses
  BY DisassemblerAssumption DEF Init
<1>2. ZeroPacket \in Packets /\ Honest(ZeroPacket)
  BY DisassemblerAssumption DEF ZeroPacket, Packets, Origins, Honest, Addresses
<1>3. packet \in Packets /\ Honest(packet)
  BY <1>1, <1>2, ExecHonest DEF Init, Memory
<1>4. TypeOK
  BY <1>1, <1>3, DisassemblerAssumption DEF Init, TypeOK
<1>5. Remembers
  BY DEF Init, Remembers
<1>6. QED
  BY <1>3, <1>4, <1>5 DEF IInv

\* UP and DOWN wrap around at the ends of the memory (main.c:291-321).
LEMMA MoveIInv ==
  ASSUME IInv, NEW a \in Addresses, Show(a), UNCHANGED <<code, count, history, trail>>
  PROVE  IInv'
<1>1. address' \in Addresses /\ packet' \in Packets /\ lost' \in BOOLEAN /\ Honest(packet)'
  BY ShowHonest
<1>2. TypeOK' /\ Remembers'
  BY <1>1 DEF IInv, TypeOK, Remembers
<1>3. QED
  BY <1>1, <1>2 DEF IInv

\* RIGHT writes the cell after those it has written before (main.c:322-340).
LEMMA RightIInv == ASSUME IInv, Right PROVE IInv'
<1>1. packet.target \in Addresses /\ address \in Addresses /\ count \in 1 .. MaxCount
  BY DEF IInv, TypeOK, Packets
<1>2. address' \in Addresses /\ packet' \in Packets /\ lost' \in BOOLEAN /\ Honest(packet)'
  BY <1>1, ShowHonest DEF Right
<1>3. /\ count' = count + 1 /\ count + 1 \in 1 .. MaxCount
      /\ history' = [history EXCEPT ![count + 1] = address]
      /\ history \in [1 .. MaxCount -> Addresses]
  BY <1>1, DisassemblerAssumption DEF Right, Push, IInv, TypeOK
<1>4. trail \in Seq(Addresses) /\ trail' = Append(trail, address)
  BY DEF Right, IInv, TypeOK
<1>5. TypeOK'
  BY <1>1, <1>2, <1>3, <1>4 DEF Right, IInv, TypeOK
<1>6. Remembers'
  <2>1. Len(trail') = Len(trail) + 1 /\ count = Len(trail) + 1
    BY <1>4 DEF IInv, Remembers
  <2>2. ASSUME NEW i \in 1 .. Len(trail')
        PROVE  history'[i + 1] = trail'[i]
    <3>1. CASE i = Len(trail) + 1
      BY <1>1, <1>3, <1>4, <2>1, <3>1
    <3>2. CASE i \in 1 .. Len(trail)
      BY <1>1, <1>3, <1>4, <2>1, <3>2 DEF IInv, Remembers
    <3>3. QED
      BY <2>1, <3>1, <3>2, <1>4
  <2>3. QED
    BY <1>3, <2>1, <2>2 DEF Remembers
<1>7. QED
  BY <1>2, <1>5, <1>6 DEF IInv

\* LEFT reads the last cell and gives it back (main.c:341-361).
LEMMA LeftIInv == ASSUME IInv, Left PROVE IInv'
<1>1. history[count] \in Addresses /\ count \in 1 .. MaxCount
  BY DEF IInv, TypeOK
<1>2. address' \in Addresses /\ packet' \in Packets /\ lost' \in BOOLEAN /\ Honest(packet)'
  BY <1>1, ShowHonest DEF Left
<1>3. trail \in Seq(Addresses) /\ count = Len(trail) + 1
  BY DEF IInv, TypeOK, Remembers
<1>4. CASE trail = <<>>
  <2>1. count' = 1 /\ trail' = <<>> /\ history' = history /\ Len(trail) = 0
    BY <1>3, <1>4 DEF Left
  <2>2. TypeOK' /\ Remembers'
    BY <1>1, <1>2, <1>3, <2>1 DEF Left, IInv, TypeOK, Remembers
  <2>3. QED
    BY <1>2, <2>2 DEF IInv
<1>5. CASE trail # <<>>
  <2>1. Len(trail) \in Nat /\ Len(trail) > 0
    BY <1>3, <1>5
  <2>2. count' = count - 1 /\ history' = history
        /\ trail' = SubSeq(trail, 1, Len(trail) - 1)
    BY <1>1, <1>3, <1>5, <2>1 DEF Left
  <2>3. /\ trail' \in Seq(Addresses) /\ Len(trail') = Len(trail) - 1
        /\ \A i \in 1 .. Len(trail') : trail'[i] = trail[i]
    BY <1>3, <2>1, <2>2
  <2>4. TypeOK'
    <3>1. count' \in 1 .. MaxCount
      BY <1>1, <1>3, <2>1, <2>2, DisassemblerAssumption
    <3>2. QED
      BY <1>2, <2>2, <2>3, <3>1 DEF Left, IInv, TypeOK
  <2>5. Remembers'
    BY <1>3, <2>1, <2>2, <2>3 DEF IInv, Remembers
  <2>6. QED
    BY <1>2, <2>4, <2>5 DEF IInv
<1>6. QED
  BY <1>4, <1>5

\* Every step keeps the inductive invariant.
LEMMA NextIInv == IInv /\ [Next]_vars => IInv'
<1> SUFFICES ASSUME IInv, [Next]_vars PROVE IInv'
  OBVIOUS
<1>1. address \in Addresses
  BY DEF IInv, TypeOK
<1>2. CASE Up
  <2>1. Plus4(address) \in Addresses
    BY <1>1, DisassemblerAssumption DEF Plus4, Addresses
  <2>2. QED
    BY <1>2, <2>1, MoveIInv DEF Up
<1>3. CASE Down
  <2>1. Minus4(address) \in Addresses
    BY <1>1, DisassemblerAssumption DEF Minus4, Addresses
  <2>2. QED
    BY <1>3, <2>1, MoveIInv DEF Down
<1>4. CASE Right
  BY <1>4, RightIInv
<1>5. CASE Left
  BY <1>5, LeftIInv
<1>6. CASE UNCHANGED vars
  BY <1>6 DEF vars, IInv, TypeOK, Honest, Remembers
<1>7. QED
  BY <1>2, <1>3, <1>4, <1>5, <1>6 DEF Next, Wait

\* The inductive invariant, from which the properties follow.
THEOREM Invariant == Spec => []IInv
  BY InitIInv, NextIInv, PTL DEF Spec

\* The state keeps its shape, whatever the memory holds.
THEOREM TypeCorrect == Spec => []TypeOK
<1>1. IInv => TypeOK
  BY DEF IInv
<1>2. QED
  BY <1>1, Invariant, PTL

\* RIGHT goes where the jump that set isTargetUsed points, never to a target that
\* a branch left behind.
THEOREM RightFollowsShownCorrect == Spec => []RightFollowsShown
<1>1. IInv => RightFollowsShown
  BY DEF IInv, Honest, RightFollowsShown
<1>2. QED
  BY <1>1, Invariant, PTL

\* Only jr, jalr, syscall and break stand on the screen while RIGHT follows the
\* jump before them.
THEOREM FlagOutlivesCorrect == Spec => []FlagOutlives
<1>1. IInv => FlagOutlives
  BY DEF IInv, Honest, FlagOutlives
<1>2. QED
  BY <1>1, Invariant, PTL

\* LEFT undoes the last RIGHT, as deep as history's cells go.
THEOREM LeftUndoesRightCorrect == Spec => LeftUndoesRight
<1>1. IInv /\ [Next]_vars => [Left /\ trail # <<>> => address' = trail[Len(trail)]]_vars
  <2> SUFFICES ASSUME IInv, Left, trail # <<>> PROVE address' = trail[Len(trail)]
    OBVIOUS
  <2>1. trail \in Seq(Addresses) /\ Len(trail) \in 1 .. Len(trail) /\ count = Len(trail) + 1
    BY DEF IInv, TypeOK, Remembers
  <2>2. history[count] = trail[Len(trail)]
    BY <2>1 DEF IInv, Remembers
  <2>3. QED
    BY <2>2 DEF Left, Show
<1>2. QED
  BY <1>1, Invariant, PTL DEF Spec, LeftUndoesRight
=============================================================================
