CONSTANTS
  EE = EE
  ScratchPad = ScratchPad
  Kinds <- MCKinds
  RegionSize <- MCRegionSize
  BUF = 3
  PKT = 2
  MaxIndex = 1
  Fds <- MCFds
  CallMayFail = FALSE
SPECIFICATION Spec
INVARIANTS
  TypeOK
  DoneIsClosed
PROPERTIES
  ImplementsMemDump
  FinishedFrozen
  DumpEnds
