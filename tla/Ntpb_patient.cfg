SPECIFICATION Spec
CONSTANTS
  GUI = GUI  NoSock = NoSock  NoThread = NoThread
  io1 = io1  io2 = io2  c1 = c1  c2 = c2  c3 = c3 
  IoThreads <- OneIo
  ClientThreads <- TwoClientSlots
  Socks <- SevenSocks
  NBlocks = 2
  ReadBlocks = 1
  PS2Wait = TRUE
  Patient = TRUE
  MayAbort = FALSE
  Pipelined = FALSE
  WinsockFails = TRUE
  Faults <- LinkLossOrGone
  MaxFaults = 1
  MaxOps = 2
INVARIANTS TypeOK OneCommand DumpComplete HaltBelief LockedTabHasWaker OneClientThread
SYMMETRY ThreadSymmetry
