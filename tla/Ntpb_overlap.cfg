SPECIFICATION Spec
CONSTANTS
  GUI = GUI  NoSock = NoSock  NoThread = NoThread
  io1 = io1  io2 = io2  c1 = c1  c2 = c2  c3 = c3 
  IoThreads <- TwoIo
  ClientThreads <- TwoClientSlots
  Socks <- SevenSocks
  NBlocks = 1
  ReadBlocks = 1
  PS2Wait = FALSE
  Patient = FALSE
  MayAbort = TRUE
  Pipelined = FALSE
  WinsockFails = TRUE
  Faults <- LinkLossOrGone
  MaxFaults = 0
  MaxOps = 2
INVARIANT NeverStuckBusy
CONSTRAINTS SpawnHasSlot LoneAfterAbort
SYMMETRY ThreadSymmetry
