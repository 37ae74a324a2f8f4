SPECIFICATION FairSpec
CONSTANTS
  GUI = GUI  NoSock = NoSock  NoThread = NoThread
  io1 = io1  io2 = io2  c1 = c1  c2 = c2  c3 = c3 
  IoThreads <- OneIo
  ClientThreads <- OneClientSlot
  Socks <- SevenSocks
  NBlocks = 1
  ReadBlocks = 1
  PS2Wait = TRUE
  Patient = TRUE
  MayAbort = FALSE
  Pipelined = FALSE
  WinsockFails = FALSE
  Faults <- LinkLossOrReboot
  MaxFaults = 1
  MaxOps = 2
PROPERTIES SearchEnds AutoReconnect ResetLinkReplaced
