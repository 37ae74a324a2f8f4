CONSTANTS
  EE = EE
  UP = UP
  CROSS = CROSS
  Kinds <- MCKinds
  RegionSize <- MCRegionSize
  BUF = 2
  PKT = 1
  MaxIndex = 0
  Fds <- MCFds
  CallMayFail = FALSE
  Combo <- MCCombo
  Libs <- MCLibs
  Addresses <- MCAddresses
  MaxResets = 2
  MaxPowerCycles = 1
SPECIFICATION GameSpec
CHECK_DEADLOCK FALSE
INVARIANTS
  ResetReloads
