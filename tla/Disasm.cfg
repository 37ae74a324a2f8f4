SPECIFICATION Spec
CONSTANTS
  Top = 2
  Low = 0
  Start = 0
  Programs <- MCPrograms
  MaxCount = 3
  NoAddress = NoAddress
INVARIANTS
  TypeOK
  RightFollowsShown
  FlagOutlives
PROPERTY
  LeftUndoesRight
