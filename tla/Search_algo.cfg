\* Every option of the search library against what its label says.
SPECIFICATION Spec
CONSTANTS
  UnitBits = 1
  CountMod = 65536
  PointSizes = {1, 2, 4}
  FilterDumps <- MCFilterDumps
  FilterAddys <- MCFilterAddys
  ConsecShapes <- MCConsecShapes
  MaxConsec = 3
INVARIANTS
  TypeOK
  TypesMeanLabel
  FiltersMeanLabel
  CountHonest
  ConsecRuns
\* A search is one call: it returns.
CHECK_DEADLOCK FALSE
