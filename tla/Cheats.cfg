SPECIFICATION Spec
CONSTANTS
  Entries <- FourEntries
  Texts <- TwoTexts
  Batch = 2
  MaxPatches = 3
  MaxRows = 4
  MaxOps = 5
  MaxFaults = 1
INVARIANTS TypeOK UpdateDelivers NoMixture EditHitsItsRow OneRowPerAddress
CHECK_DEADLOCK FALSE
