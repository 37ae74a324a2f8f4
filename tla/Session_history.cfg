\* The search history under every sequence of commands.
SPECIFICATION Spec
CONSTANTS
  MaxSearches = 3
  Sizes = {2, 4}
  Areas <- MCAreas
  Archive <- MCArchive
  CountMod = 8
INVARIANTS
  TypeOK
  HistoryShrinks
  CountNeverLow
PROPERTY
  OldEntriesFrozen
\* The user may stop.
CHECK_DEADLOCK FALSE
CONSTRAINTS
  Untorn
  FewLeftovers
