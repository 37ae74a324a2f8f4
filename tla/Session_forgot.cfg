\* I Forgot, compared with an older entry.
SPECIFICATION Spec
CONSTANTS
  MaxSearches = 3
  Sizes = {2}
  Areas <- MCAreas
  Archive <- MCArchive
  CountMod = 8
INVARIANT
  ForgotKeepsCount
\* The user may stop.
CHECK_DEADLOCK FALSE
