SPECIFICATION FairSpec
CONSTANTS
  N = 3
  Size = 4
  Lens <- MCLens
  MaxEntries = 8
CHECK_DEADLOCK FALSE
INVARIANTS
  TypeOK
  LogIntact
PROPERTIES
  NoRace
  Flushed
  Resumes
