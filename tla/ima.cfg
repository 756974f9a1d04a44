CHECK_DEADLOCK FALSE
SPECIFICATION FairSpec
CONSTANTS
  Migration = 1
  MaxTime = 3
  Mixes <- Mixed
INVARIANTS
  SameGroup
PROPERTIES
  NeverBack
  Settles
