SPECIFICATION FairSpec
CONSTANTS
  MaxTime = 2
  Budgets <- Mixes
INVARIANTS
  RepairedOnce
PROPERTIES
  ConfigFieldsKept
  Settled
