CHECK_DEADLOCK FALSE
SPECIFICATION Spec
CONSTANTS
  N = 2
  Timeout = 1
  MaxRound = 1
  Budgets <- Pairs
INVARIANTS
  KeyOfRound
  KeyOfSuccess
  AlrightVerified
