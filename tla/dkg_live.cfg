CHECK_DEADLOCK FALSE
SPECIFICATION FairSpec
CONSTANTS
  N = 2
  Timeout = 1
  MaxRound = 1
  Budgets <- Delays
PROPERTIES
  RoundEnds
  ShareObtained
