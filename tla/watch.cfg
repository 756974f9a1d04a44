CHECK_DEADLOCK FALSE
SPECIFICATION FairSpec
CONSTANTS
  MaxRestart = 2
  MaxFailed = 1
  Cap = 8
  Budget <- Each
INVARIANTS
  FailedRestartsBounded
PROPERTIES
  NewSkaledSpared
  HungIsRestarted
