CHECK_DEADLOCK FALSE
SPECIFICATION FairSpec
CONSTANTS
  NoConfig = NoConfig
  AutoRepair = TRUE
  RotationDelay = 1
  IpDelay = 1
  MaxTime = 3
  Budgets <- LiveMember
PROPERTIES
  UpdateCompletes
  ExitThenRestart
  RepairCompletes
  IpsAdopted
