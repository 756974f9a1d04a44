CHECK_DEADLOCK FALSE
SPECIFICATION Spec
CONSTANTS
  NoConfig = NoConfig
  AutoRepair = TRUE
  RotationDelay = 1
  IpDelay = 1
  MaxTime = 4
  Budgets <- RotateAndRepair
PROPERTY RepairDownloadsSnapshot
