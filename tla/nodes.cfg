CHECK_DEADLOCK FALSE
SPECIFICATION Spec
CONSTANTS
  NoConfig = NoConfig
  AutoRepair = TRUE
  RotationDelay = 1
  IpDelay = 1
  MaxTime = 3
  Budgets <- Nodes
INVARIANTS
  KeyHeld
  PipelineGated
  ConfigOfThisVersion
  ExitIsUnsafe
PROPERTIES
  ConfigsAdvance
  ConfigSwappedWhenDown
  WipeOnRequest
