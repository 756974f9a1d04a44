CHECK_DEADLOCK FALSE
SPECIFICATION FairSpec
CONSTANTS
  W1 = W1
  W2 = W2
  N1 = N1
  N2 = N2
  I1 = I1
  I2 = I2
  Names = {N1, N2}
  Ips = {I1, I2}
  Workers = {W1, W2}
  Admin = Admin
  C1 = C1
  C2 = C2
  Chains = {C1, C2}
  Telegraf = TRUE
  RotationDelay = 2
  Timeout = 1
  MaxTime = 4
  None = None
  Mixes <- Lives
INVARIANTS
  ConfigOfOurNode
  ExitReportHonest
PROPERTIES
  NodeRecordSpec
  RegistrationHeals
  ExitCompletes
