CHECK_DEADLOCK FALSE
SPECIFICATION LifeSpec
CONSTANTS
  A = A
  B = B
  P1 = P1
  P2 = P2
  P3 = P3
  P4 = P4
  P5 = P5
  NoPid = NoPid
  NoChain = NoChain
  Chains = {A, B}
  Pids = {P1, P2, P3, P4, P5}
  AllowedDiff = 1
  Cleaning = TRUE
  Budget <- Each
INVARIANTS
  ReportLeadsToMonitor
PROPERTIES
  LiveMonitorSpared
  SingleMonitorSpec
  MonitorReturns
  LeftChainCleaned
