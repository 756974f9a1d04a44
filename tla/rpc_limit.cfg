CHECK_DEADLOCK FALSE
SPECIFICATION Spec
CONSTANTS
  MaxRestart = 2
  MaxFailed = 1
  Cap = 3
  Budget <- FewEvents
INVARIANT RpcRestartsStop
