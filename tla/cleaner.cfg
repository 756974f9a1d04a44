CHECK_DEADLOCK FALSE
SPECIFICATION FairSpec
CONSTANTS
  a = a
  b = b
  NoChain = NoChain
  Chains = {a, b}
  Slots = {1, 2}
  SlotOf <- OneSlot
  Sources = {"n"}
  Public = "public"
  Budgets <- FollowMixes
INVARIANTS
  ForgottenIsGone
  PortsClosed
PROPERTIES
  UpdateKeepsOpen
  LeftRemoved
  RulesConverge
