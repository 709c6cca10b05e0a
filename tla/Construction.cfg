SPECIFICATION Spec
CONSTRAINT Scenario
CHECK_DEADLOCK FALSE
CONSTANTS
  Owners = {o1, o2}
  Shard <- OneShard
  Target <- OneTarget
  Recoverers = {p, q}
  None = None
  MaxLosses = 2
INVARIANTS
  ReceiptsAreDurable
  RecoveryIsExact
