CONSTANTS
  Names = {main, branch}
  Saves = {s}
  MaxGeneration = 2
  Connections = {c1, c2}
  Changes = {x, y}
  EmptyBatches = {}
  Txns = {}
  Identities = {1, 2, 3}
  QueueLimit = 1
  Nowhere = Nowhere
  None = None
SPECIFICATION Spec
SYMMETRY Interchangeable
CHECK_DEADLOCK FALSE
INVARIANTS
  AnswersAreKept
PROPERTIES
  ImplementsHistory
