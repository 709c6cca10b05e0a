CONSTANTS
  Names = {main}
  Saves = {}
  MaxGeneration = 3
  Connections = {c1}
  Changes = {x, y, e}
  EmptyBatches = {e}
  Txns = {t, u}
  Identities = {1, 2, 3, 4}
  QueueLimit = 2
  Nowhere = Nowhere
  None = None
SPECIFICATION Spec
SYMMETRY Interchangeable
CHECK_DEADLOCK FALSE
INVARIANTS
  IdentityMeansContent
PROPERTIES
  ImplementsHistory
