CONSTANTS
  Names = {a, b}
  Saves = {s}
  Checkpoints = {k1, k2}
  MaxGeneration = 1
  Nowhere = Nowhere
  Unused = Unused
  Ops = {o1, o2, o3}
  Handles = {h1, h2}
SPECIFICATION CatalogSpec
SYMMETRY Interchangeable
CHECK_DEADLOCK FALSE
INVARIANTS
  ReportsAreTrue
  GenerationsFormChains
