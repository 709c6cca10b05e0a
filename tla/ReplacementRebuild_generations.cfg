SPECIFICATION Spec
CHECK_DEADLOCK FALSE
CONSTANTS
  Keys = {k1, k2, k3, k4}
  Values = {v1}
  NoValue = none
  MaxBatch = 1
  SmallLimit = 2
  HistoryDivisor = 1
  HorizonDivisor = 2
  TinyRecords = 0
  Setup = 1
  ScanPrice = 1
  ActionBound = 2
  Foldings = {FALSE}
  CarryBound = 3
  Carries = {3}
  Openings = {4}
  Budgets = {3}
  MaxAccepted = 6
  MaxAcceptedAgain = 2
  MaxRestarts = 1
SYMMETRY Interchangeable
INVARIANTS
  CandidateKeepsUp
  NeverRefuses
