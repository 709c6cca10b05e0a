SPECIFICATION FairSpec
CHECK_DEADLOCK FALSE
CONSTANTS
  Keys = {k1, k2}
  Values = {v1, v2}
  NoValue = none
  MaxBatch = 2
  SmallLimit = 2
  HistoryDivisor = 1
  HorizonDivisor = 2
  TinyRecords = 3
  Setup = 1
  ScanPrice = 1
  ActionBound = 2
  Foldings = {TRUE, FALSE}
  CarryBound = 3
  Carries = {0, 3}
  Openings = {0, 2}
  Budgets = {3}
  MaxAccepted = 3
  MaxAcceptedAgain = 1
  MaxRestarts = 1
PROPERTIES
  ImplementsTable
  RebuildsFinish
