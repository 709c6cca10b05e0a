CONSTANTS
  Levels = 5
  MaxAdmissions = 12
  LocalBound = 5
  HalfRate = 1
  Allowances = {3, 20}
SPECIFICATION Spec
CHECK_DEADLOCK FALSE
INVARIANTS
  ScheduleSuffices
  ReadersAreExact
  CheckpointsRestore
