\* Three contributions, two places: all interleavings of submit, cancel, close,
\* failure and maintenance.
SPECIFICATION SafeSpec
CONSTANTS
  r1 = r1
  r2 = r2
  r3 = r3
  c1 = c1
  c2 = c2
  Requests = {r1, r2, r3}
  Closers = {c1}
  Worker = worker
  None = none
  Charge <- MCCharge
  Limits <- MCLimits
  EngineStates <- MCEngines
  MaxRevision = 4
INVARIANTS
  ReservationsExact
  TicketsTellTheTruth
  NobodyIsForgotten
PROPERTIES
  TicketsSettleOnce
CHECK_DEADLOCK FALSE
