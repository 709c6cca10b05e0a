\* Two contributions that cannot both be outstanding: every promise kept in the end.
SPECIFICATION Spec
CONSTANTS
  r1 = r1
  r2 = r2
  r3 = r3
  c1 = c1
  c2 = c2
  Requests = {r1, r2}
  Closers = {c1, c2}
  Worker = worker
  None = none
  Charge <- MCCharge
  Limits <- MCNarrowLimits
  EngineStates <- MCEngines
  MaxRevision = 3
PROPERTIES
  EveryoneReturns
  ImplementsPromise
CHECK_DEADLOCK FALSE
