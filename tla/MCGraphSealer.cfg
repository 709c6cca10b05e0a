SPECIFICATION FairSpec
CHECK_DEADLOCK FALSE
CONSTANTS
  base = base
  top = top
  side = side
  n1 = n1
  n2 = n2
  n3 = n3
  s1 = s1
  s2 = s2
  Pairs = {base, top, side}
  Natives = {n1, n2, n3}
  Stores = {s1, s2}
  NativeOf <- MCNativeOf
  Main <- MCMain
  Secondary <- MCSecondary
  Roots <- MCRoots
  None = None
  MaxFailures = 2
INVARIANTS
  OwnersAreSealedOnce
PROPERTIES
  SealingReturns
