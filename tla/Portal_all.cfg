SPECIFICATION FairSpec
CONSTANTS
  None = None
  j1 = j1  j2 = j2
  t1 = t1  t2 = t2  t3 = t3
  s1 = s1  s2 = s2
  Journeys = {j1, j2}
  Threads = {t1, t2}
  Schedulers = {s1, s2}
  PoolOf <- MCPoolOf
  Interruptible = {j1}
  MaxCalls <- MCMaxCalls
  Counts = 8
INVARIANTS PortalInv AllAreOver
PROPERTIES MiscountsOnlyInUnwinding PortalReturns ReturnsByCount PortalProgress
CHECK_DEADLOCK FALSE
