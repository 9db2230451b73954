SPECIFICATION FairSpec
CONSTANTS
  None = None
  j1 = j1  j2 = j2 j3 = j3
  t1 = t1  t2 = t2  t3 = t3
  p1 = p1  p2 = p2  a1 = a1
  Journeys = {j1, j2}
  Threads = {t1, t3}
  Pools = {p1, p2}
  Alones = {a1}
  PoolOf <- MCPoolOf
  Interruptible = {j1}
PROPERTIES NoStarvation ImplementsTravel
