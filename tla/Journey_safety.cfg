SPECIFICATION Spec
CONSTANTS
  None = None
  j1 = j1  j2 = j2 j3 = j3
  t1 = t1  t2 = t2  t3 = t3
  p1 = p1  p2 = p2  a1 = a1
  Journeys = {j1, j2, j3}
  Threads = {t1, t2}
  Pools = {p1}
  Alones = {a1}
  PoolOf <- MCPoolOf
  Interruptible = {j1}
SYMMETRY Symmetry
INVARIANTS IInv OneContinuation NeverLost Located AloneMutex
PROPERTY NoWriteAfterDelete
