SPECIFICATION Spec
CONSTANTS
  None = None
  g1 = g1  g2 = g2  g3 = g3
  p1 = p1  p2 = p2  c1 = c1
  Getters = {g1, g2}
  Putters = {p1}
  Closers = {c1}
  PutLimit <- MCPutLimit
  Interruptible = {g1}
INVARIANT MutexReleased
