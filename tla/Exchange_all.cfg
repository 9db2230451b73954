SPECIFICATION Spec
CONSTANTS
  None = None
  c1 = c1  c2 = c2
  Conns = {c1, c2}
  Interruptible <- MCInterruptible
  Requests <- MCRequests
  Chars = 8
  SuffixSize = 2
INVARIANTS ExchangeInv AnswerIsRight BodyIsComplete
PROPERTIES ExchangeEnds
CHECK_DEADLOCK FALSE
