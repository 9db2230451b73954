SPECIFICATION Spec
CONSTANTS
  None = None
  a = a  b = b  c = c  d = d  e = e  x = x
  Pages = {a, b, c, d, e, x}
  Seed = a
  Matching = {a, b, c, d, e}
  Parsable = {a, c, d, e, x}
  MaxUrls = 4
  Links <- MCLinks
  Channels <- MCChannels
  Workers <- MCWorkers
  Src <- MCSrc
  Dst <- MCDst
  Job <- MCJob
  Input = "url"
INVARIANTS PipingInv NothingForClosed AllIsOver
PROPERTIES ImplementsCrawl Terminates
CHECK_DEADLOCK FALSE
