SPECIFICATION Spec
CONSTANTS
  None = None
  w1 = w1  w2 = w2  c1 = c1  c2 = c2
  h1 = h1  h2 = h2  h3 = h3
  Workers = {w1, w2}
  Clients = {c1}
  Handlers = {h1, h2}
  Throwing = {}
  MaxWaits = 2
PROPERTY WaitMeansDone
