SPECIFICATION Spec
CONSTANTS
  None = None
  t1 = t1  t2 = t2
  c1 = c1  c2 = c2
  Timers = {t1, t2}
  Cancellers = {c1, c2}
  MaxGuards = 2
INVARIANTS EventsInv ThrownOnce TimerStopped
PROPERTY QuietInGuard
