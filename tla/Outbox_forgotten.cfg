CONSTANTS
  e1 = e1
  e2 = e2
  l1 = l1
  l2 = l2
  p1 = p1
  p2 = p2
  t1 = t1
  t2 = t2
  NoEvent = NoEvent
  Nobody = Nobody
  Event = {e1}
  Listener = {l1, l2}
  Proc = {p1, p2}
  Turn = {t1, t2}
  ProcOf <- TwoProcs
  Limit = 2
  MostAttempts = 2
  LeaseMs = 3
  Third = 1
  RetryMs <- MCRetryMs
  MaxDeliveries = 3
  MaxMishaps = 1
SPECIFICATION Spec
PROPERTIES
  HeardNeverForgotten
CHECK_DEADLOCK FALSE
