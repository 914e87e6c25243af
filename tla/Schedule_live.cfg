CONSTANTS
  j1 = j1
  j2 = j2
  l1 = l1
  l2 = l2
  l3 = l3
  l4 = l4
  p1 = p1
  p2 = p2
  t1 = t1
  t2 = t2
  NoJob = NoJob
  NoLease = NoLease
  Job = {j1}
  Lease = {l1, l2, l3}
  Proc = {p1, p2}
  Turn = {t1, t2}
  ProcOf <- TwoProcs
  Limit = 2
  MostAttempts = 2
  LeaseMs = 3
  Third = 1
  RunMs = 3
  MaxWait = 1
  Backoff <- MCBackoff
  Punctual = TRUE
  MaxClaims = 9
  MaxMishaps = 2
SPECIFICATION FairSpec
INVARIANTS
  RenewedClaimHolds
  NothingDroppedEarly
PROPERTIES
  EventuallySettled
CHECK_DEADLOCK FALSE
