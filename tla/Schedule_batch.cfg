CONSTANTS
  j1 = j1
  j2 = j2
  l1 = l1
  l2 = l2
  l3 = l3
  l4 = l4
  p1 = p1
  p2 = p2
  t1 = t1
  t2 = t2
  NoJob = NoJob
  NoLease = NoLease
  Job <- MCJob
  Lease <- MCLease
  Proc = {p1, p2}
  Turn = {t1, t2}
  ProcOf <- TwoProcs
  Limit = 2
  MostAttempts = 2
  LeaseMs = 3
  Third = 1
  RunMs = 2
  MaxWait = 1
  Backoff <- MCBackoff
  Punctual = FALSE
  MaxClaims = 3
  MaxMishaps = 0
SPECIFICATION Spec
SYMMETRY Symmetry
INVARIANTS
  OneHolder
  EveryClaimCountedOnce
PROPERTIES
  LeftOnlyByHolderOrLapse
  KeepsPromise
CHECK_DEADLOCK FALSE
