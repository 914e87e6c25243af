CONSTANTS
  r1 = r1
  r2 = r2
  a1 = a1
  a2 = a2
  u1 = u1
  Nobody = Nobody
  Req = {r1, r2}
  Addr = {a1, a2}
  AddrOf <- MCAddrOf
  User = {u1}
  Holder = {u1}
  Route <- MCRoute
  Waits = {r1}
  Shape <- MCShape
  Most = 1
  Requests = 1
  Seconds = 1
  MaxTime = 1
SPECIFICATION FairSpec
INVARIANTS
  SlotWhileStreaming
  SlotsCounted
  BudgetHolds
  TornDownInOrder
PROPERTIES
  StopEnds
  SlotComesBack
CHECK_DEADLOCK FALSE
