CONSTANTS
  r1 = r1
  j1 = j1
  j2 = j2
  j3 = j3
  j4 = j4
  w1 = w1
  w2 = w2
  Run = {r1}
  Last = 2
  Retries = 2
  Job = {j1, j2, j3, j4}
  NoJob = NoJob
  NoRun = NoRun
  Worker = {w1, w2}
  MostAttempts = 2
  MaxMishaps = 2
SPECIFICATION FairSpec
INVARIANTS
  ResultsInOrder
  OneJobPerResult
  ToldOncePerFailure
PROPERTIES
  EventuallyEnds
CHECK_DEADLOCK FALSE
