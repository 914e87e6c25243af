CONSTANTS
  Tx = {x1, x2, x3}
  NoTx = NoTx
  Commands = TRUE
  Overlapping = FALSE
  MaxMishaps = 1
SPECIFICATION FairSpec
INVARIANTS
  AllOrNothing
  HandedTellsTruth
  QuietMeansTold
PROPERTIES
  JoinsAsPromised
  EveryCallEnds
CHECK_DEADLOCK FALSE
