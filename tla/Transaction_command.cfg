CONSTANTS
  Tx = {x1, x2}
  NoTx = NoTx
  Commands = TRUE
  Overlapping = FALSE
  MaxMishaps = 0
SPECIFICATION Spec
SYMMETRY Symmetry
INVARIANTS
  NeverALie
CHECK_DEADLOCK FALSE
