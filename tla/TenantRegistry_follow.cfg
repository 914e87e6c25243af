CONSTANTS
  member = member
  Key = {k1, k2}
  Client = {member}
  Audience <- MCAudience
  Writer = {w1, w2}
  NoWriter = NoWriter
  Cap = 1
  MaxVersion = 3
  MaxRepeats = 1
SPECIFICATION Spec
SYMMETRY Symmetry
INVARIANTS
  VersionsWithoutGap
  OnlyToViewers
  ShowsUnmoved
  NextIsComing
CHECK_DEADLOCK FALSE
