CONSTANTS
  member = member
  Key = {k1}
  Client = {member}
  Audience <- MCAudience
  Writer = {w1}
  NoWriter = NoWriter
  Cap = 1
  MaxVersion = 3
  MaxRepeats = 0
SPECIFICATION Spec
INVARIANT ShowsWhatItMay
CHECK_DEADLOCK FALSE
