CONSTANTS
  p1 = p1
  p2 = p2
  Proc = {p1, p2}
  Code <- MCCode
  Declares <- MCDeclares
  Deployed <- MCDeployed
  Entry <- MCEntry
  MaxBoots <- MCBoots
  MaxStarts = 2
  MaxAdds <- MCAdds
SPECIFICATION FairSpec
INVARIANTS
  WhatItNamesIsUp
  SchemaStands
  PlacedAlike
PROPERTIES
  MigratesWhole
  LeavesByItsOwnStop
  BootEnds
CHECK_DEADLOCK FALSE
