SPECIFICATION FairTimeoutsSpec
CONSTANTS
  e1 = e1
  Endpoints = {e1}
  IdMod = 3
  MaxConnections = 3
  Timeout = 2
  NoBeat = NoBeat
PROPERTY QuietClientLeaves
INVARIANTS
  SweepIsComplete
