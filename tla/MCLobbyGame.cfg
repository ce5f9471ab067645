SPECIFICATION FairSpec
CONSTANTS
  Clients = {a, b}
  Creator = a
  Moves = {still, up}
  Still = still
  Modes = {"classic", "infinite"}
  Maps = 2
  Scenery = 1
  MaxQueue = 1
  MaxScore = 1
  MaxStimuli = 2
  Nobody = Nobody
INVARIANTS
  SteadyShips
  OwnShips
  GameEndIsAnnounced
  QuietInputsApplied

  
CHECK_DEADLOCK FALSE
