SPECIFICATION FairSpec
CONSTANTS
  a = a
  still = still
  moved = moved
  Clients = {a}
  Starters = {a}
  Values = {still, moved}
  Settled <- MCSettled
  Nothing = Nothing
  Blank = Blank
  NoClient = NoClient
  Faults = {"broadcast"}
  MaxBatch = 1
  MaxEntity = 1
  MaxLevels = 1
  MaxWire = 3
PROPERTY
  Converges
