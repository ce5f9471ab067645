SPECIFICATION Spec
CONSTANTS
  a = a
  still = still
  moved = moved
  Clients = {a}
  Starters = {a}
  Values = {still, moved}
  Settled <- MCSettled
  Nothing = Nothing
  Blank = Blank
  NoClient = NoClient
  Faults = {"send"}
  MaxBatch = 1
  MaxEntity = 2
  MaxLevels = 1
  MaxWire = 2
VIEW MCView
INVARIANTS
  PromisesTheLiving
  PromisesTheLatest
  QuietClientSeesTheLiving
PROPERTY
  SpawnsAreNew
