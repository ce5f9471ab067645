SPECIFICATION FilesSpec
CONSTANTS
  a = a
  d = d
  comma = comma
  escape = escape
  KeyOrder <- MCKeyOrder
  NamedKeys = {a, d, escape}
  Escape = escape
  Slots <- MCSlots
  Defaults <- MCDefaults
  Values = {50, 100}
  MaxClicks = 3
  MaxHeld = 2
  None = None
  Names = {0, 1, 2, 3, 4, 5}
  Initial <- MCLevels
  LevelsPerPage = 2
  MaxWorks = 6
  Prefabs <- MCPrefabs
  Contents <- MCFiles
  Lengths = {0, 20}
  Counts = {0, 3}
  Ends = {10, 51}
  MaxEdits = 2
  MaxSaves = 2
INVARIANTS
  SavedIsLoaded
  ShownIsConfigured
  OneDirection
  ListIsTheDirectory
PROPERTIES
  PlayedAsDrawn
  UneditedSavesChangeNothing
CHECK_DEADLOCK FALSE
