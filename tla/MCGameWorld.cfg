SPECIFICATION WorldSpec
CONSTANTS
  Levels <- MCLevels
  Aims <- MCAims
  Shooters = {1}
  Crossfire = TRUE
  LastMap = FALSE
  Span = 9
  Margin = 1
  Grace = 2
  Reload = 2
  ShotLife = 3
  MapLength = 4
  MaxIds = 11
INVARIANTS
  NobodyLeftBehind
  CreditsReachTheScore
PROPERTY
  GraceHolds
CHECK_DEADLOCK FALSE
