SPECIFICATION Spec
CONSTANTS
  Levels <- AllLevels
  MaxHistory = 3
  ObstacleShelves = {unique, vertical}
  PowerUpShelves = {powerup}
  RecordedShelves = {vertical}
  Places = {1, 2}
  Rounded <- MCRounded
  Basic = 1
  Settings = {"long", "none"}
  Lengthless = {"none"}
  Saved <- MCSaved
  MaxObjects = 3
  MaxEdits = 2
  None = None
INVARIANTS SelectionExists SettledIsRecorded
PROPERTY IsUndoHistory
CHECK_DEADLOCK FALSE
