SPECIFICATION Spec
CONSTANTS
  ann = ann
  bob = bob
  Clients = {1, 2}
  Names = {ann, bob}
  Passwords = {"p"}
  Initial <- MCInitial
  Tries <- MCTries
  Lobbies = {"l1"}
  MaxGames = 1
  MaxCommands = 1
  None = None
  Torn = Torn
CONSTRAINT Undamaged
INVARIANT OneLogin
PROPERTY FilesLoseNothing
