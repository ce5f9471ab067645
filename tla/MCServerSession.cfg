SPECIFICATION MCSpec
CONSTANTS
  e1 = e1
  e2 = e2
  c1 = c1
  c2 = c2
  Endpoints = {e1, e2}
  Codes = {c1, c2}
  other = c2
  IdMod = 2
  MaxClientPerLobby = 0
  MaxConnections = 2
  NoLobby = NoLobby
INVARIANTS
  MembersHaveOwnIds
  MembersEnrolled
  RoutesStayInside
  RoutesAreConnected
PROPERTY
  EmptyLobbySwept
CHECK_DEADLOCK FALSE
