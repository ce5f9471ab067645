SPECIFICATION FairSpec
CONSTANTS
  Pages <- MCPages
  MaxPackets = 2
  MaxDepth = 3
  MaxClicks = 3
  None = None
INVARIANTS
  LobbyScreensAreMembers
  StartsAreHeard
PROPERTIES
  ResultsLeadHome
CHECK_DEADLOCK FALSE
