SPECIFICATION Spec
CONSTANTS
  Radix = 16
  IntBytes = 2
  LongBytes = 3
  VarintData = 8
  MaxVarint = 5
  NameLength = 3
  Entries = 2
  MinCompress = 30
  Quantum <- MCQuantum
  Names <- MCNames
  LongNames <- MCLongNames
  Codes <- MCCodes
  ShortCodes <- MCShortCodes
  Texts <- MCTexts
  Clients <- MCClients
  Ids <- MCIds
  Numbers <- MCNumbers
  Scoreboards <- MCScoreboards
  Worlds <- MCWorlds
INVARIANTS
  HandlersHearTheSender
  StatesArrive
