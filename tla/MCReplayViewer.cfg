SPECIFICATION Spec
CONSTANTS
  Nobody = Nobody
  MaxReplayFiles = 2
  MaxGames = 3
  LongGames = {1}
  MaxFrames = 2
  MaxGap = 1
  Slow = 1
  Normal = 1
  Fast = 2
  SeekStep = 1
  Cooldown = 1
  SliderParts = 1
  Keys <- MCKeys
INVARIANTS
  LatestGamesKept
  FrameFollowsTime
PROPERTIES
  OneCallbackPerClick
