CONSTANTS
  dim = dim
  strobe = strobe
  pan = pan
  slow = slow
  NoSlot = NoSlot
  Slot = {slow}
  Channel = {dim, strobe, pan}
  Intensity = {dim, strobe}
  CueDefs <- MCCueDefs
  Shows <- MCShows
  SceneLists <- MCSceneLists
  Levels = {3}
  Full = 4
  MaxCues = 2
  MaxScenes = 1
  MaxSeq = 3
  MaxLag = 0
  Horizon = 3

SPECIFICATION FairSpec

INVARIANT MergesByPrecedence
PROPERTY ReleaseNeverBrightens
PROPERTY CuesEnd
