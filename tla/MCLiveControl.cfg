CONSTANTS
  p1 = p1
  f1 = f1
  Master = Master
  Pad = {p1}
  Fader = {f1}
  Param = {}
  Layouts <- MCLayouts
  Rebinds <- MCRebinds
  QueueSize = 2
  FramePops = 2
  FrameEvals = 1
  MaxBindings = 1
  CueDefs <- MCCueDefs
  Shows <- MCShows
  SceneLists <- MCSceneLists
  Levels = {1}
  Full = 1
  MaxCues = 1
  MaxScenes = 1
  MaxSeq = 3
  MaxLag = 1
  Horizon = 1

SPECIFICATION LiveSpec

INVARIANT FlashFollowsFinger
INVARIANT ToggleInStep
PROPERTY FlashGoesDark
