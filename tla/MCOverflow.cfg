CONSTANTS
  p1 = p1
  f1 = f1
  Master = Master
  Pad = {p1}
  Fader = {f1}
  Param = {}
  Layouts <- MCLayouts
  Rebinds = {}
  QueueSize = 2
  FramePops = 1
  FrameEvals = 0
  MaxBindings = 2
  CueDefs <- MCCueDefs
  Shows <- MCShows
  SceneLists <- MCSceneLists
  Levels = {1}
  Full = 1
  MaxCues = 1
  MaxScenes = 1
  MaxSeq = 2
  MaxLag = 1
  Horizon = 1

SPECIFICATION LiveSpec

INVARIANT OverflowLeavesNoLightOn
