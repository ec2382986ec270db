CONSTANTS
  Master = Master
  Pad = {}
  Fader = {}
  Param = {}
  Layouts <- MCLayouts
  Rebinds = {}
  QueueSize = 1
  FramePops = 1
  FrameEvals = 1
  MaxBindings = 0
  CueDefs <- MCCueDefs
  Shows <- MCShows
  SceneLists = {}
  Levels = {1}
  Full = 1
  MaxCues = 1
  MaxScenes = 0
  MaxSeq = 2
  MaxLag = 2
  Horizon = 4

SPECIFICATION LiveSpec

PROPERTY ConsoleCueStarts
