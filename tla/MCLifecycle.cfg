CONSTANTS
  Threshold = 1
  Configs = {"home", "away"}
  Default = "away"
  Offline = {}
  Homes = {"home"}
  Miswired = {}
  FramesNeeded = 2
  MaxRequests = 2
  MaxLosses = 1

SPECIFICATION FairSpec

PROPERTY SafeUpdate
PROPERTY BadImageLeaves
PROPERTY ConfigTakesEffect
PROPERTY Reconnects
