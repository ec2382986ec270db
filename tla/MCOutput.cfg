CONSTANTS
  Universes = 2
  Raw = {1}
  Wired = {1, 2}
  MaxFrames = 4
  Watched = {2}
  a = a
  b = b
  c = c
  Node = {a, b, c}
  Gateway = Gateway
  NoIp = NoIp
  ArtUniverses = 2
  Wire <- MCWire
  Confs <- MCConfs
  Adverts <- MCAdverts
  Carries <- MCCarries
  MaxPorts = 2
  MaxNodes = 2
  Timeout = 2
  SeqMax = 2
  MaxMissed = 1
  MaxFaults = 2

SPECIFICATION OutputSpec

INVARIANT BlackoutStaysDark
INVARIANT SyncFollowsData
PROPERTY LightGoesOut
PROPERTY FrameReachesLine
PROPERTY LiveNodeKept
PROPERTY RoutesSettle
CHECK_DEADLOCK FALSE
