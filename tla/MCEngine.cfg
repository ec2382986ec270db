CONSTANTS
  NoEvent = NoEvent
  NoBar = NoBar
  Nobody = Nobody
  deckA = deckA
  deckB = deckB
  Player <- MCPlayer
  Reports <- MCReports
  Setups <- MCSetups
  PulsesPerBeat = 2
  TableSize = 2
  Capacity = 2
  Scale = 20
  Unit = 100
  DefaultPeriod = 40
  MinPeriod = 22
  MaxPeriod = 120
  FramePops = 2
  Period = 9
  Milli = 2
  TickMillis = 2
  Horizon = 38
  Profiles <- MCProfiles
  MaxNews = 2
  MaxPlugs = 3
  MaxPlays = 2
  cueA = cueA
  strip = strip
  wall = wall
  ipA = ipA
  ipB = ipB
  Everyone = "255.255.255.255"
  NotAnIp = NotAnIp
  NoPacket = NoPacket
  Directives <- MCDirectives
  CueName = {cueA}
  SceneName = {"scene"}
  Control = {"pad"}
  Grid = {"pad"}
  Matrix = {"matrix"}
  EvalBudget = 3
  FrameBudget = 1
  Plans <- MCPlans

SPECIFICATION EngineSpec

INVARIANT NotesArriveWhole
PROPERTY BeatNeverRunsBack
INVARIANT MasterIsFollowed
INVARIANT NoBurst
INVARIANT TimeIsAccounted
INVARIANT NothingLeaks
INVARIANT PortIsFaithful
INVARIANT OlderVersionsRest
INVARIANT EffectsFailOnce

\* Time, and how much of each thing happens, are bounded, so every behaviour of
\* this instance ends.
CHECK_DEADLOCK FALSE
