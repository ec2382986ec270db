CONSTANTS
  MaxCaps = 2
  MaxRanges = 4
  MaxNames = 3
  Limit <- MCLimit
  MaxInitBytes = 3
  MaxMidiNames = 4
  Channels = 6
  MaxUniverses = 2
  MaxFixtures = 4
  Menu <- MCMenu
  FdefText <- MCFdefText
  MdefText <- MCMdefText
  Intents <- MCIntents
  MaxLines = 5
  File <- MCFile
  Long = {}
  Odd = {"quoted"}
  Dotted <- MCDotted
  Staged <- MCStaged
  BootFile = "boot.fnl"
  Text <- MCText
  Bytes <- MCBytes
  Wire <- MCWire
  Absent = "absent"
  Torn = "torn"
  Failing = {"broken"}
  Shipped <- MCShipped
  MaxScriptBytes = 8
  MaxScriptCount = 2
  BootCap = 6
  Escaped = {"quoted", "broken"}
  SrcCap = 4
  FrameCap = 10
  MaxId = 5
  Pads = {1, 2}
  Action <- MCAction
  Scenes <- MCScenes
  Level = {"full", "dark"}
  NoState = NoState
  QueueCap = 1
  SceneMarkerBase = 10
  Untitled = "untitled"
  NoText = ""
  Placeholder = ";new"
  Prompted = {"set.fnl", "quoted", "verse.fnl"}
  Days <- MCDays
  Texts = {"a", "b", "", "long"}
  Fresh = "a"
  Typed <- MCTyped
  Drops <- MCDrops
  Legacies <- MCLegacies
  Seed <- MCSeed
  None = None
  MaxIds = 3
  MaxFiles = 2
  Plans <- MCPlans
  Blank = ""
  TooLong = {"long"}
  Aboard <- MCAboard
  Remarks <- MCRemarks
  MaxAsked = 2

SPECIFICATION ToolSpec
INVARIANT PatchHolds
INVARIANT BundleKeepsShow
INVARIANT RoutesStayApart
INVARIANT GridPadsAnswer
INVARIANT ScriptsWhole
INVARIANT FramesKeepMeaning
INVARIANT PadsTellTruth
PROPERTY Relinks
INVARIANT NamesHold
INVARIANT StoreFollows
INVARIANT SyncedWasThere
CHECK_DEADLOCK FALSE
