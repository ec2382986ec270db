CONSTANTS
  Texts = {"a", "b", "", "long"}
  Fresh = "a"
  Typed <- MCTyped
  Drops <- MCDrops
  Legacies <- MCLegacies
  Seed <- MCSeed
  None = None
  MaxIds = 3
  MaxFiles = 2
  Plans <- RefusedPush
  Blank = ""
  TooLong = {"long"}
  Aboard <- MCAboard
  Remarks <- MCRemarks
  MaxAsked = 2

SPECIFICATION SyncSpec

INVARIANT PullIsSafe
CHECK_DEADLOCK FALSE
