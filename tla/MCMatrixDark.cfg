CONSTANTS
  MaxCaps = 2
  MaxRanges = 4
  MaxNames = 3
  Limit <- MCLimit
  MaxInitBytes = 3
  MaxMidiNames = 4
  Channels = 6
  MaxUniverses = 2
  MaxFixtures = 4
  Menu <- MCMenu
  FdefText <- MCFdefText
  MdefText <- MCMdefText
  Intents <- MCIntents
  MaxLines = 5

SPECIFICATION Spec

CHECK_DEADLOCK FALSE

INVARIANT PixelsReachTheirChannels
