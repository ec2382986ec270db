CONSTANTS
  phone = phone
  laptop = laptop
  verse = verse
  chorus = chorus
  flame = flame
  sparkle = sparkle
  NoEvent = NoEvent
  Nobody = Nobody
  Unknown = Unknown
  NoColour = NoColour
  Event <- MCEvent
  Capacity = 3
  MaxDropped = 2
  Pad = {"pad1", "pad2", "pad3"}
  Palette = {"green", "red", "blue"}
  TokenParts = 2
  Burst = 2
  Refill = 1
  Client <- MCClient
  Cue = {verse, chorus}
  Fx = {flame, sparkle}
  Fds = 2
  Slots = 3
  EvalsPerFrame = 2
  MinInterval = 2
  Setups <- MCSetups

SPECIFICATION ConsoleSpec

INVARIANT EvalsAreAnswered
INVARIANT ErrorsAreHeard
PROPERTY RingIsFifo
PROPERTY FeedbackSettles
