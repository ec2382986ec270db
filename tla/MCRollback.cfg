CONSTANTS
  Universes = 2
  Raw = {2}
  Wired = {1}
  MaxFrames = 2
  Watched = {}

SPECIFICATION Spec

INVARIANT DarkBeforeReboot
CHECK_DEADLOCK FALSE
