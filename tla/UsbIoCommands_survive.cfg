SPECIFICATION Spec
CONSTANTS
  NPins = 1
  Caps <- DigitalCaps
  HasPulldown = FALSE
  QueueDepth = 2
  TagMod = 4
  PwmMax = 3
  DacMax = 1
  DacScale = 2
  Levels = {0, 1}
  Requests <- DigitalRequests
  ResetBarrier = FALSE
INVARIANT
  CommandsAfterResetSurvive
