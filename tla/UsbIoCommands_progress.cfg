SPECIFICATION FairSpec
CONSTANTS
  NPins = 3
  Caps <- AnalogCaps
  HasPulldown = FALSE
  QueueDepth = 2
  TagMod = 3
  PwmMax = 3
  DacMax = 1
  DacScale = 2
  Levels = {0}
  Requests <- AnalogRequests
  ResetBarrier = TRUE
PROPERTIES
  ResetIsApplied
  BusyClears
  RoundRobin
