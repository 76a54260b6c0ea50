SPECIFICATION Spec
CONSTANTS
  NPins = 2
  Caps <- MixedCaps
  HasPulldown = FALSE
  QueueDepth = 2
  TagMod = 3
  PwmMax = 3
  DacMax = 1
  DacScale = 2
  Levels = {0}
  Requests <- MixedRequests
  ResetBarrier = TRUE
INVARIANTS
  TypeOK
  IntentApplied
  LastWriteApplied
  AnalogReadIsFresh
  StaleOnlyBeforeReset
  WriteFindsItsMode
