SPECIFICATION Spec
CONSTANTS
  NPins = 2
  MaxWatched = 1
  EventDepth = 2
  MaxPerPop = 1
  SeqMod = 3
  MaxCount = 2
  MaxDropped = 2
  EdgeModes = {"RISING", "CHANGE"}
  Debounces = {TRUE}
INVARIANTS
  TypeOK
  BaselineTracks
  SeqOrdered
  DropsAreReported
  OffDiscards
