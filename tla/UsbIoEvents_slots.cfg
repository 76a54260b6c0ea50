SPECIFICATION Spec
CONSTANTS
  NPins = 2
  MaxWatched = 2
  EventDepth = 1
  MaxPerPop = 1
  SeqMod = 4
  MaxCount = 0
  MaxDropped = 0
  EdgeModes = {"CHANGE"}
  Debounces = {FALSE}
INVARIANTS
  WatchTable
  CountsInArmOrder
