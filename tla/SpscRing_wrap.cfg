SPECIFICATION Spec
CONSTANTS
  Entries = {e1, e2, e3}
  NoEntry = NoEntry
  Depth = 4
  IndexMod = 8
PROPERTY
  ImplementsFifo
