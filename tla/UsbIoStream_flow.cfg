SPECIFICATION FairSpec
CONSTANTS
  NPins = 2
  MaxChannels = 2
  RingDepth = 1
  PacketMax = 2
  FailureLimit = 2
  ReqMod = 2
  MaxSeq = 4
  Results = {"SENT", "BUSY", "FAILED"}
INVARIANTS
  TypeOK
  Conserved
  InOrder
  TornIsLast
PROPERTY
  StoppedIsDrained
