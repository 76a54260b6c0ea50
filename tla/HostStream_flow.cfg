SPECIFICATION FairSpec
CONSTANTS
    r1 = r1
    Readers <- MCReaders
    MaxSeq <- MCMaxSeq
    PacketMax = 1
    RingSize = 2
    ClockWrap = 16
    MaxFaults = 1
    Chunk = 3
    Capacity = 1
    Room = 1
INVARIANTS
    BuffersSafe
    RecordsAccounted
    OnlyThisStream
    DrainedBeforeEnd
PROPERTIES
    StopReturns
CHECK_DEADLOCK FALSE
