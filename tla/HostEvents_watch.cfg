SPECIFICATION Spec
CONSTANTS
    Bus <- MCBus
    Filtered = FALSE
    Serial = "a"
    ReadyAttempts = 2
    FaultCodes = {"BUSY", "PIPE"}
    WatchList <- MCPins
    RingDepth = 2
    PopMax = 1
    DropMax = 1
    MaxEdges = 2
    MaxFaults = 1
    MaxStreams = 1
    MaxWatchers = 2
INVARIANTS
    OpensTheRightOne
    
    NothingLeftArmed
PROPERTIES
    EventsInOrder
    WatcherStops
CHECK_DEADLOCK FALSE
