SPECIFICATION Spec
CONSTANTS
    Threads = {t1, t2}
    Calls <- MCCalls
    MaxCalls <- MCMaxCalls
    MaxFaults = 1
    Caps <- MCCaps
    Info <- MCInfo
    QueueDepth = 1
    MaxChannels = 2
    BusyAttempts = 2
    Leftovers <- MCLeftovers
INVARIANTS
    TypeOK
PROPERTIES
    RefusalIsReported
    StartedAsAsked
    FailedStartUndone
    CallsReturn
CHECK_DEADLOCK FALSE
