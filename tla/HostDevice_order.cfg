SPECIFICATION Spec
CONSTANTS
    Threads = {t1}
    Calls <- OrderCalls
    MaxCalls <- OrderMaxCalls
    MaxFaults = 0
    Caps <- MCCaps
    Info <- MCInfo
    QueueDepth = 1
    MaxChannels = 2
    BusyAttempts = 2
    Leftovers <- NoLeftovers
PROPERTY ChannelsInOrder
CHECK_DEADLOCK FALSE
