SPECIFICATION TransportSpec
CONSTANTS
    THREADS = 8
    START_LEVEL = 3
    MaxExpands = 3
    MaxRequests = 3
INVARIANTS ClientsAligned DescriptorsAwaited FreedUnused InOrder DmaOnLiveMemory
PROPERTIES ExpandEnds HostStops DmaAnswered StopReturns
CHECK_DEADLOCK FALSE
