SPECIFICATION FairSpec
CHECK_DEADLOCK FALSE
CONSTANTS
    U64MAX = 1000
    INT_MAX = 100
    SEQ_MAX = 3
    DRAIN_MAX = 2
    Configs <- SignalConfigs
    Signals = {2, 10, 15}
    Faults = {"command"}
    MaxClock = 5
    MaxLag = 1
    CommandMax = 0
    MaxQueue = 1
    MaxAge = 1
PROPERTIES StopIsFinal InterruptServed TerminateServed
