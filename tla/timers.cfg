SPECIFICATION FairSpec
CHECK_DEADLOCK FALSE
CONSTANTS
    U64MAX = 1000
    INT_MAX = 5
    SEQ_MAX = 3
    DRAIN_MAX = 2
    Configs <- TimerConfigs
    Signals = {}
    Faults = {"command"}
    MaxClock = 19
    MaxLag = 1
    CommandMax = 1
    MaxQueue = 1
    MaxAge = 0
INVARIANT TimersServed
PROPERTIES NoEarlyShutdown FairTimeout OutageActedOn
