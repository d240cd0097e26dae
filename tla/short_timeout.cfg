SPECIFICATION Spec
CHECK_DEADLOCK FALSE
CONSTANTS
    U64MAX = 1000
    INT_MAX = 100
    SEQ_MAX = 3
    DRAIN_MAX = 2
    Configs <- TimerConfigs
    Signals = {10}
    Faults = {"command"}
    MaxClock = 19
    MaxLag = 0
    CommandMax = 3
    MaxQueue = 1
    MaxAge = 1
PROPERTIES FullTimeout
