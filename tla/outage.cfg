SPECIFICATION Spec
CHECK_DEADLOCK FALSE
CONSTANTS
    U64MAX = 11
    INT_MAX = 2
    SEQ_MAX = 4
    DRAIN_MAX = 1
    Configs <- OutageConfigs
    Signals = {}
    Faults = {"send", "recv", "poll", "eintr", "clock", "command", "notify"}
    MaxClock = 9
    MaxLag = 1
    CommandMax = 1
    MaxQueue = 1
    MaxAge = 2
INVARIANTS CountdownHasCause ProbeAccounting TypeOK NoBusySpin
PROPERTIES ShutdownHasCause CountdownHonoured PolicySpec OnlyOwnReply
