SPECIFICATION FairSpec
CONSTANTS
    FAIL_THRESHOLD = 5
    RESTART_DELAY = 1
    START_TIMEOUT = 3
    START_BURST = 3
    START_WINDOW = 30
    Faults = {"config", "socket", "notify", "mask", "signalfd", "clock", "ready", "receive", "command"}
    MaxFaults = 3
    OperatorStops = TRUE
INVARIANTS TypeOK ActiveIsMonitoring EverythingReleased NotSilentlyGone
PROPERTIES OutageEndsVisibly StopHonoured
CHECK_DEADLOCK FALSE
