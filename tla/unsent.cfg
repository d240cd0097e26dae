SPECIFICATION FairSpec
CONSTANTS
    FAIL_THRESHOLD = 5
    RESTART_DELAY = 1
    START_TIMEOUT = 3
    START_BURST = 3
    START_WINDOW = 30
    Faults = {}
    MaxFaults = 0
    OperatorStops = FALSE
PROPERTY OutageIsActedOn
CHECK_DEADLOCK FALSE
