SPECIFICATION FairSpec
CHECK_DEADLOCK FALSE
CONSTANTS
    CallModes = {"dry-run", "true-off"}
    GRACE_MS = 3
    POLL_MS = 2
    CommandFaults = {{"spawn"}, {"clock", "sleep", "eintr"}, {"sigchld"}}
    MaxClock = 17
    MaxLag = 1
    MaxCalls = 2
INVARIANTS TypeOK OneCommand SuccessNotRetried EarlyFailureSeen CallContract
PROPERTIES CallReturns
