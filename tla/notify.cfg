SPECIFICATION FairSpec
CHECK_DEADLOCK FALSE
CONSTANTS
    Statuses = {"ok", "warning"}
    WatchdogSettings <- WatchdogEdges
    RETRY_COUNT = 3
    RETRY_MS = 1
    DEDUP_MS = 2
    Backlog = 1
    NotifyFaults = {"socket", "connect", "eintr", "nobufs", "refused", "clock"}
    MaxClock = 4
    MaxCalls = 3
INVARIANTS TypeOK StatusIsCurrent SuppressionIsBrief ToldOnce SocketMatches KeepaliveInTime
PROPERTY NotifyReturns
