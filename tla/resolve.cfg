SPECIFICATION Spec
CHECK_DEADLOCK FALSE
CONSTANTS
    U64MAX = 2000000000
    INT_MAX = 20000
    SEQ_MAX = 3
    MS_PER_SEC = 1000
    MS_PER_MINUTE = 60000
    MAX_DELAY_MINUTES = 10000
    Environments <- SmallEnvironments
    CommandLines <- SmallCommandLines
INVARIANTS ResolvesByRank AcceptedIsUsable
