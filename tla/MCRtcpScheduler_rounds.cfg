CONSTANTS
    MAX_SCHED_SESSION = 2
    Intervals = {1, 2}
SPECIFICATION FairSpec
INVARIANTS SchedInv RequestsCounted 
PROPERTIES StartedReports
CHECK_DEADLOCK FALSE
