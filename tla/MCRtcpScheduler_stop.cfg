CONSTANTS
    MAX_SCHED_SESSION = 1
    Intervals = {1}
SPECIFICATION FairSpec
PROPERTY StopEndsThread
CHECK_DEADLOCK FALSE
