CONSTANTS
    SEQ_MOD = 9
    MAX_DROPOUT = 5
    MAX_MISORDER = 3
    MIN_SEQUENTIAL = 3
    REPORT_MOD = 64
    FirstExt = {4, 7}
    MaxExt = 20
    MaxGap = 2
    MaxLag = 1
    Jumps = {5, 8}
    MaxReceived = 7
    ReportBound = 3
SPECIFICATION Spec
INVARIANTS TypeOK IntervalsNotNegative WrapsCounted
PROPERTIES ExseqnoNeverGoesBack ValidAfterSequentialRun
CHECK_DEADLOCK FALSE
