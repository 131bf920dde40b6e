CONSTANTS
    SEQ_MOD = 6
    MAX_DROPOUT = 4
    MAX_MISORDER = 2
    MIN_SEQUENTIAL = 2
    REPORT_MOD = 64
    DeliveryThreads = {d1, d2}
    Receiver = receiver
    None = none
    FirstPacket = 3
    MaxPacket = 6
    MaxGap = 2
    Lags = {0}
    MaxOld = 1
    MaxAhead = 3
    Bundles = {4}
    MaxMoves = 1
SPECIFICATION Spec
INVARIANTS TypeOK 
CHECK_DEADLOCK FALSE
