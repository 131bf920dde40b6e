CONSTANTS
    SEQ_MOD = 6
    MAX_DROPOUT = 4
    MAX_MISORDER = 2
    MIN_SEQUENTIAL = 2
    REPORT_MOD = 64
    DeliveryThreads = {d1}
    Receiver = receiver
    None = none
    FirstPacket = 3
    MaxPacket = 8
    MaxGap = 2
    Lags = {}
    MaxOld = 0
    MaxAhead = 3
    Bundles = {}
    MaxMoves = 0
SPECIFICATION FairSpec
PROPERTY ReceiverNotStuck
CHECK_DEADLOCK FALSE
