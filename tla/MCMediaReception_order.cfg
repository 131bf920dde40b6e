CONSTANTS
    SEQ_MOD = 6
    MAX_DROPOUT = 4
    MAX_MISORDER = 2
    MIN_SEQUENTIAL = 2
    REPORT_MOD = 64
    DeliveryThreads = {d1}
    Receiver = receiver
    None = none
    FirstPacket = 3
    MaxPacket = 13
    MaxGap = 2
    Lags = {1}
    MaxOld = 1
    MaxAhead = 1
    Bundles = {}
    MaxMoves = 0
SPECIFICATION FairSpec
INVARIANTS PlayedInOrder NoFalseGap
PROPERTIES HeldMediaLeaves
CHECK_DEADLOCK FALSE
