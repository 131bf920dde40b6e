CONSTANTS
    MAX_REPORTS = 31
    MAX_BYTES = 1024
    GuestCounts = {0, 1, 2, 31, 32}
    CnameLens = {0, 5, 6, 7, 8, 255}
    AppLens = {56, 57, 58, 59}
    Stamps = {0, 1, 2, 3, 18}
SPECIFICATION FairSpec
INVARIANTS TypeOK WholeWords PackedWhole ScanOnHeads ReadAsSent
 
