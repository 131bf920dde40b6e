CONSTANTS
    Frames = {1, 2, 3}
    None = None
    FRAME_NPCM = 2
    Pulses = {1, 3}
    MaxPending = 2
    MaxSno = 5
SPECIFICATION FairSpec
PROPERTIES RingIsFifo PathInOrder FramesFlow
CHECK_DEADLOCK FALSE
