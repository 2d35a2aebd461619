\* One stream, two files: READING_SUCCESS for a read that was refused.
SPECIFICATION Spec
CONSTANTS
    gStreamCount = 1
    StreamSemaphoreMax = 2
    SyncSemaphoreMax = 2
    Files = {f1, f2}
    Sectors = {o1}
    SectorCount = 1
    Garbage = Garbage
INVARIANT ReadyChannelHoldsItsModels
