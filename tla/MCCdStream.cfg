\* Two streams, two files: safety.
SPECIFICATION Spec
CONSTANTS
    gStreamCount = 2
    StreamSemaphoreMax = 2
    SyncSemaphoreMax = 2
    Files = {f1, f2}
    Sectors = {o1}
    SectorCount = 1
    Garbage = Garbage
SYMMETRY FileSymmetry
INVARIANTS
    QueueIsSound
    WakeUpIsForThisRead
    SyncReturnsWithTheData
    SuccessMeansTheData
    FreedWhenThreadWaits
